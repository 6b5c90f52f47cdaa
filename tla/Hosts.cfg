\* Two children; two slots of shared group data for two servers.
SPECIFICATION Spec
CONSTANTS
  Workers = {"worker"}
  Monitor = "monitor"
  Slots = 2
  Addrs = {a1, a2}
  MaxGroups = 2
  MaxCopies = 4
  MaxRetry = 2
  Masters = 2
  Slaves = 2
  Calc <- MCCalc
  Hashes = {0, 4, 9}
SYMMETRY MCSymmetry
CONSTRAINT MCBound
INVARIANTS
  SlotKept
  IdleFound
  SelectRight
CHECK_DEADLOCK FALSE
