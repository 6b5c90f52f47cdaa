\* Two threads; the system may come to rest with a thread dead and its locks held.
SPECIFICATION Spec
CONSTANTS
  Threads = {t1, t2}
  Blocks = 3
  MaxDead = 1
SYMMETRY Symmetry
CHECK_DEADLOCK FALSE
INVARIANTS
  MaskRestored
  PoolSound
