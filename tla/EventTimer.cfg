\* Seven or six timers at one time, or two or three while time goes on.
SPECIFICATION Spec
CONSTANTS
  Nodes = {1, 2, 3, 4, 5, 6, 7}
  Lazy = 2
  Cap = 2
  Loads <- MCLoads
INVARIANTS
  TreeSound
  FiresOnTime
