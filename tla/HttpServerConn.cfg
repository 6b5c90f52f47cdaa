\* A client that may pipeline, leaves at any moment and reads slowly.
SPECIFICATION Spec
CONSTANTS
  MaxReq = 3
  Kinds = {"get", "post", "sync", "status", "badline", "badhead"}
  MaxPiped = 2
  ClientFaults = TRUE
  Blocks = 1
  Slow = TRUE
CHECK_DEADLOCK FALSE
PROPERTIES
  Settled
  LeaverClosed
INVARIANTS
  Owned
  WholeUnlessClosed
  InOrder
