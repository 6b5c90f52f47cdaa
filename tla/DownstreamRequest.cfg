\* Every failure of peer, network and socket buffer; two attempts of a
\* request with two connects each; connect(2) may succeed at once or later.
SPECIFICATION Spec
CONSTANTS
  MaxRetryReq = 1
  MaxRetryCon = 1
  BodyLen = 2
  Kinds = {"ok", "other", "nobody", "empty", "badline", "badhead"}
  PeerFaults = TRUE
  WriteBlocks = TRUE
  SyncConnect = TRUE
CHECK_DEADLOCK FALSE
PROPERTIES
  Answered
  AnsweredByPeer
INVARIANTS
  CalledOnce
  Owned
  LastReason
  WholeUnlessClosed
