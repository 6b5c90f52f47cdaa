\* Dispatch over two workers whose queues fill up (three requests, room for one
\* each), through shutdown.
SPECIFICATION SafeSpec
CONSTANTS
  MaxInvoke = 3
  NumWorkers = 2
  QueueSize = 1
  MaxCalls = 1
  DropExpired = TRUE
INVARIANTS
  DispatchedOnce
  CleanExit
  ResultWakeup
