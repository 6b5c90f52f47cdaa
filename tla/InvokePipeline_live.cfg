\* Answers, timeouts and repeated callbacks race on one worker: two requests,
\* two calls of each callback.
SPECIFICATION Spec
CONSTANTS
  MaxInvoke = 2
  NumWorkers = 1
  QueueSize = 2
  MaxCalls = 2
  DropExpired = FALSE
INVARIANTS
  TimerRegistered
  AnsweredOnce
  TaskWakeup
PROPERTIES
  ImplementsService
  ShutdownCompletes
