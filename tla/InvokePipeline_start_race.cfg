SPECIFICATION Spec
CONSTANTS
  MaxInvoke = 1
  NumWorkers = 1
  QueueSize = 1
  MaxCalls = 1
  DropExpired = TRUE
PROPERTIES
  QueuedIsTaken
