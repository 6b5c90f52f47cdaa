\* SIGTERM and SIGQUIT, with a reload before them or in between; children
\* react only where a property assumes it.
SPECIFICATION MasterSpec
CONSTANTS
  NumProcesses = 1
  MaxSlots = 4
  MaxPid = 4
  MaxSignals = 2
  MaxCrashes = 0
  MaxForkFails = 0
  ChannelSize = 1
  Signals = {"HUP", "TERM", "QUIT"}
  GracefulQuit = TRUE
CHECK_DEADLOCK FALSE
PROPERTIES
  TerminateCompletes
  QuitCompletes
  OldRetired
