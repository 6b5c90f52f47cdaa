\* Crashes, failed starts and forks, reloads, a binary upgrade and its way back
\* on a table of four slots.
SPECIFICATION SafeSpec
CONSTANTS
  NumProcesses = 1
  MaxSlots = 4
  MaxPid = 5
  MaxSignals = 2
  MaxCrashes = 2
  MaxForkFails = 0
  ChannelSize = 1
  Signals = {"HUP", "QUIT", "USR2", "WINCH"}
  GracefulQuit = FALSE
CHECK_DEADLOCK FALSE
INVARIANTS
  ChildrenTracked
  LeavesClean
  Staffed
  DeathNoticed
