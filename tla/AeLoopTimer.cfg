SPECIFICATION FairSpec
CONSTANTS
  p1 = p1  p2 = p2  d1 = d1  unset = unset
  SetSize = 1
  FdArgs = {0}
  Procs <- MCOneProc
  Data <- MCData
  Unset <- MCUnset
  TicksPerSec = 2  MaxClock = 5  MaxTimers = 3
  Delays = {1, 3}
  CallFlags <- MCNoFlags
  HasBeforeSleep = FALSE
  SlowHandlers = FALSE
  MaxJumps = 0
INVARIANT NoTimerLost
PROPERTIES PassLeavesNoneDue DueTimerRuns StopEndsMain
