SPECIFICATION FairSpec
CONSTANTS
  p1 = p1  p2 = p2  d1 = d1  unset = unset
  SetSize = 0
  FdArgs = {}
  Procs <- MCOneProc
  Data <- MCData
  Unset <- MCUnset
  TicksPerSec = 1  MaxClock = 2  MaxTimers = 1
  Delays = {0}
  CallFlags <- MCNoFlags
  HasBeforeSleep = FALSE
  SlowHandlers = FALSE
  MaxJumps = 0
PROPERTIES PassEnds
