SPECIFICATION Spec
CONSTANTS
  p1 = p1  p2 = p2  d1 = d1  unset = unset
  SetSize = 1
  FdArgs = {0}
  Procs <- MCOneProc
  Data <- MCData
  Unset <- MCUnset
  TicksPerSec = 2  MaxClock = 6  MaxTimers = 2
  Delays = {0, 3}
  CallFlags <- MCAllFlags
  HasBeforeSleep = TRUE
  SlowHandlers = TRUE
  MaxJumps = 1
INVARIANT PassRunsOnlyOldTimers
PROPERTIES SkewForcesAll OversleepsLessThanASecond
