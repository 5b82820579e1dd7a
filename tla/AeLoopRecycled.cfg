SPECIFICATION Spec
CONSTANTS
  p1 = p1  p2 = p2  d1 = d1  unset = unset
  SetSize = 2
  FdArgs = {0, 1}
  Procs <- MCOneProc
  Data <- MCData
  Unset <- MCUnset
  TicksPerSec = 1  MaxClock = 1  MaxTimers = 0
  Delays = {}
  CallFlags <- MCNoFlags
  HasBeforeSleep = FALSE
  SlowHandlers = FALSE
  MaxJumps = 0
PROPERTIES EventOfThisRegistration
