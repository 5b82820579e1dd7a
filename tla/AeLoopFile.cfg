SPECIFICATION Spec
CONSTANTS
  p1 = p1  p2 = p2  d1 = d1  unset = unset
  SetSize = 3
  FdArgs = {0, 2, 3}
  Procs <- MCProcs
  Data <- MCData
  Unset <- MCUnset
  TicksPerSec = 1  MaxClock = 1  MaxTimers = 0
  Delays = {}
  CallFlags <- MCNoFlags
  HasBeforeSleep = FALSE
  SlowHandlers = FALSE
  MaxJumps = 0
INVARIANTS MaxfdIsHighest InterestIsMask
PROPERTIES BatchIsServed
SYMMETRY ProcSymmetry
