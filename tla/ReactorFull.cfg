SPECIFICATION Spec
CONSTANTS
  c1 = c1  c2 = c2  t1 = t1  t2 = t2
  Conns <- MCOneConn
  Timers <- MCTimers
  FdLimit = 3
  Msecs = {1}
  MsPerSec = 2  UsPerMs = 1
  MaxClock = 3
  MaxHeap = 2
  MaxEntries = 2
  Restarting <- MCOneTimer
  HeapMayFill = TRUE
  Reregisters = FALSE
  ResetFrom <- MCAnyReset
INVARIANTS TimesAreInHeap
CHECK_DEADLOCK FALSE
