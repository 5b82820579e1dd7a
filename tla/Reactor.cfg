SPECIFICATION MCSpec
CONSTANTS
  c1 = c1  c2 = c2  t1 = t1  t2 = t2
  Conns <- MCConns
  Timers <- MCTimers
  FdLimit = 4
  Msecs = {1, 2}
  MsPerSec = 2  UsPerMs = 1
  MaxClock = 3
  MaxHeap = 2
  MaxEntries = 2
  Restarting <- MCOneTimer
  HeapMayFill = FALSE
  Reregisters = FALSE
  ResetFrom <- MCAnyReset
INVARIANTS MapIsInterest NoStaleHandler
PROPERTIES ScanIsExact DueTimersFire
CHECK_DEADLOCK FALSE
