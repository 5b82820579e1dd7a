SPECIFICATION EchoSpec
CONSTANTS
  c1 = c1  c2 = c2  c3 = c3  null = null  unset = unset
  Clients <- MCOneClient
  NULL <- MCNull
  SetSize = 2
  FdArgs = {0, 1}
  Procs <- MCProcs
  Data <- MCData
  Unset <- MCUnset
  TicksPerSec = 1  MaxClock = 1  MaxTimers = 0
  Delays = {}
  CallFlags <- MCNoFlags
  HasBeforeSleep = FALSE
  SlowHandlers = FALSE
  MaxJumps = 0
  FdLimit = 2
  BufSize = 3
  SndBuf = 2
  MaxBytes = 3
  PeersWait = FALSE
INVARIANTS EchoesInOrder
CHECK_DEADLOCK FALSE
