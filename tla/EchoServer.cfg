SPECIFICATION EchoFairSpec
CONSTANTS
  c1 = c1  c2 = c2  c3 = c3  null = null  unset = unset
  Clients <- MCClients
  NULL <- MCNull
  SetSize = 3
  FdArgs = {0, 1, 2}
  Procs <- MCProcs
  Data <- MCData
  Unset <- MCUnset
  TicksPerSec = 1  MaxClock = 1  MaxTimers = 0
  Delays = {}
  CallFlags <- MCNoFlags
  HasBeforeSleep = FALSE
  SlowHandlers = FALSE
  MaxJumps = 0
  FdLimit = 3
  BufSize = 2
  SndBuf = 1
  MaxBytes = 2
  PeersWait = TRUE
INVARIANTS OpenIffWatched EchoesInOrder
PROPERTIES ImplementsLoop EveryByteEchoed
CHECK_DEADLOCK FALSE
