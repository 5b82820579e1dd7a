SPECIFICATION BothSpec
CONSTANTS
  c1 = c1  c2 = c2  Conns <- MCConns  None = None
  MaxThreads = 3  MinSize = 1  MaxSize = 2  Amounts = {1}
  MaxAsks = 1  MaxStarts = 2  MaxShrinks = 2  MaxStops = 1
  RestartsAfter <- MCAnything
  Asked <- MCAsked  MaxBody = 3  Reads = {2}  Writes = {1, 2}  Lengths = {1}  Statuses = {204, 413, 500}
  MaxPieces = 2  Followed <- MCExcuses
INVARIANTS PoolSize EachToItsRequest
PROPERTIES GracefulStop StopEnds
CHECK_DEADLOCK FALSE
