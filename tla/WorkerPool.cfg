SPECIFICATION FairSpec
CONSTANTS
  w1 = w1  w2 = w2  i1 = i1  i2 = i2
  Workers <- MCWorkers
  Items <- MCItems
  QueueSize = 1
  CanKill = TRUE
  CanFail = TRUE
INVARIANT EverythingIsAccounted
PROPERTIES ImplementsTaskPool ExitEnds
CHECK_DEADLOCK FALSE
