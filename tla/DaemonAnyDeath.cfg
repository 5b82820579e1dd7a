SPECIFICATION Spec
CONSTANTS
  Detach = TRUE  Monitor = TRUE
  MaxProcs = 5
  StartupDeaths <- MCAllDeaths
  RunDeaths <- MCAllDeaths
  OtherDeaths <- MCAllDeaths
  ForkFails = TRUE
INVARIANT OneDaemon
CHECK_DEADLOCK FALSE
