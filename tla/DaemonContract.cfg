SPECIFICATION FairSpec
CONSTANTS
  Detach = TRUE  Monitor = TRUE
  MaxProcs = 7
  StartupDeaths <- MCErrorExit
  RunDeaths <- MCAllDeaths
  OtherDeaths <- MCNone
  ForkFails = FALSE
PROPERTIES KeepsContract StarterIsAnswered CrashedDaemonReplaced
CHECK_DEADLOCK FALSE
