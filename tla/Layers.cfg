SPECIFICATION FairSpec
CONSTANTS
  NumNames = 2
  NumProcs = 2
  Loaded <- MCLoaded
INVARIANTS OnlyRacesLoseProcesses UnloadedIsGone LoweredOnlyWhenEmpty
PROPERTIES UnloadEnds FirstDeathIsReported
CHECK_DEADLOCK FALSE
