SPECIFICATION FairSpec
CONSTANTS
  w1 = w1
  w2 = w2
  Workers <- TwoWorkers
  ChanCap = 1
  Total = 3
  Live = FALSE
  LiveLimited = FALSE
  MultiTrack = FALSE
  SaveMayFail = FALSE
  MaxRuns = 2
INVARIANTS
  OutputInOrder
  CheckpointCutsOutput
  CompleteOnSuccess
PROPERTIES
  ImplementsCopy
  RerunLosesAtMostOne
CHECK_DEADLOCK FALSE
