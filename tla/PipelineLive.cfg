SPECIFICATION FairSpec
CONSTANTS
  w1 = w1
  w2 = w2
  Workers <- TwoWorkers
  ChanCap = 1
  Total = 3
  Live = TRUE
  LiveLimited = TRUE
  MultiTrack = TRUE
  SaveMayFail = TRUE
  MaxRuns = 1
INVARIANTS
  IInv
PROPERTIES
  RunEnds
CHECK_DEADLOCK FALSE
