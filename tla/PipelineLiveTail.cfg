SPECIFICATION Spec
CONSTANTS
  w1 = w1
  w2 = w2
  Workers <- TwoWorkers
  ChanCap = 2
  Total = 3
  Live = TRUE
  LiveLimited = FALSE
  MultiTrack = FALSE
  SaveMayFail = FALSE
  MaxRuns = 1
SYMMETRY AnyWorker
INVARIANTS HoleKeepsStreamMoving
CHECK_DEADLOCK FALSE
