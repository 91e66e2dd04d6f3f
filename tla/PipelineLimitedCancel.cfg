SPECIFICATION Spec
CONSTANTS
  w1 = w1
  w2 = w2
  Workers <- TwoWorkers
  ChanCap = 2
  Total = 3
  Live = FALSE
  LiveLimited = TRUE
  MultiTrack = FALSE
  SaveMayFail = FALSE
  MaxRuns = 1
SYMMETRY AnyWorker
INVARIANTS CancelKeepsCheckpoint
CHECK_DEADLOCK FALSE
