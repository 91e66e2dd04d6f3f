SPECIFICATION FairSpec
CONSTANTS
  Formats = {"ts", "dash"}
  Selections <- SomeSelections
  Units = 3
  Prime = 1
  PipeCap = 1
  Lead = 1
  MaxClock = 3
INVARIANTS
  PacedToClock
  CompleteIsBroadcast
PROPERTIES
  ServeEnds
CHECK_DEADLOCK FALSE
