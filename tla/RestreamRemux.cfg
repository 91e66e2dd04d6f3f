SPECIFICATION FairSpec
CONSTANTS
  Formats = {"ts"}
  Selections <- SomeSelections
  Units = 3
  Prime = 1
  PipeCap = 1
  Lead = 1
  MaxClock = 3
PROPERTIES RemuxErrorEnds
CHECK_DEADLOCK FALSE
