SPECIFICATION Spec
CONSTANTS
  Newest = 6
  Window = 3
  Keep = 2
  InitOf <- TwoInits
  Ads = {3}
  MaxStale = 1
  RerunsLive = TRUE
INVARIANTS SkipsOnlyWritten
CHECK_DEADLOCK FALSE
