SPECIFICATION FairSpec
CONSTANTS
  Newest = 6
  Window = 3
  Keep = 2
  InitOf <- TwoInits
  Ads = {3}
  MaxStale = 1
  RerunsLive = FALSE
INVARIANTS
  OnceInOrder
  InitPrecedes
  SkipsOnlyWritten
PROPERTIES FeedEnds
CHECK_DEADLOCK FALSE
