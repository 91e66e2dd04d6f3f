SPECIFICATION FairSpec
CONSTANTS
  Segments <- AllKinds
  Size = 4
  Retries = 2
  Refreshable = TRUE
  CapsOpen = FALSE
  Chunked = FALSE
  TornRetries = FALSE
  MaxRuns = 3
INVARIANTS
  PartIsPrefix
  OkIsWhole
PROPERTIES FetchEnds
CHECK_DEADLOCK FALSE
