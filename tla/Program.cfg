SPECIFICATION FairSpec
CONSTANTS
  Entries <- FiveEntries
  Par = 1
  RetryPick = FALSE
  MaxRuns = 2
  Requests = {r1, r2}
  Ids = {i1, i2}
  Remux = {r1}
  MaxChannels = 1
  MaxCrashes = 1
  Jobs = {1, 2, 3}
  MaxJobs = 2
  MaxRetain = 1
  Retain = 1
  MaxClock = 3
INVARIANTS
  TitlesKept
  ChannelsOwned
  CapCountsChildren
PROPERTIES
  EveryModeSettles
  ReapsOldestFinished
CHECK_DEADLOCK FALSE
