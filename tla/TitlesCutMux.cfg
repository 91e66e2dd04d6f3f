SPECIFICATION Spec
CONSTANTS
  Entries <- FiveEntries
  Par = 1
  RetryPick = FALSE
  MaxRuns = 2
INVARIANT MuxedIsDone
CHECK_DEADLOCK FALSE
