SPECIFICATION Spec
CONSTANTS
  Entries <- FiveEntries
  Par = 1
  RetryPick = FALSE
  MaxRuns = 2
INVARIANT InterruptedIsResumed
CHECK_DEADLOCK FALSE
