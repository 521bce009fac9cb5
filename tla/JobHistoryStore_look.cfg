SPECIFICATION HistorySpec
CONSTANTS
  HistoryJobs = {j1, j2}
  MaxHistorySequence = 3
  MaxHistoryTroubles = 0
  MaxLookFailures = 1
INVARIANT HistoryReplays
CHECK_DEADLOCK FALSE
