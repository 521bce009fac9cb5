SPECIFICATION FairSpec
CONSTANTS
  Writers = {w1, w2}
  NoWriter = NoWriter
  MaxAppends = 3
  MaxTroubles = 2
  Procs = {p1, p2}
  Ghost = Ghost
  None = None
  MaxDeaths = 1
  Stores = {s1, s2}
  DeadStore = DeadStore
  NoInode = NoInode
  MaxStoreDeaths = 1
  Users = {u1, u2}
  DeadUser = DeadUser
  NoFile = NoFile
  MaxRounds = 2
  MaxUserDeaths = 1
  MaxBatches = 2
  MaxVerifies = 1
  MaxDamage = 1
  HistoryJobs = {j1, j2}
  MaxHistorySequence = 3
  MaxHistoryTroubles = 2
  MaxLookFailures = 0
INVARIANTS JournalHolds LocksExclude DeadNeverKeepLocks EvidenceHolds HistoryReplays HistoryIsTold
PROPERTIES RepairKeepsRecords FilesSettle
CHECK_DEADLOCK FALSE
