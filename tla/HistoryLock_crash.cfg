SPECIFICATION LockSpec
CONSTANTS
  Stores = {s1, s2}
  DeadStore = DeadStore
  NoInode = NoInode
  MaxStoreDeaths = 1
INVARIANT RestartOpensHistory
CHECK_DEADLOCK FALSE
