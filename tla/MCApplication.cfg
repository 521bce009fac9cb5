SPECIFICATION ApplicationSpec
CONSTANTS
  Calls = {c1, c2, c3}
  Close = close
  Nobody = Nobody
  Ops = {m1, m2}
  NoOp = NoOp
  Foreign = Foreign
  MaxName = 3
  MaxCrashes = 1
  MaxFaults = 1
  Reads = {r1, r2}
  Kids = {k1, k2}
  NoKid = NoKid
  NoRead = NoRead
  PoolSize = 2
  LaborerCount = 3
  ItemCount = 4
  Weights <- FileWeights
  MaxWeight = 3
  Darwin = TRUE
  MaxWindows = 2
  Orders = {o1, o2, o3}
  Destinations = {d1, d2}
  SourceSets = {s1, s2}
  Cores = {x1, x2}
  NoCore = NoCore
INVARIANTS IInv CloseIsLast MoveArrives PoolsHold CoresHold OwnersOutliveUsers
PROPERTIES LostIsQuiet AnswersWin NothingReplaced NothingStartsAfterFailure
PROPERTIES WindowsNeedRuntime EverythingSettles
CHECK_DEADLOCK FALSE
