SPECIFICATION FairSpec
CONSTANTS
  a = a
  b = b
  Ops = {o1, o2}
  Contents = {a, b}
  Plans <- Duplicates
  Nothing = Nothing
  NoOp = NoOp
  Foreign = Foreign
  MaxName = 3
  MaxCrashes = 1
  MaxFaults = 0
  MaxMeddles = 0
  MaxTroubles = 3
PROPERTIES CallsReturn
CHECK_DEADLOCK FALSE
