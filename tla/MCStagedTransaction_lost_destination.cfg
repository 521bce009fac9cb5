SPECIFICATION Spec
CONSTANTS
  a = a
  b = b
  Ops = {o1, o2}
  Contents = {a, b}
  Plans <- TwoMoves
  Nothing = Nothing
  NoOp = NoOp
  Foreign = Foreign
  MaxName = 3
  MaxCrashes = 1
  MaxFaults = 0
  MaxMeddles = 1
  MaxTroubles = 2
PROPERTIES GuardRestores
CHECK_DEADLOCK FALSE
