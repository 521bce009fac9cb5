SPECIFICATION Spec
CONSTANTS
  a = a
  b = b
  Ops = {o1, o2}
  Contents = {a, b}
  Plans <- TwoMoves
  Nothing = Nothing
  NoOp = NoOp
  Foreign = Foreign
  MaxName = 3
  MaxCrashes = 2
  MaxFaults = 1
  MaxMeddles = 0
  MaxTroubles = 3
PROPERTIES SweepFreesNames
CHECK_DEADLOCK FALSE
