SPECIFICATION MoveSpec
CONSTANTS
  Ops = {m1, m2}
  NoOp = NoOp
  Foreign = Foreign
  MaxName = 3
  MaxCrashes = 1
  MaxFaults = 0
INVARIANT CancellationsTruthful
CHECK_DEADLOCK FALSE
