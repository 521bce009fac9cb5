SPECIFICATION Spec
CONSTANTS
  a = a
  b = b
  Ops = {o1, o2}
  Contents = {a, b}
  Plans <- AllPlans
  Nothing = Nothing
  NoOp = NoOp
  Foreign = Foreign
  MaxName = 2
  MaxCrashes = 2
  MaxFaults = 1
  MaxMeddles = 1
  MaxTroubles = 2
INVARIANTS ReservationInv Conservation AccountsTruthful
PROPERTIES NoClobber  
SYMMETRY OpSymmetry
CHECK_DEADLOCK FALSE
