SPECIFICATION CoreLockSpec
CONSTANTS
  Procs = {p1, p2, p3}
  Ghost = Ghost
  None = None
  MaxDeaths = 0
INVARIANT OneOwner
CHECK_DEADLOCK FALSE
