SPECIFICATION FairSpec
CONSTANTS
  OpCount = 2
  Workers = {w1, w2}
  Calls = {c1, c2}
  NoOp = NoOp
  MaxFaults = 1
  MaxCrashes = 1
INVARIANTS EventsInv TerminalTellsTheTruth EvidenceIsComplete RestIsQuiet
PROPERTIES NothingAfterTheEnd TerminalIsForever DriftNeverRuns WorkEnds
CHECK_DEADLOCK FALSE
