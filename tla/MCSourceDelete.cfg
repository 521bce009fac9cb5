SPECIFICATION FairSpec
CONSTANTS
  Helpers = {h1, h2}
  Orphans = TRUE
  MaxKills = 2
INVARIANTS IInv ReplacementPreserved VerdictsTruthful
PROPERTIES PromiseKept Converges
