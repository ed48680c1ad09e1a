SPECIFICATION FairSpec
CONSTANTS
  MaxRuns = 2
  MaxTests = 2
  MaxPresses = 2
CHECK_DEADLOCK FALSE
INVARIANTS VerdictIsTrue
PROPERTIES RunEnds
