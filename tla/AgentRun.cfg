SPECIFICATION FairSpec
CONSTANTS
  Steps = {1, 2, 3}
  Shapes <- all
  MaxRounds = 2
  Persists = TRUE
  MaxRuns = 2
INVARIANT VerdictHonest
PROPERTIES
  ImplementsPlanExecution
  RunEnds
CHECK_DEADLOCK FALSE
