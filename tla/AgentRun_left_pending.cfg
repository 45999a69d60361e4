SPECIFICATION Spec
CONSTANTS
  Steps = {1, 2, 3}
  Shapes <- all
  MaxRounds = 0
  Persists = FALSE
  MaxRuns = 1
INVARIANT NothingLeftBelow
CHECK_DEADLOCK FALSE
