SPECIFICATION DaemonSpec
CONSTANTS
  MaxAttempts = 3
  Base = 2
  MaxBackoff = 3
  MaxEscapes = 4
  WorkerNames = {w1}
  MaxRestarts = 2
  Window = 3
  RestartDelay = 1
  MaxSwallows = 2
  TunnelEvery = 1
  HealthEvery = 2
  MaxRuns = 2
INVARIANTS
  RecoveryBounded
  RestartBudget
  NothingOutlivesStop
PROPERTIES
  StopHonoured
  FailuresSurface
  TunnelSettles
