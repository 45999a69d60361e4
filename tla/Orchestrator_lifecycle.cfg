CONSTANTS
  j1 = j1
  j2 = j2
  j3 = j3
  vpn = vpn
  monitor = monitor
  NoJob = NoJob
  Jobs <- ThreeJobs
  Priority <- TwoBands
  Workers = {w1, w2}
  BrokenWorkers = {}
  Services = {vpn}
  FlakyServices = {vpn}
  InitialServices <- VpnOnly
  Stoppers = {s1}
  QueueSize = 1
  HistorySize = 1
  Orders = {TRUE}
  Watched <- ThreeJobs
  MaxStarts = 1
SPECIFICATION Spec
INVARIANT ExactAccounting
PROPERTIES DrainSeesThemOut ImplementsJobService
CHECK_DEADLOCK FALSE
