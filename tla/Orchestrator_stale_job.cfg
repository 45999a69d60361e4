CONSTANTS
  j1 = j1
  j2 = j2
  j3 = j3
  vpn = vpn
  monitor = monitor
  NoJob = NoJob
  Jobs <- TwoJobs
  Priority <- OneBand
  Workers = {w1}
  BrokenWorkers = {}
  Services = {vpn}
  FlakyServices = {}
  InitialServices <- VpnOnly
  Stoppers = {s1}
  QueueSize = 2
  HistorySize = 2
  Orders = {TRUE}
  Watched <- TwoJobs
  MaxStarts = 2
SPECIFICATION Spec
PROPERTY ResultIsFinal
CHECK_DEADLOCK FALSE
