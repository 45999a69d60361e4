CONSTANTS
  j1 = j1
  j2 = j2
  j3 = j3
  vpn = vpn
  monitor = monitor
  NoJob = NoJob
  Jobs <- TwoJobs
  Priority <- OneBand
  Workers = {w1, w2}
  BrokenWorkers = {w2}
  Services = {vpn, monitor}
  FlakyServices = {monitor}
  InitialServices <- VpnOnly
  Stoppers = {s1}
  QueueSize = 1
  HistorySize = 1
  Orders = {TRUE, FALSE}
  Watched = {j1}
  MaxStarts = 2
SPECIFICATION FairSpec
INVARIANTS LiveWorkersListed WorkOnlyBehindServices
PROPERTIES QueuedJobsEnd WaitersReleased StopEnds BackPressureReleases
CHECK_DEADLOCK FALSE
