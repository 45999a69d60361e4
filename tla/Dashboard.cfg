SPECIFICATION DashSpec
CONSTANTS
  Operators = {o1}
  RequireEndpoint = TRUE
  RequireAdmin = FALSE
  MayFail = {"established", "endpoint", "drop", "flush"}
  MayCancel = TRUE
  Nobody = Nobody
  Clients = {c1}
  QueueSize = 2
INVARIANTS
  ExemptWhileDropping
  StateTellsTruth
  BrowserTellsTruth
PROPERTY DeadMansSwitch
