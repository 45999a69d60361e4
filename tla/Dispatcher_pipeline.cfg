CONSTANTS
  c1 = c1
  c2 = c2
  many = many
  wide = wide
  narrow = narrow
  NoScope = NoScope
  Calls = {c1, c2}
  Batches = {many}
  BatchOf <- OneBatch
  Gated = {c1}
  Limited = {c1}
  MaxAttempts <- RetryBoth
  MaxConcurrency = 1
  AuditSize = 1
  FailClosed = TRUE
  Scopes = {wide, narrow}
  Allows <- TwoScopes
SPECIFICATION FairSpec
INVARIANTS SlotsExact AuditExact
PROPERTIES ImplementsToolGate CallsEnd
CHECK_DEADLOCK FALSE
