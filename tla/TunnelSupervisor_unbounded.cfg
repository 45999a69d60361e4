SPECIFICATION Spec
CONSTANTS
  MaxAttempts = 2
  Base = 1
  MaxBackoff = 2
  MaxEscapes = 3
INVARIANT AttemptsBounded
