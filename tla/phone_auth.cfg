SPECIFICATION Spec
CONSTANTS
  Callers = {c1, c2}
  ResendInterval = 1
  Ttl = 2
  MaxAttempts = 2
  MaxCodes = 2
  MaxUses = 2
  MaxTime = 2
CHECK_DEADLOCK FALSE
SYMMETRY Symmetry
INVARIANTS
  AttemptsAreLimited
  CleanupHitsItsOwnCode
  OneLoginPerCode
PROPERTIES
  RevokedStaysRevoked
