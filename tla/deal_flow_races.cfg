SPECIFICATION Spec
CONSTANTS
  Workers = {w1, w2}
  Plans = {"BASIC"}
  Categories = {"OTHER"}
  Creators = {"SELLER"}
  Origins = {"joined", "unaccepted"}
  MockEscrowEnabled = TRUE
  InspectionHours = 1
  MaxEvents = 9
  MaxTime = 1
  NoTime = NoTime
  NoRole = NoRole
CHECK_DEADLOCK FALSE
SYMMETRY Symmetry
INVARIANTS
  TypeOK
  CompletedPaysOut
  FundsBackTheDeal
  AuditTrailEndsAtStatus
  EveryEventIsGrounded
  RowsMatchAuditTrail
  ReleaseHasCause
  InspectionWindowIsWhole
PROPERTIES
  ImplementsLifecycle
