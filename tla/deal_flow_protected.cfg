SPECIFICATION Spec
CONSTANTS
  Workers = {w1}
  Plans = {"BASIC", "EXTENDED"}
  Categories = {"GOODS", "OTHER"}
  Creators = {"SELLER", "BUYER", NoRole}
  Origins = {"joined", "unaccepted"}
  MockEscrowEnabled = TRUE
  InspectionHours = 1
  MaxEvents = 9
  MaxTime = 3
  NoTime = NoTime
  NoRole = NoRole
CHECK_DEADLOCK FALSE
INVARIANTS
  EvidenceGates
  BothAcceptBeforeMoney
  PageAgreesWithServer
