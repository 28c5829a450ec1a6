SPECIFICATION SystemSpec
CONSTANTS
  Workers = {w1}
  Plans = {"EXTENDED"}
  Categories = {"OTHER"}
  Creators = {"SELLER"}
  Origins = {"unaccepted"}
  MockEscrowEnabled = TRUE
  InspectionHours = 1
  MaxEvents = 11
  MaxTime = 0
  NoTime = NoTime
  NoRole = NoRole
  Users = {creator, u1, u2}
  Creator = creator
  NoUser = NoUser
  Callers = {c1, c2}
  MaxInvitations = 2
  MaxRevocations = 0
CHECK_DEADLOCK FALSE
SYMMETRY Symmetry
INVARIANTS
  MoneyHasBothParties
  PaidTwiceIsReleasedTwice
PROPERTIES
  ImplementsInvitations
