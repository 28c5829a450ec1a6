SPECIFICATION MCSpec
CONSTANTS
  Users = {creator, u1, u2}
  Creator = creator
  NoUser = NoUser
  Callers = {c1, c2}
  MaxInvitations = 3
  MaxRevocations = 2
CHECK_DEADLOCK FALSE
SYMMETRY Symmetry
INVARIANTS
  JoinedAltogether
  CounterpartyWasInvited
  SerialLinks
PROPERTIES
  RevokedIsNeverClaimed
