SPECIFICATION FairSpec
CONSTANTS
  Workers = {w1, w2}
  Plans = {"BASIC"}
  Categories = {"OTHER"}
  Creators = {"SELLER"}
  Origins = {"joined"}
  MockEscrowEnabled = TRUE
  InspectionHours = 1
  MaxEvents = 7
  MaxTime = 0
  NoTime = NoTime
  NoRole = NoRole
CHECK_DEADLOCK FALSE
PROPERTIES
  InspectionEnds
