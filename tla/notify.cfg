SPECIFICATION FairSpec
CONSTANTS
  Instances = {i1, i2}
  Parties = {party}
  Events = {1, 2, 3}
  Texted = {1, 3}
  Take = 2
  MaxFaults = 2
CHECK_DEADLOCK FALSE
INVARIANTS
  BehindTheCursorIsTold
PROPERTIES
  EveryPartyIsTold
