SPECIFICATION FairSpec
CONSTANTS
  d1 = d1
  d2 = d2
  d3 = d3
  Deals = {d1, d2, d3}
  Broken = {d1}
  cron = cron
  user = user
  Sweeps = {cron, user}
  Scope <- MCScope
  Limit = 2
  InspectionHours = 1
  Mortal = {user}
  MaxTime = 1
INVARIANTS
  NoMoreMeansDone
PROPERTIES
  ExpiresOnceAndNotEarly
  DueDealsComplete
