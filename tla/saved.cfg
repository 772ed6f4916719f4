\* One site in two surroundings; two clicks, a login, a logout and a new page.
SPECIFICATION MCSpec
CONSTANTS
  u1 = u1
  u2 = u2
  j1 = j1
  j2 = j2
  None = None
  Users = {u1, u2}
  Jobs = {j1, j2}
  MaxClicks = 2
  MaxMoves = 1
  MaxSessions = 2
CHECK_DEADLOCK FALSE
INVARIANT
  CalmHeartsTellTheTruth
PROPERTIES
  WritesWithinItsSession
  ClicksSettle
