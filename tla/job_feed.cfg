SPECIFICATION FairSpec
CONSTANTS
  Jobs = {1, 2, 3, 4, 5}
  Times <- MCTimes
  Marts <- MCMarts
  PageSize = 2
  Requests = {r1, r2}
  MaxSwaps = 1
  MaxVisits = 2
  MaxFailures = 1
INVARIANTS
  NoJobTwice
  NewestFirst
PROPERTIES
  FeedEnds
CHECK_DEADLOCK FALSE
