\* Two attempts, beside one execution started by hand.
SPECIFICATION FairSpec
CONSTANTS
  MaxExecutions = 3
  Retries = 1
  Deadline = 2
  SlowPoll = 2
INVARIANTS
  GreenMeansOwnSuccess
PROPERTY
  TaskEnds
