\* Two runs of the production DAG, one of the other, in one dbt project.
SPECIFICATION FairSpec
CONSTANTS
  prod = prod
  dev = dev
  postings = postings
  skills = skills
  Dags = {prod, dev}
  Marts = {postings}
  TestedMarts = {postings}
  Selections <- WholeOnly
  Retries <- OneRetry
  LockWait = 1
  BuildTimeout = 1
  Slack = 0
  Deaths = {"build"}
  MaxRuns <- TwoAndOne
  MaxLandings = 1
CHECK_DEADLOCK FALSE
INVARIANTS
  NoBuildUnderPublish
  OnlyTestedIsPublished
  GreenPublishesItsIngest
  OneBuildInProject
PROPERTIES
  BuildGetsItsTime
  RunEnds
