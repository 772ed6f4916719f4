\* The tests of the skills mart are attached to no model.
SPECIFICATION Spec
CONSTANTS
  prod = prod
  dev = dev
  postings = postings
  skills = skills
  Dags = {prod}
  Marts = {postings, skills}
  TestedMarts = {postings}
  Selections <- WholeOnly
  Retries <- NoRetries
  LockWait = 1
  BuildTimeout = 1
  Slack = 0
  Deaths = {}
  MaxRuns <- TwoRuns
  MaxLandings = 0
CHECK_DEADLOCK FALSE
INVARIANT
  OnlyTestedIsPublished
