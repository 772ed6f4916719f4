\* The DAG's task, a manual publish and a reader of the backend.
SPECIFICATION FairSpec
CONSTANTS
  dag = dag
  manual = manual
  postings = postings
  skills = skills
  NoTable = NoTable
  r1 = r1
  Tables = {postings, skills}
  Publishers = {dag, manual}
  Scheduled = {dag}
  Readers = {r1}
  MartsOf <- BothMarts
  Retries <- OneRetry
  ConnectAttempts = 2
  MaxRows = 1
  MaxBuilds = 2
INVARIANTS
  TypeOK
  ReadersSeeWholeTable
  NoStagingLeftBehind
PROPERTIES
  NeverMissing
  SuccessMeansAllMarts
  DagPublishesItsBuild
  ImplementsAtomicMarts
  TaskEnds
