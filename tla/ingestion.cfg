\* Two executions of one day overlap, with midnight in between.
SPECIFICATION FairSpec
CONSTANTS
  Executions = {e1, e2}
  MaxPages = 3
  Roles = 2
  MaxRetries = 3
  MaxDay = 2
  NoFile = NoFile
INVARIANTS
  SourcesIsolated
  FilesAreGood
  NoPageSkipped
PROPERTIES
  OnlyItsOwnDay
  ExecutionEnds
