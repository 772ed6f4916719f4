\* A page that is rate-limited three times.
SPECIFICATION Spec
CONSTANTS
  Executions = {e1}
  MaxPages = 2
  Roles = 1
  MaxRetries = 3
  MaxDay = 1
  NoFile = NoFile
INVARIANT
  NonOkRaises
