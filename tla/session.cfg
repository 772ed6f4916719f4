SPECIFICATION FairSpec
CONSTANTS
  Browsers = {b1, b2}
  Users = {u1, u2}
  Addresses = {ada}
  NoAccount = NoAccount
  NoPassword = NoPassword
  Nobody = Nobody
  Gone = Gone
INVARIANTS
  OneAccountPerAddress
  SessionsAreOwn
  ShownIsSession
PROPERTIES
  FormsSettle
CHECK_DEADLOCK TRUE
