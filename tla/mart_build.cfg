\* Two postings in batches of one.
SPECIFICATION MCSpec
CONSTANTS
  j1 = j1
  j2 = j2
  Null = Null
  Tags = {}
  Generic = {}
  Roles = {}
  Jobs = {j1, j2}
  Blank = {}
  Postings <- MCPostings
  Default = Default
  NoRow = NoRow
  BatchSize = 1
  MaxRemoved = 1
  MaxErrors = 1
  MaxRefreshes = 1
INVARIANTS
  AttributesAreOwn
  MartsAgree
PROPERTIES
  AnswersAreKept
  PostingsReachTheMart
