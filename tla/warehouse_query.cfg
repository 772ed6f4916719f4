\* Results of no rows up to four chunks, the last one part full.
SPECIFICATION FairQuerySpec
CONSTANTS
  ChunkRows = 2
  MaxRows = 7
INVARIANTS
  AllRowsOrRaised
PROPERTY
  QueryEnds
