CONSTANTS
  TotalSize = 1
  NumThreads = 2
  HasChecksum = TRUE
  Replies = {"ranges", "plain", "error"}
  ShortReads = TRUE
  EarlyRetry = FALSE
  External = TRUE
  MaxStarts = 2
  MaxEpoch = 2
SPECIFICATION FairSpec
INVARIANTS
  TypeOK
PROPERTIES
  Settles
CHECK_DEADLOCK FALSE
