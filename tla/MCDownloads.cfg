CONSTANTS
  TotalSize = 2
  NumThreads = 2
  HasChecksum = TRUE
  Replies = {"ranges"}
  ShortReads = TRUE
  EarlyRetry = FALSE
  External = FALSE
  MaxStarts = 2
  MaxEpoch = 1
SPECIFICATION JobSpec
INVARIANTS
  WorkersApart
  NeverStranded
  RightlyComplete
  NotReverified
PROPERTIES
  LivesAsPromised
  
CHECK_DEADLOCK FALSE
