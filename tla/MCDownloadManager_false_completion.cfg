CONSTANTS
  TotalSize = 2
  NumThreads = 2
  HasChecksum = FALSE
  Replies = {"ranges"}
  ShortReads = FALSE
  EarlyRetry = FALSE
  External = FALSE
  MaxStarts = 2
  MaxEpoch = 1
SPECIFICATION Spec
INVARIANTS
  NoFalseCompletion
CHECK_DEADLOCK FALSE
