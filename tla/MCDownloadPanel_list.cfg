CONSTANTS
  MaxDownloads = 3
  Paths = {1, 2, 3}
  Limits = {1, 2}
  LateProbes = 0
  RemoveUnserved = FALSE
SPECIFICATION ListFairSpec
INVARIANTS
  TypeOK
  ListExact
  OneWriterPerPath
PROPERTIES
  LimitHonoured
  WorkConserving
  LivesAsPromised
  Served
