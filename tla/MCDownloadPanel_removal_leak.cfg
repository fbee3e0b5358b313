CONSTANTS
  MaxDownloads = 3
  Paths = {a, b}
  Limits = {1, 2}
  LateProbes = 0
  RemoveUnserved = TRUE
SPECIFICATION Spec
INVARIANTS
  SlotsOwned
