CONSTANTS
  Ids = {d1, d2}
  Paths = {p1, p2}
  SharedPaths = FALSE
  CrashWhileLoading = TRUE
SPECIFICATION Spec
SYMMETRY Symmetry
INVARIANTS
  AllListed
