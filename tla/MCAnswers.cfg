SPECIFICATION AnswersFairSpec
CONSTANTS
  Subjects = {"access", "server", "search", "menu", "rows"}
  MaxAttempts = 3
  Keys = {k1, k2, k3}
  None = None
  Slow = TRUE
  Overlap = FALSE
  MaxRuns = 2
  Requests = {1, 2}
  Path = p1
  NoPath = NoPath
  TheTorrent = t1
  Providers = {TorrentsCsv, Jackett}
  Pool = 2
  NoHash = NoHash
  Hashes = {h1, h2}
  Titles = {1}
  Seeders = {0, 2}
  Log <- LogOfSeeders
  MaxRows = 2
  Limit = 2
  Malformed = TRUE
  BadSettings = TRUE
  Searches = {1, 2}
  Results = {x1, x2}
  MaxResults = 2
INVARIANTS
  
  
  RowsRight
PROPERTIES
  EveryRequestEnds
  AskedEnds
CHECK_DEADLOCK FALSE
