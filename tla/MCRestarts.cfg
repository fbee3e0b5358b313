SPECIFICATION RestartsSpec
CONSTANTS
  Subjects = {"checksum", "killed", "quiet", "list", "torrents", "closed torrents", "one run"}
  Torrents = {t1}
  ClosedTorrents = {t1, t2}
  Downloads = {d}
  Size = 2
  SaveEvery = 2
  MaxReceived = 4
  NumChunks = 2
  ChunkSize = 2
  KilledChunks = 1
  Versions = 2
  Ids = {d1, d2}
  Paths = {p1, p2}
INVARIANTS
  
  ListRight
  
PROPERTIES
  
  RestartKeepsList
