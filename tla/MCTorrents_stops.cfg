SPECIFICATION TorrentsFairSpec
CONSTANTS
  Subjects = {"panel", "failing"}
  CleanTorrents = {t1, t2}
  CleanFolders = {d1}
  Magnets = {t2}
  FailingTorrents = {t1}
  FailingFolders = {d1, d2}
  MaxRequests = 1
  Torrents = {t1}
  Folders = {d1}
  Nowhere = Nowhere
  NoId = NoId
  MaxAlerts = 2
  SelectQueued = FALSE
PROPERTIES
  
  CloseEnds
CHECK_DEADLOCK FALSE
