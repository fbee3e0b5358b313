SPECIFICATION TorrentsSpec
CONSTANTS
  Subjects = {"panel", "clean", "failing"}
  CleanTorrents = {t1, t2}
  CleanFolders = {d1}
  Magnets = {t2}
  FailingTorrents = {t1}
  FailingFolders = {d1, d2}
  MaxRequests = 1
  Torrents = {t1}
  Folders = {d1, d2}
  Nowhere = Nowhere
  NoId = NoId
  MaxAlerts = 2
  SelectQueued = TRUE
INVARIANTS
  PauseExact
  MovesExact
  SeenBeforeFinished
  ListAsLeft
PROPERTIES
  AskedToSeedSeeds
  PauseSurvivesRestart
CHECK_DEADLOCK FALSE
