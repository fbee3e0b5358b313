SPECIFICATION ApiSpec
CONSTANTS
  Requests = {r1, r2}
  r3 = r3
  Threads = 1
  Paths = {p1}
  DefaultPath = p1
  NoPath = NoPath
  Torrents = {t1}
  Offered = {"add", "pause", "remove", "get", "list", "list_torrents", "add_torrent", "pause_torrent", "resume_torrent", "start_now", "remove_torrent", "update_torrent"}
  Clients = {"rest"}
  Closing = TRUE
  Settling = FALSE
  None = None
SYMMETRY Symmetry
INVARIANTS
  OnePathOneJob
  LeftAsSaved
CHECK_DEADLOCK FALSE
