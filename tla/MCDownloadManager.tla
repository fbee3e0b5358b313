------------------------- MODULE MCDownloadManager -------------------------
(* Small instances of DownloadManager for TLC; the values are in the cfgs.  *)
EXTENDS DownloadManager
=============================================================================
