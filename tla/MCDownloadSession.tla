------------------------- MODULE MCDownloadSession -------------------------
(* The session file on a small instance, with a kill during a start.        *)
EXTENDS DownloadSession, TLC

Symmetry == Permutations(Ids) \cup Permutations(Paths)
=============================================================================
