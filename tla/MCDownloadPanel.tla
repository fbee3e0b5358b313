-------------------------- MODULE MCDownloadPanel --------------------------
(* The download list, model-checked on a few downloads and destinations.    *)
EXTENDS DownloadPanel

(* Destinations are interchangeable: they are numbered in the order in      *)
(* which the downloads name them, so that of the assignments that differ by *)
(* a renaming only one is checked.                                          *)
Numbered(p) == \A d \in Ids : \A n \in 1 .. p[d] - 1 : \E e \in 1 .. d - 1 : p[e] = n

ListInit == Init /\ Numbered(path)

ListSpec == ListInit /\ [][Next]_vars

ListFairSpec == ListSpec /\ Fairness
=============================================================================
