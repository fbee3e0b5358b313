------------------------------- MODULE MCApi -------------------------------
(* ApiServer on a small instance, under two loads: two requests of any kind *)
(* while the window is closed; and three requests about downloads, with two *)
(* pool threads.                                                            *)
EXTENDS ApiServer, TLC

CONSTANT r3

VARIABLE load

Lists == INSTANCE ApiServer
  WITH Requests <- Requests \cup {r3}, Threads <- 2, Closing <- FALSE,
       Offered <- { "add", "resume", "retry", "stop" }

ApiInit == \/ load = "closing" /\ Init
           \/ load = "lists"   /\ Lists!Init

ApiNext == /\ \/ load = "closing" /\ Next
              \/ load = "lists"   /\ Lists!Next
           /\ UNCHANGED load

ApiSpec == ApiInit /\ [][ApiNext]_<<vars, load>>

(* Requests are interchangeable. *)
Symmetry == Permutations(Requests \cup {r3})
=============================================================================
