------------------------- MODULE DownloadLifecycle -------------------------
(***************************************************************************)
(* What ADP promises about the status of one download, whatever threads,   *)
(* probes, retries and other downloads do: the transitions of the enum     *)
(* Status, and the fact metadata_initialized that decides how a paused     *)
(* download resumes.  DownloadManager implements it for the engine of one  *)
(* download, DownloadPanel for each download of the list.                  *)
(***************************************************************************)
EXTENDS Naturals

VARIABLES status, initialized

vars == <<status, initialized>>

Terminal == { "COMPLETED", "ERROR", "STOPPED" }

(* Statuses a download can have once the panel has created it.             *)
Created == { "PENDING", "PAUSED" } \cup Terminal

Init == status \in { "NEW" } \cup Created /\ initialized = FALSE

(* A download that enters the queue may be started by the same handler.    *)
Enqueued == { "PENDING", "STARTING" }

Create == status = "NEW" /\ status' \in Created \cup Enqueued /\ UNCHANGED initialized

Start == status = "PENDING" /\ status' = "STARTING" /\ UNCHANGED initialized

(* The probe answers: nothing may follow STARTING but what it leads to.    *)
Answer == /\ status = "STARTING"
          /\ \/ /\ status' \in { "DOWNLOADING", "VERIFYING", "COMPLETED", "ERROR" }
                /\ initialized' = TRUE
             \/ status' = "ERROR" /\ UNCHANGED initialized

Finish == /\ status = "DOWNLOADING"
          /\ status' \in { "VERIFYING", "COMPLETED", "ERROR" }
          /\ UNCHANGED initialized

Verdict == /\ status = "VERIFYING"
           /\ status' \in { "COMPLETED", "ERROR" }
           /\ UNCHANGED initialized

Pause == status = "DOWNLOADING" /\ status' = "PAUSED" /\ UNCHANGED initialized

(* A download paused at run time resumes in place; everything may already  *)
(* be there.  One restored as paused has to queue like a new one.          *)
Resume == /\ status = "PAUSED" /\ initialized
          /\ status' \in { "DOWNLOADING", "VERIFYING", "COMPLETED", "ERROR" }
          /\ UNCHANGED initialized

Requeue == status = "PAUSED" /\ ~initialized /\ status' \in Enqueued /\ UNCHANGED initialized

Stop == /\ status \in { "STARTING", "DOWNLOADING", "PAUSED", "VERIFYING" }
        /\ status' = "STOPPED"
        /\ UNCHANGED initialized

Retry == status \in Terminal /\ status' \in Enqueued /\ UNCHANGED initialized

Next == \/ Create \/ Start \/ Answer \/ Finish \/ Verdict \/ Pause \/ Resume
        \/ Requeue \/ Stop \/ Retry

Spec == Init /\ [][Next]_vars
=============================================================================
