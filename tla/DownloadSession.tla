-------------------------- MODULE DownloadSession --------------------------
(***************************************************************************)
(* The download list across restarts: the session file, which every        *)
(* command and every end of a download rewrites atomically, and            *)
(* load_downloads, which builds the list again one record at a time by     *)
(* way of add_download, which saves too.                                   *)
(*                                                                         *)
(* Queue and slots are the subject of module DownloadPanel; here a queued  *)
(* download may start at any time, which the file does not show.           *)
(***************************************************************************)
EXTENDS Integers, Sequences, FiniteSets, SequencesExt

CONSTANTS
  Ids,                (* download ids                                       *)
  Paths,              (* destinations                                       *)
  SharedPaths,        (* whether several downloads may have one destination *)
  CrashWhileLoading   (* whether the process may be killed during a start   *)

Terminal == { "COMPLETED", "ERROR", "STOPPED" }
Active   == { "STARTING", "DOWNLOADING", "VERIFYING" }
Status   == { "PENDING", "PAUSED" } \cup Active \cup Terminal

Record == [ id : Ids, status : Status, scheduled : BOOLEAN, restart_required : BOOLEAN ]

VARIABLES
  phase,             (* the process                                         *)
  list,              (* self.downloads, in its order                        *)
  status,            (* of each manager                                     *)
  save_path,         (* of each download, once and for all                  *)
  scheduled,         (* keys of the scheduler                               *)
  restart_required,  (* those with the flag                                 *)
  disk,              (* the session file                                    *)
  unread,            (* the records load_downloads has not come to          *)
  used,              (* history: ids given out                              *)
  want,              (* history: downloads added and not removed            *)
  ended,             (* history: reported as ended and not retried          *)
  settled,           (* history: the file was written since the last start, *)
                     (* and no start was cut short since                    *)
  last               (* history: the records the list amounted to when the  *)
                     (* process went down                                   *)

history == <<used, want, ended, settled, last>>
vars == <<phase, list, status, save_path, scheduled, restart_required, disk, unread, history>>

TypeOK ==
  /\ phase \in { "running", "closing", "down", "loading" }
  /\ list \in Seq(Ids) /\ IsInjective(list)
  /\ status \in [Ids -> Status]
  /\ save_path \in [Ids -> Paths]
  /\ scheduled \in SUBSET Ids /\ restart_required \in SUBSET Ids
  /\ disk \in Seq(Record) /\ unread \in Seq(Record) /\ last \in Seq(Record)
  /\ used \in SUBSET Ids /\ want \in SUBSET Ids /\ ended \in SUBSET Ids
  /\ settled \in BOOLEAN

Init ==
  /\ phase = "running"
  /\ list = <<>> /\ disk = <<>> /\ unread = <<>> /\ last = <<>>
  /\ status = [d \in Ids |-> "PENDING"]
  /\ save_path \in [Ids -> Paths]
  /\ SharedPaths \/ \A d, e \in Ids : save_path[d] = save_path[e] => d = e
  /\ scheduled = {} /\ restart_required = {}
  /\ used = {} /\ want = {} /\ ended = {} /\ settled = TRUE

Listed(d) == d \in ToSet(list)

(* The GUI thread still handles events while the rest of the window closes. *)
Responsive == phase \in { "running", "closing" }

-----------------------------------------------------------------------------
(* Saving.                                                                  *)

(* _RESTORE_STATUS_MAP *)
Stored(s) == IF s \in { "STARTING", "DOWNLOADING" } THEN "PENDING" ELSE s

(* save_downloads: the records of the list l *)
Records(l, st, sch, req) ==
  [i \in DOMAIN l |-> [ id |-> l[i], status |-> Stored(st[l[i]]),
                        scheduled |-> l[i] \in sch, restart_required |-> l[i] \in req ]]

(* SessionStore.save, at the end of a handler *)
Save == /\ disk' = Records(list', status', scheduled', restart_required')
        /\ settled' = TRUE

-----------------------------------------------------------------------------
(* Commands.                                                                *)

(* _find_path_conflict *)
PathConflict(d) ==
  \E m \in ToSet(list) \ {d} : status[m] \notin Terminal /\ save_path[m] = save_path[d]

(* add_download, at once or for later *)
AddDownload(d) ==
  /\ Responsive /\ d \notin used /\ ~PathConflict(d)
  /\ list' = Append(list, d)
  /\ status' = [status EXCEPT ![d] = "PENDING"]
  /\ scheduled' \in { scheduled, scheduled \cup {d} }
  /\ used' = used \cup {d} /\ want' = want \cup {d}
  /\ UNCHANGED <<phase, save_path, restart_required, unread, ended, last>>
  /\ Save

(* _on_schedule_due *)
OnScheduleDue(d) ==
  /\ Responsive /\ d \in scheduled
  /\ scheduled' = scheduled \ {d}
  /\ UNCHANGED <<phase, list, status, save_path, restart_required, unread, used, want, ended, last>>
  /\ IF Listed(d) THEN Save ELSE UNCHANGED <<disk, settled>>

Becomes(d, s) == status' = [status EXCEPT ![d] = s]

(* Mutant: only the next save shows the pause. *)
PauseNotSaved(d) ==
  /\ Responsive /\ Listed(d) /\ status[d] \in { "DOWNLOADING", "STARTING" }
  /\ Becomes(d, IF status[d] = "DOWNLOADING" THEN "PAUSED" ELSE status[d])
  /\ UNCHANGED <<phase, list, save_path, scheduled, restart_required, disk, unread, history>>

(* pause_download, without effect on one that is STARTING *)
PauseDownload(d) ==
  /\ Responsive /\ Listed(d) /\ status[d] \in { "DOWNLOADING", "STARTING" }
  /\ Becomes(d, IF status[d] = "DOWNLOADING" THEN "PAUSED" ELSE status[d])
  /\ UNCHANGED <<phase, list, save_path, scheduled, restart_required, unread, used, want, ended, last>>
  /\ Save

(* resume_download: in place, or through the queue if restored as paused *)
ResumeDownload(d) ==
  /\ Responsive /\ Listed(d) /\ status[d] = "PAUSED"
  /\ \E s \in { "PENDING", "DOWNLOADING" } : Becomes(d, s)
  /\ UNCHANGED <<phase, list, save_path, scheduled, restart_required, unread, used, want, ended, last>>
  /\ Save

Stoppable == { "DOWNLOADING", "PAUSED", "STARTING", "VERIFYING" }

StopDownload(d) ==
  /\ Responsive /\ Listed(d) /\ status[d] \in Stoppable
  /\ Becomes(d, "STOPPED")
  /\ ended' = ended \cup {d}
  /\ UNCHANGED <<phase, list, save_path, scheduled, restart_required, unread, used, want, last>>
  /\ Save

RetryDownload(d) ==
  /\ Responsive /\ Listed(d) /\ status[d] \in Terminal /\ ~PathConflict(d)
  /\ Becomes(d, "PENDING")
  /\ restart_required' = restart_required \ {d}
  /\ ended' = ended \ {d}
  /\ UNCHANGED <<phase, list, save_path, scheduled, unread, used, want, last>>
  /\ Save

(* Mutant: only the next save drops the record. *)
RemoveNotSaved(d) ==
  /\ Responsive /\ Listed(d)
  /\ list' = RemoveFirst(list, d)
  /\ scheduled' = scheduled \ {d}
  /\ want' = want \ {d} /\ ended' = ended \ {d}
  /\ UNCHANGED <<phase, status, save_path, restart_required, disk, unread, used, settled, last>>

(* remove_selected_download *)
RemoveDownload(d) ==
  /\ Responsive /\ Listed(d)
  /\ list' = RemoveFirst(list, d)
  /\ scheduled' = scheduled \ {d}
  /\ want' = want \ {d} /\ ended' = ended \ {d}
  /\ UNCHANGED <<phase, status, save_path, restart_required, unread, used, last>>
  /\ Save

-----------------------------------------------------------------------------
(* The engines.                                                             *)

(* process_queue starts it, its metadata is in, all of it is there. *)
Proceeds(d) ==
  /\ Responsive /\ Listed(d) /\ d \notin scheduled
  /\ \/ status[d] = "PENDING" /\ Becomes(d, "STARTING")
     \/ status[d] = "STARTING" /\ Becomes(d, "DOWNLOADING")
     \/ status[d] = "DOWNLOADING" /\ Becomes(d, "VERIFYING")
  /\ UNCHANGED <<phase, list, save_path, scheduled, restart_required, disk, unread, history>>

(* on_download_finished *)
OnDownloadFinished(d) ==
  /\ Responsive /\ Listed(d) /\ status[d] \in { "DOWNLOADING", "VERIFYING" }
  /\ Becomes(d, "COMPLETED")
  /\ ended' = ended \cup {d}
  /\ UNCHANGED <<phase, list, save_path, scheduled, restart_required, unread, used, want, last>>
  /\ Save

(* on_download_error, the flag set where the bytes on disk are wrong *)
OnDownloadError(d) ==
  /\ Responsive /\ Listed(d) /\ status[d] \in Active
  /\ Becomes(d, "ERROR")
  /\ restart_required' \in { restart_required, restart_required \cup {d} }
  /\ ended' = ended \cup {d}
  /\ UNCHANGED <<phase, list, save_path, scheduled, unread, used, want, last>>
  /\ Save

-----------------------------------------------------------------------------
(* Ends and starts of the process.                                          *)

CloseEvent ==
  /\ phase = "running"
  /\ phase' = "closing"
  /\ UNCHANGED <<list, status, save_path, scheduled, restart_required, unread, used, want, ended, last>>
  /\ Save

(* The window is gone, or the process was killed. *)
Down ==
  /\ Responsive
  /\ phase' = "down"
  /\ last' = Records(list, status, scheduled, restart_required)
  /\ list' = <<>> /\ scheduled' = {}
  /\ UNCHANGED <<status, save_path, restart_required, disk, unread, used, want, ended, settled>>

StartUp ==
  /\ phase = "down"
  /\ phase' = "loading"
  /\ unread' = disk
  /\ restart_required' = {}
  /\ UNCHANGED <<list, status, save_path, scheduled, disk, history>>

(* add_download in load_downloads, which saves the record as a new one, ... *)
Restored(r) ==
  /\ list' = Append(list, r.id)
  /\ scheduled' = IF r.scheduled THEN scheduled \cup {r.id} ELSE scheduled
  /\ disk' = Records(list', [status EXCEPT ![r.id] = "PENDING"], scheduled', restart_required)

(* _RESTORE_AS_IS *)
RestoredAsIs == Terminal \cup { "PAUSED" }

(* ... before its recovery fields and its status are put back.  A record    *)
(* whose destination is taken is passed over.                               *)
LoadRecord ==
  /\ phase = "loading" /\ unread # <<>>
  /\ unread' = Tail(unread)
  /\ LET r == Head(unread)
     IN  IF PathConflict(r.id)
         THEN UNCHANGED <<list, status, scheduled, restart_required, disk>>
         ELSE /\ Restored(r)
              /\ Becomes(r.id, IF r.status \in RestoredAsIs THEN r.status ELSE "PENDING")
              /\ restart_required' = IF r.restart_required THEN restart_required \cup {r.id}
                                                           ELSE restart_required
  /\ UNCHANGED <<phase, save_path, history>>

(* load_downloads ends without a save. *)
LoadDone ==
  /\ phase = "loading" /\ unread = <<>>
  /\ phase' = "running"
  /\ settled' = FALSE
  /\ UNCHANGED <<list, status, save_path, scheduled, restart_required, disk, unread,
                 used, want, ended, last>>

KilledLoading ==
  /\ CrashWhileLoading /\ phase = "loading"
  /\ phase' = "down"
  /\ list' = <<>> /\ scheduled' = {} /\ unread' = <<>> /\ settled' = FALSE
  /\ UNCHANGED <<status, save_path, restart_required, disk, used, want, ended, last>>

-----------------------------------------------------------------------------
Command(d) ==
  \/ AddDownload(d) \/ OnScheduleDue(d) \/ PauseDownload(d) \/ ResumeDownload(d)
  \/ StopDownload(d) \/ RetryDownload(d) \/ RemoveDownload(d)

Engine(d) == Proceeds(d) \/ OnDownloadFinished(d) \/ OnDownloadError(d)

Next ==
  \/ \E d \in Ids : Command(d) \/ Engine(d)
  \/ CloseEvent \/ Down \/ StartUp \/ LoadRecord \/ LoadDone \/ KilledLoading

Spec == Init /\ [][Next]_vars

-----------------------------------------------------------------------------
(* Properties.                                                              *)

(* A kill at any moment takes back no accepted command and no reported end: *)
(* the next start brings back the downloads the last one had, paused ones   *)
(* paused, ended ones ended, with their integrity verdict, everything else  *)
(* to be downloaded - provided that the file was written since the start.   *)
RestartKeepsList ==
  [][phase = "loading" /\ phase' = "running" /\ settled
       => Records(list, status, scheduled, restart_required)
            = [i \in DOMAIN last |->
                 [last[i] EXCEPT !.status = IF @ = "VERIFYING" THEN "PENDING" ELSE @]]]_vars

(* A removed download does not come back, whenever the process is killed    *)
(* ("the classic 'I swear I deleted that' bug").                            *)
RemovedStaysRemoved == ToSet(list) \subseteq want

(* Everything that was added and not removed is listed after a restart      *)
(* ("Persist everything except downloads the user has removed").            *)
AllListed == phase = "running" => want \subseteq ToSet(list)

(* What has ended is not started again by a restart ("A COMPLETED download  *)
(* must not re-download; a STOPPED one must stay stopped").                 *)
EndedStaysEnded ==
  phase = "running" => \A d \in ended \cap ToSet(list) : status[d] \in Terminal
=============================================================================
