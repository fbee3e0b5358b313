--------------------------- MODULE DownloadPanel ---------------------------
(***************************************************************************)
(* The download list of ADP: DownloadPanel with its queue, its concurrency *)
(* slots, its destination reservations and the scheduler.  Every handler   *)
(* runs on the GUI thread, so each is one action; between them the engines *)
(* of the downloads (module DownloadManager) change status.                *)
(*                                                                         *)
(* An engine appears here by its status and its unanswered probes only.    *)
(***************************************************************************)
EXTENDS Integers, Sequences, FiniteSets, SequencesExt

CONSTANTS
  MaxDownloads,   (* bound: downloads ever loaded or added                  *)
  Paths,          (* destination files                                      *)
  Limits,         (* values of the "Concurrent Downloads" spin box          *)
  LateProbes,     (* how many unanswered probes of earlier runs a download  *)
                  (* may have when it is retried                            *)
  RemoveUnserved  (* whether a download may be removed while the queue      *)
                  (* waits although the limit was raised                    *)

ASSUME MaxAssumption   == MaxDownloads \in Nat \ {0}
ASSUME LimitAssumption == Limits \subseteq (Nat \ {0}) /\ Limits # {}
ASSUME ProbeAssumption == LateProbes \in Nat
ASSUME FlagAssumption  == RemoveUnserved \in BOOLEAN

(* download_id: new ones are fresh, restored ones keep theirs. *)
Ids == 1 .. MaxDownloads

Terminal == { "COMPLETED", "ERROR", "STOPPED" }
Active   == { "STARTING", "DOWNLOADING", "VERIFYING" }
Status   == { "NEW", "PENDING", "PAUSED" } \cup Active \cup Terminal

(* What a saved record becomes: _RESTORE_STATUS_MAP on the way out, then    *)
(* _RESTORE_AS_IS on the way in; everything else comes back PENDING.        *)
RestoredAsIs == { "PAUSED" } \cup Terminal

VARIABLES
  loading,      (* load_downloads is still going through the session        *)
  nextId,       (* the next download to be loaded or added                  *)
  managers,     (* keys of self.downloads                                   *)
  status,       (* of each DownloadManager; "NEW" before it exists          *)
  path,         (* save_path of each, fixed when it is created              *)
  initialized,  (* those with metadata_initialized                          *)
  probes,       (* unanswered metadata probes of each                       *)
  queue,        (* self.download_queue                                      *)
  slots,        (* self._slot_holders                                       *)
  scheduled,    (* keys of the scheduler                                    *)
  limit,        (* concurrency_spinbox.value()                              *)
  pauseTaken    (* history: downloads whose last accepted command is pause  *)

engines == <<status, initialized, probes>>
vars == <<loading, nextId, managers, status, path, initialized, probes, queue, slots,
          scheduled, limit, pauseTaken>>

TypeOK ==
  /\ loading \in BOOLEAN
  /\ nextId \in 1 .. MaxDownloads + 1
  /\ managers \in SUBSET Ids
  /\ status \in [Ids -> Status]
  /\ path \in [Ids -> Paths]
  /\ initialized \in SUBSET Ids
  /\ probes \in [Ids -> Nat]
  /\ queue \in Seq(Ids)
  /\ slots \in SUBSET Ids
  /\ scheduled \in SUBSET Ids
  /\ limit \in Limits
  /\ pauseTaken \in SUBSET Ids

(* __init__, up to load_downloads *)
Init ==
  /\ loading = TRUE
  /\ nextId = 1
  /\ managers = {}
  /\ status = [d \in Ids |-> "NEW"]
  /\ path \in [Ids -> Paths]
  /\ initialized = {}
  /\ probes = [d \in Ids |-> 0]
  /\ queue = <<>>
  /\ slots = {}
  /\ scheduled = {}
  /\ limit \in Limits
  /\ pauseTaken = {}

-----------------------------------------------------------------------------
(* Queue and slots.                                                         *)

Queued(d) == \E i \in DOMAIN queue : queue[i] = d

(* The PENDING ones among the first k of q. *)
Startable(q, k, st) == { d \in Ids : st[d] = "PENDING" /\ \E i \in 1 .. k : q[i] = d }

(* Mutant: the limit is compared one too late. *)
SlotAlmostFree(held) == Cardinality(held) <= limit

SlotFree(held) == Cardinality(held) < limit

(* process_queue, entered with queue q, slots s and statuses st: it pops k  *)
(* entries, one while a slot is free, ...                                   *)
Pops(k, q, s, st) ==
  /\ k \in 0 .. Len(q)
  /\ \A j \in 0 .. k - 1 : SlotFree(s \cup Startable(q, j, st))
  /\ k = Len(q) \/ ~SlotFree(s \cup Startable(q, k, st))

(* ... and starts those that are still PENDING; pr are the probes before.   *)
Launch(started, s, st, pr) ==
  /\ slots' = s \cup started
  /\ status' = [d \in Ids |-> IF d \in started THEN "STARTING" ELSE st[d]]
  /\ probes' = [d \in Ids |-> IF d \in started THEN pr[d] + 1 ELSE pr[d]]

Rest(q, k) == SubSeq(q, k + 1, Len(q))

ProcessQueue(q, s, st, pr) ==
  \E k \in 0 .. Len(q) : /\ Pops(k, q, s, st)
                         /\ Launch(Startable(q, k, st), s, st, pr)
                         /\ queue' = Rest(q, k)

(* Mutant: the slot stays with the download that ended. *)
SlotKept(d) == slots

SlotsWithout(d) == slots \ {d}

(* Mutant: the slot is released but the queue is not pulled. *)
ReleaseOnly(d, st, pr) ==
  status' = st /\ probes' = pr /\ slots' = slots \ {d} /\ UNCHANGED queue

(* on_download_finished, on_download_error and finish_download_slot: the    *)
(* panel reacts only for a download it still lists.                         *)
FinishSlot(d, st, pr) ==
  IF d \in managers
  THEN ProcessQueue(queue, SlotsWithout(d), st, pr)
  ELSE status' = st /\ probes' = pr /\ UNCHANGED <<queue, slots>>

(* The engine of d comes to status s, by itself.                            *)
Becomes(d, s, pr) ==
  LET st == [status EXCEPT ![d] = s]
  IN  IF s \in Terminal THEN FinishSlot(d, st, pr)
      ELSE status' = st /\ probes' = pr /\ UNCHANGED <<queue, slots>>

(* _find_path_conflict *)
PathConflict(d) ==
  \E m \in managers \ {d} : status[m] \notin Terminal /\ path[m] = path[d]

-----------------------------------------------------------------------------
(* Loading the session, adding, scheduling.                                 *)

(* One record: add_download(start_immediately=False), then its saved status *)
(* is put back.  A record whose destination is taken by then is dropped.    *)
LoadRecord ==
  LET d == nextId
  IN  /\ loading /\ d \in Ids
      /\ nextId' = d + 1
      /\ \/ PathConflict(d) /\ UNCHANGED <<managers, status, queue, scheduled>>
         \/ /\ ~PathConflict(d)
            /\ managers' = managers \cup {d}
            /\ \/ /\ \E s \in RestoredAsIs : status' = [status EXCEPT ![d] = s]
                  /\ UNCHANGED <<queue, scheduled>>
               \/ /\ status' = [status EXCEPT ![d] = "PENDING"]
                  /\ \/ queue' = Append(queue, d) /\ UNCHANGED scheduled
                     \/ scheduled' = scheduled \cup {d} /\ UNCHANGED queue
      /\ UNCHANGED <<loading, path, initialized, probes, slots, limit, pauseTaken>>

LoadDone ==
  /\ loading
  /\ loading' = FALSE
  /\ ProcessQueue(queue, slots, status, probes)
  /\ UNCHANGED <<nextId, managers, path, initialized, scheduled, limit, pauseTaken>>

(* add_download; a refused one leaves no trace. *)
Add ==
  LET d == nextId
      st == [status EXCEPT ![d] = "PENDING"]
  IN  /\ ~loading /\ d \in Ids
      /\ ~PathConflict(d)
      /\ nextId' = d + 1
      /\ managers' = managers \cup {d}
      /\ \/ /\ ProcessQueue(Append(queue, d), slots, st, probes)
            /\ UNCHANGED scheduled
         \/ /\ scheduled' = scheduled \cup {d}
            /\ status' = st
            /\ UNCHANGED <<probes, queue, slots>>
      /\ UNCHANGED <<loading, path, initialized, limit, pauseTaken>>

(* check_due and start_scheduled_now, both through _on_schedule_due. *)
OnScheduleDue(d) ==
  /\ ~loading /\ d \in scheduled
  /\ scheduled' = scheduled \ {d}
  /\ IF d \in managers THEN ProcessQueue(Append(queue, d), slots, status, probes)
                       ELSE UNCHANGED <<queue, slots, status, probes>>
  /\ UNCHANGED <<loading, nextId, managers, path, initialized, limit, pauseTaken>>

-----------------------------------------------------------------------------
(* The engines.                                                             *)

Frame == UNCHANGED <<loading, nextId, managers, path, scheduled, limit>>

(* Mutant: one probe reports both outcomes. *)
AnsweredTwice(d) == [probes EXCEPT ![d] = @ - 2]

Answered(d) == [probes EXCEPT ![d] = @ - 1]

(* handle_metadata_fetched: the download proceeds, maybe to its end. *)
MetadataFetched(d) ==
  /\ ~loading /\ probes[d] > 0
  /\ status[d] \notin { "STOPPED", "ERROR" }
  /\ initialized' = initialized \cup {d}
  /\ \E s \in { "DOWNLOADING", "VERIFYING", "COMPLETED", "ERROR" } : Becomes(d, s, Answered(d))
  /\ UNCHANGED pauseTaken /\ Frame

(* handle_metadata_error *)
MetadataFailed(d) ==
  /\ ~loading /\ probes[d] > 0
  /\ status[d] # "STOPPED"
  /\ Becomes(d, "ERROR", Answered(d))
  /\ UNCHANGED <<initialized, pauseTaken>> /\ Frame

(* Either, for a download that was stopped or has failed. *)
MetadataDropped(d) ==
  /\ ~loading /\ probes[d] > 0
  /\ status[d] \in { "STOPPED", "ERROR" }
  /\ probes' = Answered(d)
  /\ UNCHANGED <<status, initialized, queue, slots, pauseTaken>> /\ Frame

(* finish_download, on_worker_error and the checksum verdict. *)
EngineEnds(d) ==
  /\ ~loading
  /\ \/ status[d] = "DOWNLOADING" /\ Becomes(d, "VERIFYING", probes)
     \/ /\ status[d] \in { "DOWNLOADING", "VERIFYING" }
        /\ \E s \in { "COMPLETED", "ERROR" } : Becomes(d, s, probes)
  /\ UNCHANGED <<initialized, pauseTaken>> /\ Frame

-----------------------------------------------------------------------------
(* Commands of the user and of the REST/MCP controller.                     *)

(* pause_download: also accepted, without effect, while STARTING. *)
Pause(d) ==
  /\ ~loading /\ d \in managers
  /\ status[d] \in { "DOWNLOADING", "STARTING" }
  /\ status' = IF status[d] = "DOWNLOADING" THEN [status EXCEPT ![d] = "PAUSED"] ELSE status
  /\ pauseTaken' = pauseTaken \cup {d}
  /\ UNCHANGED <<initialized, probes, queue, slots>> /\ Frame

(* resume_download of a download paused at run time: it still has its slot. *)
Resume(d) ==
  /\ ~loading /\ d \in managers
  /\ status[d] = "PAUSED" /\ d \in initialized
  /\ \E s \in { "DOWNLOADING", "VERIFYING", "COMPLETED", "ERROR" } : Becomes(d, s, probes)
  /\ pauseTaken' = pauseTaken \ {d}
  /\ UNCHANGED initialized /\ Frame

(* Mutant: what is resumed or retried goes first. *)
EnqueuedFirst(d) == IF Queued(d) THEN queue ELSE <<d>> \o queue

(* self.download_queue with d at its end, unless it is there already. *)
Enqueued(d) == IF Queued(d) THEN queue ELSE Append(queue, d)

(* resume_download of one restored as paused. *)
ResumeRestored(d) ==
  /\ ~loading /\ d \in managers
  /\ status[d] = "PAUSED" /\ d \notin initialized
  /\ ProcessQueue(Enqueued(d), slots, [status EXCEPT ![d] = "PENDING"], probes)
  /\ pauseTaken' = pauseTaken \ {d}
  /\ UNCHANGED initialized /\ Frame

(* Mutant: a completed download can be stopped. *)
StoppableOrDone == { "DOWNLOADING", "PAUSED", "STARTING", "VERIFYING", "COMPLETED" }

Stoppable == { "DOWNLOADING", "PAUSED", "STARTING", "VERIFYING" }

(* stop_download *)
Stop(d) ==
  /\ ~loading /\ d \in managers
  /\ status[d] \in Stoppable
  /\ FinishSlot(d, [status EXCEPT ![d] = "STOPPED"], probes)
  /\ pauseTaken' = pauseTaken \ {d}
  /\ UNCHANGED initialized /\ Frame

(* Mutant: the destination is not checked again. *)
RetryUnchecked(d) == TRUE

RetryAllowed(d) == ~PathConflict(d)

(* retry_download *)
Retry(d) ==
  /\ ~loading /\ d \in managers
  /\ status[d] \in Terminal
  /\ RetryAllowed(d)
  /\ probes[d] <= LateProbes
  /\ ProcessQueue(Enqueued(d), slots, [status EXCEPT ![d] = "PENDING"], probes)
  /\ pauseTaken' = pauseTaken \ {d}
  /\ UNCHANGED initialized /\ Frame

(* A slot is free and nobody has pulled the queue: the limit was raised. *)
Unserved == queue # <<>> /\ SlotFree(slots)

(* deque.remove, if d is queued *)
Purged(q, d) == RemoveFirst(q, d)

(* remove_selected_download: the slot goes, and the queue is pulled, before *)
(* the download itself leaves the queue.                                    *)
RemoveDownload(d) ==
  LET st == IF status[d] \in Stoppable THEN [status EXCEPT ![d] = "STOPPED"] ELSE status
  IN  /\ ~loading /\ d \in managers
      /\ Unserved => RemoveUnserved
      /\ scheduled' = scheduled \ {d}
      /\ managers' = managers \ {d}
      /\ \E k \in 0 .. Len(queue) :
           /\ Pops(k, queue, SlotsWithout(d), st)
           /\ Launch(Startable(queue, k, st), SlotsWithout(d), st, probes)
           /\ queue' = Purged(Rest(queue, k), d)
      /\ pauseTaken' = pauseTaken \ {d}
      /\ UNCHANGED <<loading, nextId, path, initialized, limit>>

(* The spin box; nothing is connected to its valueChanged signal. *)
SetLimit(n) ==
  /\ ~loading
  /\ limit' = n
  /\ UNCHANGED <<loading, nextId, managers, path, engines, queue, slots, scheduled,
                 pauseTaken>>

-----------------------------------------------------------------------------
Engine(d) == MetadataFetched(d) \/ MetadataFailed(d) \/ MetadataDropped(d) \/ EngineEnds(d)

Command(d) == \/ Pause(d) \/ Resume(d) \/ ResumeRestored(d) \/ Stop(d) \/ Retry(d)
              \/ RemoveDownload(d)

Next == \/ LoadRecord \/ LoadDone \/ Add
        \/ \E d \in Ids : OnScheduleDue(d) \/ Engine(d) \/ Command(d)
        \/ \E n \in Limits : SetLimit(n)

Spec == Init /\ [][Next]_vars

(* Start-up ends, a scheduled time comes, and an engine that is busy settles *)
(* (Settles of DownloadManager).                                            *)
Fairness == /\ WF_vars(LoadRecord) /\ WF_vars(LoadDone)
            /\ \A d \in Ids : WF_vars(OnScheduleDue(d)) /\ WF_vars(Engine(d))

FairSpec == Spec /\ Fairness

-----------------------------------------------------------------------------
(* Properties.                                                              *)

HoldsSlot(d) == status[d] \in Active \/ (status[d] = "PAUSED" /\ d \in initialized)

Holders == { d \in Ids : HoldsSlot(d) }

(* The slots are held by exactly the downloads of the list that are active  *)
(* or were paused while active: none is leaked by an error, a stop or a     *)
(* removal, and none is missing (_slot_holders, finish_download_slot).      *)
SlotsExact == slots = { d \in managers : HoldsSlot(d) }

(* remove_selected_download: whatever the status of a download, its slot    *)
(* does not survive its removal.                                            *)
SlotsOwned == slots \subseteq managers

(* Two downloads that may write, even one no longer listed, never have the  *)
(* same destination (_find_path_conflict on add, on load and on retry).     *)
Writing(d) == status[d] \in Active \cup { "PAUSED" }

OneWriterPerPath ==
  \A c, d \in Ids : c # d /\ Writing(c) /\ Writing(d) => path[c] # path[d]

(* A pending download waits in exactly one place, once: in the queue or in  *)
(* the scheduler; and nothing else waits in either.                         *)
Waiting == { d \in managers : status[d] = "PENDING" }

QueueExact ==
  /\ \A i, j \in DOMAIN queue : queue[i] = queue[j] => i = j
  /\ { queue[i] : i \in DOMAIN queue } = Waiting \ scheduled
  /\ scheduled \subseteq Waiting

(* Slots, queue and scheduler say the same as the statuses.                 *)
ListExact == SlotsExact /\ QueueExact

(* No step takes more downloads into their slots than the spin box allows;  *)
(* a lowered limit lets the ones that run go on (process_queue).            *)
LimitHonoured ==
  [][Cardinality(Holders') > Cardinality(Holders) => Cardinality(Holders') <= limit]_vars

(* Nothing but raising the limit leaves a free slot while the queue waits:  *)
(* every end, stop, removal and addition pulls the queue.                   *)
WorkConserving == [][~loading => (Unserved' => Unserved \/ limit' > limit)]_vars

(* A download accepted into the list is started or removed in the end,      *)
(* unless paused downloads sit on the slots.                                *)
Served ==
  \A d \in Ids :
    d \in Waiting ~> d \notin Waiting \/ \E h \in slots : status[h] = "PAUSED"

(* A pause that was accepted takes effect: the download does not go on.     *)
PauseTakesEffect == \A d \in pauseTaken : status[d] \notin { "DOWNLOADING", "VERIFYING" }

(* Each download of the list follows the life cycle of a download, across   *)
(* restore, queueing, removal of others and errors: \A d : Life(d)!Spec.    *)
Life(d) == INSTANCE DownloadLifecycle WITH status <- status[d], initialized <- d \in initialized

LivesAsPromised ==
  /\ \A d \in Ids : Life(d)!Init
  /\ [][\A d \in Ids : [Life(d)!Next]_(Life(d)!vars)]_vars
=============================================================================
