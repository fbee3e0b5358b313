-------------------------- MODULE DownloadManager --------------------------
(***************************************************************************)
(* One download of ADP: the DownloadManager object and everything that     *)
(* runs on its behalf.  Handlers of the manager run one at a time on the   *)
(* GUI thread.  The metadata probe, the chunk workers, the checksum worker *)
(* and the sidecar cleanup run on thread-pool threads; they read and write *)
(* the manager's fields directly, and report back by posting signals,      *)
(* which the GUI thread delivers in the order they were posted.            *)
(*                                                                         *)
(* A byte of the file stands for one network chunk.                        *)
(***************************************************************************)
EXTENDS Integers, Sequences, FiniteSets

CONSTANTS
  TotalSize,    (* bytes of the remote file                                 *)
  NumThreads,   (* num_threads the download was created with                *)
  HasChecksum,  (* whether the user supplied a SHA-256 sum                  *)
  Replies,      (* what the metadata probe may answer, a subset of Reply    *)
  ShortReads,   (* whether a response body may end early without an error   *)
  EarlyRetry,   (* whether a stopped download may be retried before the     *)
                (* probe of its stopped run has answered                    *)
  External,     (* whether other programs may remove or create the file     *)
  MaxStarts,    (* bound: how often the queue starts this download          *)
  MaxEpoch      (* bound: generations after which nobody pauses or stops    *)

Reply == { "ranges",   (* Accept-Ranges: bytes, same ETag as the sidecar    *)
           "changed",  (* Accept-Ranges: bytes, ETag differs from it        *)
           "plain",    (* no Accept-Ranges                                  *)
           "nosize",   (* no usable Content-Length                          *)
           "error" }   (* the probe failed                                  *)

ASSUME SizeAssumption   == TotalSize \in Nat \ {0}
ASSUME ThreadAssumption == NumThreads \in Nat \ {0}
ASSUME ReplyAssumption  == Replies \subseteq Reply
ASSUME FlagAssumption   == /\ HasChecksum \in BOOLEAN
                           /\ ShortReads \in BOOLEAN
                           /\ EarlyRetry \in BOOLEAN
                           /\ External \in BOOLEAN
ASSUME BoundAssumption  == MaxStarts \in Nat /\ MaxEpoch \in Nat

Status == { "PENDING", "STARTING", "DOWNLOADING", "PAUSED", "STOPPED",
            "COMPLETED", "ERROR", "VERIFYING" }
Terminal == { "COMPLETED", "ERROR", "STOPPED" }
Active   == { "STARTING", "DOWNLOADING", "VERIFYING" }

-----------------------------------------------------------------------------
(* The split of the file into chunks.  n is the manager's num_threads.      *)

Bytes == 0 .. TotalSize - 1

ChunkStart(i, n) == i * (TotalSize \div n)

ChunkEnd(i, n)   == IF i < n - 1 THEN ChunkStart(i, n) + (TotalSize \div n) - 1
                                 ELSE TotalSize - 1

Starts == { ChunkStart(i, NumThreads) : i \in 0 .. NumThreads - 1 }

(* chunk_progress: bytes done of the chunk that starts at a byte; a missing *)
(* key counts as 0.                                                         *)
ChunkMap == [Starts -> Nat]
NoProgress == [s \in Starts |-> 0]

(* sum(chunk_progress.values()) *)
SumOf(cp) == Cardinality(UNION { {s} \X (1 .. cp[s]) : s \in Starts })

-----------------------------------------------------------------------------
(* The destination file: who made it, its length relative to TotalSize,     *)
(* which of its bytes hold downloaded content, and (history) whether the    *)
(* manager has found its bytes wrong since it was created.                  *)

File == [kind    : {"absent", "adp", "foreign"},
         size    : {"short", "exact", "long"},
         written : SUBSET Bytes,
         wrong   : BOOLEAN]

NoFile    == [kind |-> "absent",  size |-> "short", written |-> {}, wrong |-> FALSE]
FreshFile == [kind |-> "adp",     size |-> "exact", written |-> {}, wrong |-> FALSE]
Alien(sz) == [kind |-> "foreign", size |-> sz,      written |-> {}, wrong |-> FALSE]
Wrong(f)  == [f EXCEPT !.wrong = TRUE]

Written(f, pos) == [f EXCEPT !.kind = "adp", !.written = @ \cup {pos},
                             !.size = IF pos = TotalSize - 1 /\ @ = "short"
                                      THEN "exact" ELSE @]

Whole(f) == f.written = Bytes

(* A chunk worker on a pool thread.  gen numbers the spawn that made it.    *)
Worker == [gen : Nat, epoch : Nat, start : Nat, end : Int, ranged : BOOLEAN,
           pos : Nat, seen : Nat, pc : {"queued", "restart", "reading", "writing", "storing"}]

(* Signals posted to the GUI thread.  run is history: the metadata signals  *)
(* of the code carry no identity of the run that asked for them.            *)
Event ==      [kind : {"metadata"}, reply : Reply, run : Nat]
         \cup [kind : {"chunk"}]
         \cup [kind : {"finished", "failed", "unverifiable"}, epoch : Nat]
         \cup [kind : {"verified"}, valid : BOOLEAN, epoch : Nat]

VARIABLES
  (* fields of the manager *)
  status, metadataInitialized, rangesSupported, numThreads, activeWorkers,
  workerEpoch, downloadedSize, chunkProgress, restartRequired, owned,
  allowOverwrite,
  (* the disk *)
  file, sidecar,
  (* the thread pool and the GUI event queue *)
  workers, probes, verifiers, cleanups, events,
  (* history *)
  starts, spawns, granted

control  == <<status, metadataInitialized, rangesSupported, numThreads>>
counters == <<activeWorkers, workerEpoch, downloadedSize, chunkProgress>>
policy   == <<restartRequired, owned, allowOverwrite>>
disk     == <<file, sidecar>>
pool     == <<workers, probes, verifiers, cleanups>>
history  == <<starts, spawns, granted>>
vars     == <<control, counters, policy, disk, pool, events, history>>

FlagsOK   == /\ metadataInitialized \in BOOLEAN
             /\ rangesSupported \in BOOLEAN
             /\ restartRequired \in BOOLEAN
             /\ owned \in BOOLEAN
             /\ allowOverwrite \in BOOLEAN
             /\ granted \in BOOLEAN
ControlOK == status \in Status /\ numThreads \in {1, NumThreads}
CountOK   == /\ activeWorkers \in Int
             /\ workerEpoch \in Nat
             /\ downloadedSize \in Nat
             /\ starts \in Nat
             /\ spawns \in Nat
DiskOK    == /\ chunkProgress \in ChunkMap
             /\ sidecar \in SUBSET ChunkMap
             /\ file \in File
PoolOK    == /\ workers \in SUBSET Worker
             /\ probes \in SUBSET Nat
             /\ verifiers \in SUBSET Nat
             /\ cleanups \in Nat
EventsOK  == events \in Seq(Event)

TypeOK == FlagsOK /\ ControlOK /\ CountOK /\ DiskOK /\ PoolOK /\ EventsOK

-----------------------------------------------------------------------------
(* Initial states: a download just added (perhaps onto somebody's file,     *)
(* perhaps with permission to replace it), or one restored from the session *)
(* as paused, whose sidecar says how much of each chunk is on disk.         *)

Done(cp) == UNION { s .. s + cp[s] - 1 : s \in Starts }

Restorable ==
  { cp \in [Starts -> 0 .. TotalSize] :
      \A i \in 0 .. NumThreads - 1 :
        cp[ChunkStart(i, NumThreads)]
          <= ChunkEnd(i, NumThreads) - ChunkStart(i, NumThreads) + 1 }

Added == /\ status = "PENDING"
         /\ sidecar = {}
         /\ owned = FALSE
         /\ file \in {NoFile} \cup (IF External THEN {Alien("exact"), Alien("long")}
                                                ELSE {})

Restored == /\ status = "PAUSED"
            /\ owned = TRUE
            /\ \E cp \in Restorable :
                 /\ sidecar = {cp}
                 /\ file = [FreshFile EXCEPT !.written = Done(cp)]

Init ==
  /\ Added \/ Restored
  /\ metadataInitialized = FALSE
  /\ rangesSupported = TRUE
  /\ numThreads = NumThreads
  /\ activeWorkers = 0
  /\ workerEpoch = 0
  /\ downloadedSize = 0
  /\ chunkProgress = NoProgress
  /\ restartRequired = FALSE
  /\ granted \in (IF External THEN BOOLEAN ELSE {FALSE})
  /\ allowOverwrite = granted
  /\ workers = {} /\ probes = {} /\ verifiers = {} /\ cleanups = 0
  /\ events = <<>>
  /\ starts = 0 /\ spawns = 0

-----------------------------------------------------------------------------
(* Pieces that several handlers share.                                      *)

(* _retire_workers: the new epoch makes every earlier worker stale. *)
RetireWorkers == /\ workerEpoch' = workerEpoch + 1
                 /\ activeWorkers' = 0

(* save_progress, called with the given status and chunk map in force. *)
Saved(st, cp) == IF st \in {"DOWNLOADING", "PAUSED"} THEN {cp} ELSE sidecar

(* set_status(ERROR), error_occurred, stop_all_workers *)
FailWith(restart) == /\ status' = "ERROR"
                     /\ restartRequired' = restart
                     /\ RetireWorkers
                     /\ UNCHANGED <<verifiers, cleanups>>

(* Mutant: verification is skipped. *)
ConcludeUnverified == /\ status' = "COMPLETED"
                      /\ cleanups' = cleanups + 1
                      /\ UNCHANGED verifiers

(* Mutant: VERIFYING, but the checksum worker is not launched. *)
ConcludeUnlaunched ==
  IF HasChecksum
  THEN status' = "VERIFYING" /\ UNCHANGED <<verifiers, cleanups>>
  ELSE status' = "COMPLETED" /\ cleanups' = cleanups + 1 /\ UNCHANGED verifiers

(* The end of finish_download: hash the file, or report it complete.        *)
Conclude ==
  IF HasChecksum
  THEN /\ status' = "VERIFYING"
       /\ verifiers' = verifiers \cup {workerEpoch}
       /\ UNCHANGED cleanups
  ELSE /\ status' = "COMPLETED"
       /\ cleanups' = cleanups + 1
       /\ UNCHANGED verifiers

CountMatches(d) == d = TotalSize

(* finish_download, with d bytes counted, f the file on disk and a workers  *)
(* left in the active count.                                                *)
FinishDownload(d, f, a) ==
  \/ /\ ~CountMatches(d) \/ (f.kind # "absent" /\ f.size # "exact")
     /\ FailWith(TRUE)
     /\ file' = Wrong(f)
  \/ /\ CountMatches(d) /\ f.kind = "absent"
     /\ FailWith(restartRequired)
     /\ file' = f
  \/ /\ CountMatches(d) /\ f.kind # "absent" /\ f.size = "exact"
     /\ Conclude
     /\ activeWorkers' = a
     /\ file' = f
     /\ UNCHANGED <<workerEpoch, restartRequired>>

(* The chunks of an n-way split that cp does not show as complete. *)
Incomplete(cp, n) ==
  { i \in 0 .. n - 1 :
      cp[ChunkStart(i, n)] < ChunkEnd(i, n) - ChunkStart(i, n) + 1 }

WorkerFor(s, e) == [gen |-> spawns, epoch |-> workerEpoch, start |-> s, end |-> e,
                    ranged |-> rangesSupported', pos |-> s, seen |-> 0, pc |-> "queued"]

(* Mutant: one worker too many in the count. *)
StartMiscounted(new, cp, d) ==
  /\ status' = "DOWNLOADING"
  /\ workers' = workers \cup new
  /\ activeWorkers' = Cardinality(new) + 1
  /\ chunkProgress' = cp
  /\ downloadedSize' = d
  /\ UNCHANGED <<workerEpoch, restartRequired, verifiers, cleanups>>

(* The loop over _start_worker. *)
StartWorkers(new, cp, d) == /\ status' = "DOWNLOADING"
                            /\ workers' = workers \cup new
                            /\ activeWorkers' = Cardinality(new)
                            /\ chunkProgress' = cp
                            /\ downloadedSize' = d
                            /\ UNCHANGED <<workerEpoch, restartRequired, verifiers, cleanups>>

(* _spawn_workers, entered in status DOWNLOADING with progress cp, d bytes  *)
(* counted, file f and sidecar sc, after rangesSupported and numThreads have *)
(* got their values for this run.                                           *)
SpawnWorkers(cp0, d0, f0, sc) ==
  LET reset == ~rangesSupported' /\ d0 # 0
      cp    == IF reset THEN NoProgress ELSE cp0
      d     == IF reset THEN 0 ELSE d0
      f     == IF reset THEN FreshFile ELSE f0
      n     == numThreads'
      todo  == Incomplete(cp, n)
  IN  /\ spawns' = spawns + 1
      /\ \/ /\ todo # {}
            /\ StartWorkers({ WorkerFor(ChunkStart(i, n), ChunkEnd(i, n)) : i \in todo }, cp, d)
            /\ file' = f /\ sidecar' = sc
         \/ /\ todo = {} /\ d < TotalSize
            /\ StartWorkers({ WorkerFor(0, TotalSize - 1) }, NoProgress, 0)
            /\ file' = FreshFile /\ sidecar' = {}
         \/ /\ todo = {} /\ d >= TotalSize
            /\ FinishDownload(d, f, 0)
            /\ chunkProgress' = cp /\ downloadedSize' = d
            /\ sidecar' = {cp}
            /\ UNCHANGED workers

-----------------------------------------------------------------------------
(* Commands of the panel, run on the GUI thread between event deliveries.   *)

(* process_queue takes a PENDING manager; start() launches a probe. *)
Start ==
  /\ status = "PENDING"
  /\ starts < MaxStarts
  /\ status' = "STARTING"
  /\ starts' = starts + 1
  /\ probes' = probes \cup {starts + 1}
  /\ UNCHANGED <<metadataInitialized, rangesSupported, numThreads, counters, policy,
                 disk, workers, verifiers, cleanups, events, spawns, granted>>

(* pause() acts in DOWNLOADING only; the panel also accepts STARTING, where *)
(* it changes nothing.                                                      *)
Pause ==
  /\ status = "DOWNLOADING"
  /\ workerEpoch < MaxEpoch
  /\ status' = "PAUSED"
  /\ RetireWorkers
  /\ sidecar' = {chunkProgress}
  /\ UNCHANGED <<metadataInitialized, rangesSupported, numThreads, downloadedSize,
                 chunkProgress, policy, file, pool, events, history>>

(* resume() of a download paused at run time. *)
Resume ==
  /\ status = "PAUSED" /\ metadataInitialized
  /\ UNCHANGED <<metadataInitialized, rangesSupported, numThreads>>
  /\ SpawnWorkers(chunkProgress, downloadedSize, file, sidecar)
  /\ UNCHANGED <<owned, allowOverwrite, probes, events, starts, granted>>

(* resume_download of one restored as paused: back to the queue. *)
ResumeRestored ==
  /\ status = "PAUSED" /\ ~metadataInitialized
  /\ status' = "PENDING"
  /\ UNCHANGED <<metadataInitialized, rangesSupported, numThreads, counters, policy,
                 disk, pool, events, history>>

(* Mutant: a completed download can be stopped. *)
StoppableOrDone == status \in {"DOWNLOADING", "PAUSED", "STARTING", "VERIFYING", "COMPLETED"}

Stoppable == status \in {"DOWNLOADING", "PAUSED", "STARTING", "VERIFYING"}

(* stop(), reached through the panel's stop or remove. *)
Stop ==
  /\ Stoppable
  /\ workerEpoch < MaxEpoch
  /\ status' = "STOPPED"
  /\ RetireWorkers
  /\ cleanups' = cleanups + 1
  /\ UNCHANGED <<metadataInitialized, rangesSupported, numThreads, downloadedSize,
                 chunkProgress, policy, disk, workers, probes, verifiers, events, history>>

(* Mutant: an error always resumes from the sidecar. *)
RestartUnlessError == status \in {"STOPPED", "COMPLETED"}

NeedsCleanRestart == \/ status \in {"STOPPED", "COMPLETED"}
                     \/ status = "ERROR" /\ restartRequired

(* Mutant: every retry may overwrite. *)
BlanketOverwrite == TRUE

OverwriteAfterRetry == allowOverwrite \/ owned

ProbePending == \/ probes # {}
                \/ \E i \in DOMAIN events : events[i].kind = "metadata"

(* prepare_retry() of a terminal download. *)
PrepareRetry ==
  /\ status \in Terminal
  /\ starts < MaxStarts
  /\ ProbePending => EarlyRetry
  /\ status' = "PENDING"
  /\ RetireWorkers
  /\ allowOverwrite' = OverwriteAfterRetry
  /\ IF NeedsCleanRestart
     THEN /\ downloadedSize' = 0
          /\ chunkProgress' = NoProgress
          /\ sidecar' = {}
     ELSE UNCHANGED <<downloadedSize, chunkProgress, sidecar>>
  /\ restartRequired' = FALSE
  /\ UNCHANGED <<metadataInitialized, rangesSupported, numThreads, owned, file, pool,
                 events, history>>

-----------------------------------------------------------------------------
(* Delivery of the oldest posted signal.                                    *)

Deliver(kind) == /\ events # <<>>
                 /\ Head(events).kind = kind
                 /\ events' = Tail(events)

(* handle_metadata_error; the result of a stopped download is dropped. *)
HandleMetadataError ==
  /\ Deliver("metadata")
  /\ Head(events).reply = "error"
  /\ status' = IF status = "STOPPED" THEN status ELSE "ERROR"
  /\ UNCHANGED <<metadataInitialized, rangesSupported, numThreads, counters, policy,
                 disk, pool, history>>

(* handle_metadata_fetched, when it arrives after a stop or an error. *)
DropMetadata ==
  /\ Deliver("metadata")
  /\ Head(events).reply # "error"
  /\ status \in {"STOPPED", "ERROR"}
  /\ UNCHANGED <<control, counters, policy, disk, pool, history>>

(* Mutant: no ranges, no threads. *)
NoThreads(reply) == IF reply = "plain" THEN 0 ELSE numThreads

(* num_threads stays at 1 once a server without ranges was met. *)
ThreadsAfter(reply) == IF reply = "plain" THEN 1 ELSE numThreads

Adoptable(reply) == file.kind # "absent" /\ sidecar # {} /\ reply # "changed"

(* handle_metadata_fetched ending in handle_metadata_error: no size, or a   *)
(* file that is not ours to replace.                                        *)
RefuseMetadata ==
  LET reply == Head(events).reply
  IN  /\ Deliver("metadata")
      /\ reply # "error"
      /\ status \notin {"STOPPED", "ERROR"}
      /\ \/ /\ reply = "nosize"
            /\ UNCHANGED <<rangesSupported, numThreads>>
         \/ /\ reply # "nosize"
            /\ ~Adoptable(reply) /\ file.kind # "absent" /\ ~allowOverwrite
            /\ rangesSupported' = (reply # "plain")
            /\ numThreads' = ThreadsAfter(reply)
      /\ metadataInitialized' = TRUE
      /\ status' = "ERROR"
      /\ UNCHANGED <<counters, policy, disk, pool, history>>

(* The rest of handle_metadata_fetched, from the point where the progress   *)
(* cp, the file f and the sidecar sc are settled.                           *)
Proceed(cp, f, sc) ==
  IF SumOf(cp) >= TotalSize
  THEN /\ FinishDownload(SumOf(cp), f, activeWorkers)
       /\ chunkProgress' = cp /\ downloadedSize' = SumOf(cp)
       /\ sidecar' = IF status \in {"DOWNLOADING", "PAUSED"} THEN {cp} ELSE sc
       /\ UNCHANGED <<workers, spawns>>
  ELSE SpawnWorkers(cp, SumOf(cp), f, sc)

(* handle_metadata_fetched that goes on to download: our own sidecar is     *)
(* adopted, or the file is (re)created with an empty sidecar beside it.     *)
HandleMetadataFetched ==
  LET reply == Head(events).reply
  IN  /\ Deliver("metadata")
      /\ reply \notin {"error", "nosize"}
      /\ status \notin {"STOPPED", "ERROR"}
      /\ metadataInitialized' = TRUE
      /\ rangesSupported' = (reply # "plain")
      /\ numThreads' = ThreadsAfter(reply)
      /\ owned' = TRUE
      /\ \/ \E cp \in sidecar : Adoptable(reply) /\ Proceed(cp, file, sidecar)
         \/ /\ ~Adoptable(reply)
            /\ file.kind = "absent" \/ allowOverwrite
            /\ Proceed(NoProgress, FreshFile, {NoProgress})
      /\ UNCHANGED <<allowOverwrite, probes, starts, granted>>

(* on_chunk_downloaded; the save is throttled to once a second. *)
OnChunkDownloaded ==
  /\ Deliver("chunk")
  /\ downloadedSize' = downloadedSize + 1
  /\ sidecar' \in {sidecar, Saved(status, chunkProgress)}
  /\ UNCHANGED <<control, activeWorkers, workerEpoch, chunkProgress, policy, file,
                 pool, history>>

(* Mutant: no epoch guard on the signals of workers. *)
FromAnyGeneration(e) == TRUE

FromThisGeneration(e) == e.epoch = workerEpoch

(* on_worker_finished *)
OnWorkerFinished ==
  /\ Deliver("finished")
  /\ IF ~FromThisGeneration(Head(events))
     THEN UNCHANGED <<status, activeWorkers, workerEpoch, restartRequired, disk,
                      verifiers, cleanups>>
     ELSE IF activeWorkers - 1 <= 0 /\ status = "DOWNLOADING"
          THEN /\ FinishDownload(downloadedSize, file, activeWorkers - 1)
               /\ sidecar' = {chunkProgress}
          ELSE /\ activeWorkers' = activeWorkers - 1
               /\ UNCHANGED <<status, workerEpoch, restartRequired, disk, verifiers,
                              cleanups>>
  /\ UNCHANGED <<metadataInitialized, rangesSupported, numThreads, downloadedSize,
                 chunkProgress, owned, allowOverwrite, workers, probes, history>>

(* on_worker_error, for the signal of a worker *)
OnWorkerError ==
  /\ Deliver("failed")
  /\ IF ~FromThisGeneration(Head(events))
     THEN UNCHANGED <<status, activeWorkers, workerEpoch, restartRequired, verifiers,
                      cleanups>>
     ELSE FailWith(restartRequired)
  /\ UNCHANGED <<metadataInitialized, rangesSupported, numThreads, downloadedSize,
                 chunkProgress, owned, allowOverwrite, disk, workers, probes, history>>

(* on_verification_finished and on_verification_error *)
Verdict(kind) == /\ Deliver(kind)
                 /\ status = "VERIFYING"
                 /\ Head(events).epoch = workerEpoch

OnVerified ==
  /\ Verdict("verified")
  /\ IF Head(events).valid
     THEN /\ status' = "COMPLETED"
          /\ cleanups' = cleanups + 1
          /\ UNCHANGED <<restartRequired, file>>
     ELSE /\ status' = "ERROR"
          /\ restartRequired' = TRUE
          /\ file' = Wrong(file)
          /\ UNCHANGED cleanups
  /\ UNCHANGED <<metadataInitialized, rangesSupported, numThreads, counters, owned,
                 allowOverwrite, sidecar, workers, probes, verifiers, history>>

OnUnverifiable ==
  /\ Verdict("unverifiable")
  /\ status' = "ERROR"
  /\ UNCHANGED <<metadataInitialized, rangesSupported, numThreads, counters, policy,
                 disk, pool, history>>

StaleVerdict(e) == status # "VERIFYING" \/ e.epoch # workerEpoch

DropVerdict ==
  /\ Deliver("verified") \/ Deliver("unverifiable")
  /\ StaleVerdict(Head(events))
  /\ UNCHANGED <<control, counters, policy, disk, pool, history>>

-----------------------------------------------------------------------------
(* Threads of the pool.                                                     *)

Post(e) == events' = Append(events, e)

(* MetadataFetcher.run answers. *)
ProbeAnswer ==
  \E r \in probes, reply \in Replies :
    /\ probes' = probes \ {r}
    /\ Post([kind |-> "metadata", reply |-> reply, run |-> r])
    /\ UNCHANGED <<control, counters, policy, disk, workers, verifiers, cleanups, history>>

Stale(w) == w.epoch # workerEpoch

Becomes(w, v) == workers' = (workers \ {w}) \cup {v}

WorkerFrame == UNCHANGED <<control, activeWorkers, workerEpoch, downloadedSize, policy,
                           sidecar, probes, verifiers, cleanups, history>>

(* run() reads its resume position; a full GET cannot start in the middle. *)
WorkerBegin(w) ==
  LET pos == w.start + chunkProgress[w.start]
  IN  /\ w.pc = "queued"
      /\ w.ranged => pos <= w.end
      /\ file.kind # "absent"
      /\ Becomes(w, [w EXCEPT !.pos = pos,
                              !.pc = IF ~w.ranged /\ pos # 0 THEN "restart" ELSE "reading"])
      /\ UNCHANGED <<chunkProgress, file, events>>
      /\ WorkerFrame

WorkerRestart(w) ==
  /\ w.pc = "restart"
  /\ Becomes(w, [w EXCEPT !.pos = 0, !.pc = "reading"])
  /\ chunkProgress' = [chunkProgress EXCEPT ![w.start] = 0]
  /\ UNCHANGED <<file, events>>
  /\ WorkerFrame

(* A network chunk arrived: the staleness checks around the rate limiter. *)
WorkerCheck(w) ==
  /\ w.pc = "reading"
  /\ IF Stale(w) THEN workers' = workers \ {w}
                 ELSE Becomes(w, [w EXCEPT !.pc = "writing"])
  /\ UNCHANGED <<chunkProgress, file, events>>
  /\ WorkerFrame

(* f.write, chunk_downloaded.emit, and the read half of the += on the       *)
(* manager's chunk_progress.                                                *)
WorkerWrite(w) ==
  /\ w.pc = "writing"
  /\ file' = Written(file, w.pos)
  /\ Post([kind |-> "chunk"])
  /\ Becomes(w, [w EXCEPT !.pc = "storing", !.seen = chunkProgress[w.start]])
  /\ UNCHANGED chunkProgress
  /\ WorkerFrame

(* The write half; after the last byte of the range the worker reports. *)
WorkerStore(w) ==
  /\ w.pc = "storing"
  /\ chunkProgress' = [chunkProgress EXCEPT ![w.start] = w.seen + 1]
  /\ IF w.pos = w.end
     THEN /\ workers' = workers \ {w}
          /\ Post([kind |-> "finished", epoch |-> w.epoch])
     ELSE /\ Becomes(w, [w EXCEPT !.pos = @ + 1, !.pc = "reading"])
          /\ UNCHANGED events
  /\ UNCHANGED file
  /\ WorkerFrame

(* The body ended before the range did; the worker only logs it. *)
WorkerShortRead(w) ==
  /\ ShortReads
  /\ w.pc = "reading"
  /\ workers' = workers \ {w}
  /\ Post([kind |-> "finished", epoch |-> w.epoch])
  /\ UNCHANGED <<chunkProgress, file>>
  /\ WorkerFrame

(* A request, range-check or disk error; a stale worker keeps silent. *)
WorkerFail(w) ==
  /\ w.pc \in {"queued", "reading", "writing"}
  /\ workers' = workers \ {w}
  /\ IF Stale(w) THEN UNCHANGED events ELSE Post([kind |-> "failed", epoch |-> w.epoch])
  /\ UNCHANGED <<chunkProgress, file>>
  /\ WorkerFrame

WorkerStep == \E w \in workers : \/ WorkerBegin(w) \/ WorkerRestart(w) \/ WorkerCheck(w)
                                 \/ WorkerWrite(w) \/ WorkerStore(w)
                                 \/ WorkerShortRead(w) \/ WorkerFail(w)

(* ChecksumWorker.run *)
ChecksumDone ==
  \E e \in verifiers :
    /\ verifiers' = verifiers \ {e}
    /\ \/ Post([kind |-> "verified", valid |-> Whole(file), epoch |-> e])
       \/ External /\ Post([kind |-> "unverifiable", epoch |-> e])
    /\ UNCHANGED <<control, counters, policy, disk, workers, probes, cleanups, history>>

(* CleanupWorker.run *)
Cleanup ==
  /\ cleanups > 0
  /\ cleanups' = cleanups - 1
  /\ sidecar' = {}
  /\ UNCHANGED <<control, counters, policy, file, workers, probes, verifiers, events,
                 history>>

(* Another program takes the finished file away, or puts its own there.     *)
Elsewhere ==
  /\ External /\ workers = {} /\ verifiers = {}
  /\ \/ file.kind = "adp" /\ file' = NoFile
     \/ file.kind = "absent" /\ file' \in {Alien("exact"), Alien("long")}
  /\ UNCHANGED <<control, counters, policy, sidecar, pool, events, history>>

-----------------------------------------------------------------------------
Command == Start \/ Pause \/ Resume \/ ResumeRestored \/ Stop \/ PrepareRetry

Dispatch == \/ HandleMetadataError \/ DropMetadata \/ RefuseMetadata
            \/ HandleMetadataFetched \/ OnChunkDownloaded \/ OnWorkerFinished
            \/ OnWorkerError \/ OnVerified \/ OnUnverifiable \/ DropVerdict

Next == Command \/ Dispatch \/ ProbeAnswer \/ WorkerStep \/ ChecksumDone \/ Cleanup
        \/ Elsewhere

Spec == Init /\ [][Next]_vars

(* The event loop keeps running; probes, requests and reads end, because    *)
(* each has a timeout; the hash of a file ends.                             *)
FairSpec == /\ Spec
            /\ WF_vars(Dispatch)
            /\ WF_vars(ProbeAnswer)
            /\ WF_vars(WorkerStep)
            /\ WF_vars(ChecksumDone)
-----------------------------------------------------------------------------
(* Properties.                                                              *)

(* A worker of the current generation runs only while the manager says      *)
(* DOWNLOADING: pausing, stopping, failing, finishing and retrying all make *)
(* every worker stale (manager.py, worker_epoch and _retire_workers).       *)
LiveOnlyWhileDownloading ==
  \A w \in workers : w.epoch = workerEpoch => status = "DOWNLOADING"

(* While downloading, active_workers is the number of workers of this       *)
(* generation that still run or whose last signal is still undelivered, so  *)
(* finish_download is reached once, by the last of them.                    *)
Reports == { i \in DOMAIN events : /\ events[i].kind \in {"finished", "failed"}
                                   /\ events[i].epoch = workerEpoch }

GenerationCounted ==
  status = "DOWNLOADING" =>
    activeWorkers = Cardinality({w \in workers : ~Stale(w)}) + Cardinality(Reports)

(* No byte of the file belongs to two workers of the current generation.    *)
OneWriterPerByte ==
  \A v, w \in workers :
    v # w /\ ~Stale(v) /\ ~Stale(w) => v.end < w.start \/ w.end < v.start

(* Generations never meet: the workers of one leave before those of the     *)
(* next are counted, and within one each has its own bytes.                 *)
WorkersApart == LiveOnlyWhileDownloading /\ GenerationCounted /\ OneWriterPerByte

(* A download that claims to be busy has something under way that will      *)
(* report: it is never left in an active status with nobody working on it.  *)
NeverStranded ==
  status \in Active =>
    \/ events # <<>>
    \/ status = "STARTING" /\ starts \in probes
    \/ status = "DOWNLOADING" /\ \E w \in workers : ~Stale(w)
    \/ status = "VERIFYING" /\ workerEpoch \in verifiers

(* A download with a checksum is reported complete only when every byte of  *)
(* the file holds downloaded content, whatever stale workers, short bodies  *)
(* and retries did to the counters (finish_download, ChecksumWorker).       *)
VerifiedIsWhole == HasChecksum /\ status = "COMPLETED" => Whole(file)

(* Without a checksum: as long as no generation was ever retired, the byte  *)
(* count alone is enough for COMPLETED to mean that the file is whole.      *)
FirstGenerationIsWhole ==
  status = "COMPLETED" /\ workerEpoch = 0 /\ file.kind = "adp" => Whole(file)

(* COMPLETED never means a file with holes. *)
NoFalseCompletion == status = "COMPLETED" => Whole(file)

(* A file that ADP did not make, at a path ADP never owned, is replaced     *)
(* only with the permission given when the download was added.              *)
ForeignFileSafe ==
  [][file.kind = "foreign" /\ file'.kind = "adp" => owned \/ granted]_vars

(* prepare_retry: a retry must not gain permission to overwrite a file some *)
(* other program created at this path.                                      *)
RetryGainsNoOverwrite ==
  [][file.kind = "foreign" /\ file'.kind = "adp" => granted]_vars

(* The metadata of a run that was stopped must not bring the download back. *)
StoppedRunStaysDead ==
  [][ (events # <<>> /\ Head(events).kind = "metadata" /\ Head(events).run # starts
       /\ events' = Tail(events)) => status' = status /\ workers' = workers ]_vars

(* The engine of one download keeps the life cycle its panel relies on:     *)
(* whatever probes, workers and verdicts of earlier runs still deliver, no  *)
(* status follows another in a way DownloadLifecycle does not allow; for    *)
(* one, COMPLETED is left by a retry only.                                  *)
Life == INSTANCE DownloadLifecycle WITH initialized <- metadataInitialized

LivesAsPromised == Life!Spec

(* A file whose bytes were found wrong (byte count, size on disk, checksum)  *)
(* is downloaded from scratch before it is verified or reported again       *)
(* (restart_required, NeedsCleanRestart).                                   *)
NotReverified == status \in {"VERIFYING", "COMPLETED"} => ~file.wrong

(* A download that is busy comes to rest: it finishes, fails, or the user   *)
(* pauses or stops it.                                                      *)
Settles == status \in Active ~> status \notin Active
=============================================================================
