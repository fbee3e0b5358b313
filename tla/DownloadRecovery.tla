-------------------------- MODULE DownloadRecovery --------------------------
(***************************************************************************)
(* What one download leaves on disk, and what a restart makes of it: the   *)
(* destination file, the .progress sidecar, the record in the session      *)
(* file.  Blocks are written through the buffered handle of a worker, so   *)
(* the last block of each worker may not have reached the file when a      *)
(* sidecar that counts it is already synced.                               *)
(*                                                                         *)
(* The events and epochs of a run are the subject of module                *)
(* DownloadManager; a run here has at most one probe, and its workers go   *)
(* as their blocks do.                                                     *)
(***************************************************************************)
EXTENDS Integers

CONSTANTS
  NumChunks, ChunkSize,  (* the size of the file, in blocks of one read     *)
  Versions,              (* bound: contents the server will have, of one    *)
                         (* size                                            *)
  HasChecksum,           (* whether the expected hash (of the last version) *)
                         (* is known                                        *)
  LastRecord,            (* whether no other record is loaded after this    *)
                         (* one, so that the file shows it as a new one     *)
  Kills,                 (* whether the process may be killed               *)
  LateCleanup            (* whether a retry may come before the cleanup     *)

Chunks   == 1 .. NumChunks
Blocks   == Chunks \X (1 .. ChunkSize)
Progress == [Chunks -> 0 .. ChunkSize]
Zero     == [c \in Chunks |-> 0]
Full     == [c \in Chunks |-> ChunkSize]

Terminal == { "COMPLETED", "ERROR", "STOPPED" }
Status   == { "PENDING", "STARTING", "DOWNLOADING", "VERIFYING", "PAUSED" } \cup Terminal

(* Contents of the file; 0 is a hole. *)
Content == [Blocks -> 0 .. Versions]
Empty   == [b \in Blocks |-> 0]

Sidecar == [ etag : 1 .. Versions, chunk_progress : Progress ]
Record  == [ status : Status, owned : BOOLEAN, allow : BOOLEAN, restart : BOOLEAN ]

(* A block written to the handle of a worker, not yet to the file. *)
Held == [ block : Blocks, version : 1 .. Versions, retired : BOOLEAN ]

VARIABLES
  up,          (* whether the process runs                                  *)
  creating,    (* handle_metadata_fetched is between its two writes         *)
  status, progress, owned, allow, restart,   (* fields of the manager       *)
  initialized, (* metadata_initialized                                      *)
  etag,        (* server_etag: the version the last probe saw               *)
  held,        (* what is in the buffers of the workers                     *)
  cleanups,    (* CleanupWorkers not yet run                                *)
  version,     (* what the server has                                       *)
  file,        (* a set: the content of the file, if there is one           *)
  sidecar,     (* a set: what the sidecar says, if there is one             *)
  record,      (* in the session file                                       *)
  refused,     (* history: the file was refused as somebody else's          *)
  promised     (* history: what the last sidecar said, until it is given up *)
               (* or the server has other content                           *)

policy  == <<owned, allow, restart>>
manager == <<status, progress, policy, initialized, etag>>
disk    == <<file, sidecar, record>>
vars    == <<up, creating, manager, held, cleanups, version, disk, refused, promised>>

TypeOK ==
  /\ up \in BOOLEAN /\ creating \in BOOLEAN
  /\ status \in Status /\ progress \in Progress
  /\ owned \in BOOLEAN /\ allow \in BOOLEAN /\ restart \in BOOLEAN
  /\ initialized \in BOOLEAN
  /\ etag \in 1 .. Versions /\ version \in 1 .. Versions
  /\ held \in SUBSET Held
  /\ cleanups \in 0 .. 2
  /\ file \in SUBSET Content /\ \A f, g \in file : f = g
  /\ sidecar \in SUBSET Sidecar /\ \A r, q \in sidecar : r = q
  /\ record \in Record
  /\ refused \in BOOLEAN /\ promised \in Progress

(* Just added, onto no file, and recorded as such. *)
New == [status |-> "PENDING", owned |-> FALSE, allow |-> FALSE, restart |-> FALSE]

Init ==
  /\ up = TRUE /\ creating = FALSE
  /\ status = "PENDING" /\ progress = Zero
  /\ owned = FALSE /\ allow = FALSE /\ restart = FALSE
  /\ initialized = FALSE /\ etag = 1 /\ version = 1
  /\ held = {} /\ cleanups = 0
  /\ file = {} /\ sidecar = {} /\ record = New
  /\ refused = FALSE /\ promised = Zero

(* The GUI thread handles an event or a command. *)
Handling == up /\ ~creating

(* save_downloads, at the end of a handler *)
Stored(s) == IF s \in { "STARTING", "DOWNLOADING" } THEN "PENDING" ELSE s
(* Mutant: the record does not say whose the file is. *)
SaveWithoutOwner == record' = [status |-> Stored(status'), owned |-> FALSE, allow |-> allow',
                               restart |-> restart']

SaveRecord == record' = [status |-> Stored(status'), owned |-> owned', allow |-> allow',
                         restart |-> restart']

(* save_progress *)
SaveProgress == /\ sidecar' = {[etag |-> etag, chunk_progress |-> progress]}
                /\ promised' = IF etag = version THEN progress ELSE Zero

(* What the file is once the buffers of hs are flushed. *)
Flushed(hs) ==
  { [b \in Blocks |-> IF \E h \in hs : h.block = b
                      THEN (CHOOSE h \in hs : h.block = b).version ELSE f[b]] : f \in file }

(* _retire_workers: they flush when they next look, or when they are closed *)
Retire == held' = { [h EXCEPT !.retired = TRUE] : h \in held }

-----------------------------------------------------------------------------
(* A run, from the queue to the first byte.                                 *)

Start ==
  /\ Handling /\ status = "PENDING"
  /\ status' = "STARTING"
  /\ UNCHANGED <<up, creating, progress, policy, initialized, etag, held, cleanups, version,
                 disk, refused, promised>>

(* load_progress *)
Usable == file # {} /\ \E s \in sidecar : s.etag = version

(* handle_metadata_fetched with a usable sidecar *)
AdoptProgress ==
  /\ Handling /\ status = "STARTING" /\ Usable
  /\ \E s \in sidecar : progress' = s.chunk_progress
  /\ owned' = TRUE /\ initialized' = TRUE /\ etag' = version
  /\ status' = "DOWNLOADING"
  /\ UNCHANGED <<up, creating, allow, restart, held, cleanups, version, disk, refused, promised>>

MayNotOverwrite == file # {} /\ ~allow

(* ... with a file it may not overwrite *)
RefuseFile ==
  /\ Handling /\ status = "STARTING" /\ ~Usable /\ MayNotOverwrite
  /\ status' = "ERROR"
  /\ initialized' = TRUE /\ etag' = version
  /\ refused' = TRUE
  /\ UNCHANGED <<up, creating, progress, policy, held, cleanups, version, file, sidecar, promised>>
  /\ SaveRecord

(* ... with no file, or one it may overwrite: first the file, ... *)
CreateFile ==
  /\ Handling /\ status = "STARTING" /\ ~Usable /\ ~MayNotOverwrite
  /\ creating' = TRUE
  /\ file' = {Empty}
  /\ progress' = Zero
  /\ owned' = TRUE /\ initialized' = TRUE /\ etag' = version
  /\ UNCHANGED <<up, status, allow, restart, held, cleanups, version, sidecar, record,
                 refused, promised>>

(* ... then the sidecar: _write_initial_progress. *)
WriteInitialProgress ==
  /\ up /\ creating
  /\ creating' = FALSE
  /\ SaveProgress
  /\ status' = "DOWNLOADING"
  /\ UNCHANGED <<up, progress, policy, initialized, etag, held, cleanups, version, file,
                 record, refused>>

-----------------------------------------------------------------------------
(* The workers.                                                             *)

LiveOf(c) == { h \in held : h.block[1] = c /\ ~h.retired }

(* The worker of c writes its next block: the one before goes to the file.  *)
WriteBlock(c) ==
  /\ up /\ status = "DOWNLOADING" /\ ~creating /\ progress[c] < ChunkSize
  /\ progress' = [progress EXCEPT ![c] = @ + 1]
  /\ file' = Flushed(LiveOf(c))
  /\ held' = (held \ LiveOf(c))
               \cup {[block |-> <<c, progress[c] + 1>>, version |-> version, retired |-> FALSE]}
  /\ UNCHANGED <<up, creating, status, policy, initialized, etag, cleanups, version, sidecar,
                 record, refused, promised>>

(* It has all of c: the handle is closed. *)
WorkerDone(c) ==
  /\ up /\ progress[c] = ChunkSize /\ LiveOf(c) # {}
  /\ file' = Flushed(LiveOf(c))
  /\ held' = held \ LiveOf(c)
  /\ UNCHANGED <<up, creating, manager, cleanups, version, sidecar, record, refused, promised>>

(* A retired worker sees it, at its next read or when that times out. *)
RetiredWorkerExits(h) ==
  /\ up /\ h.retired
  /\ file' = Flushed({h})
  /\ held' = held \ {h}
  /\ UNCHANGED <<up, creating, manager, cleanups, version, sidecar, record, refused, promised>>

(* on_chunk_downloaded, once a second *)
SaveTick ==
  /\ Handling /\ status = "DOWNLOADING"
  /\ SaveProgress
  /\ UNCHANGED <<up, creating, manager, held, cleanups, version, file, record, refused>>

(* Mutant: an error cleans up like the other ends. *)
ErrorCleansUp ==
  /\ Handling /\ status = "DOWNLOADING" /\ cleanups < 2
  /\ status' = "ERROR"
  /\ cleanups' = cleanups + 1
  /\ Retire
  /\ UNCHANGED <<up, creating, progress, policy, initialized, etag, version, file,
                 sidecar, refused, promised>>
  /\ SaveRecord

(* on_worker_error *)
NetworkError ==
  /\ Handling /\ status = "DOWNLOADING"
  /\ status' = "ERROR"
  /\ Retire
  /\ UNCHANGED <<up, creating, progress, policy, initialized, etag, cleanups, version, file,
                 sidecar, refused, promised>>
  /\ SaveRecord

-----------------------------------------------------------------------------
(* Ends of a run.                                                           *)

AllWritten == progress = Full /\ \A c \in Chunks : LiveOf(c) = {}

(* finish_download hands the file to the checksum worker, ... *)
Verify ==
  /\ Handling /\ status = "DOWNLOADING" /\ AllWritten /\ HasChecksum
  /\ SaveProgress
  /\ status' = "VERIFYING"
  /\ UNCHANGED <<up, creating, progress, policy, initialized, etag, held, cleanups, version,
                 file, record, refused>>

Right == file = {[b \in Blocks |-> Versions]}

(* download_finished saves the record before the cleanup is handed out.     *)
Completed ==
  /\ status' = "COMPLETED"
  /\ cleanups' = cleanups + 1
  /\ promised' = Zero
  /\ UNCHANGED <<up, creating, progress, policy, initialized, etag, held, version, file, refused>>
  /\ sidecar' = IF status = "DOWNLOADING" THEN {[etag |-> etag, chunk_progress |-> progress]}
                ELSE sidecar
  /\ SaveRecord

(* ... whose verdict completes the download *)
VerdictGood == Handling /\ status = "VERIFYING" /\ Right /\ cleanups < 2 /\ Completed

(* ... or condemns the bytes on disk. *)
VerdictBad ==
  /\ Handling /\ status = "VERIFYING" /\ ~Right
  /\ status' = "ERROR" /\ restart' = TRUE
  /\ UNCHANGED <<up, creating, progress, owned, allow, initialized, etag, held, cleanups,
                 version, file, sidecar, refused, promised>>
  /\ SaveRecord

(* Without a checksum the byte counts decide. *)
FinishUnverified ==
  Handling /\ status = "DOWNLOADING" /\ AllWritten /\ ~HasChecksum /\ cleanups < 2 /\ Completed

CleanupRuns ==
  /\ up /\ cleanups > 0
  /\ cleanups' = cleanups - 1
  /\ sidecar' = {}
  /\ UNCHANGED <<up, creating, manager, held, version, file, record, refused, promised>>

-----------------------------------------------------------------------------
(* Commands.                                                                *)

Pause ==
  /\ Handling /\ status = "DOWNLOADING"
  /\ status' = "PAUSED"
  /\ Retire
  /\ SaveProgress
  /\ UNCHANGED <<up, creating, progress, policy, initialized, etag, cleanups, version, file, refused>>
  /\ SaveRecord

(* In place, or from the start if it was restored as paused. *)
Resume ==
  /\ Handling /\ status = "PAUSED"
  /\ status' = IF initialized THEN "DOWNLOADING" ELSE "PENDING"
  /\ UNCHANGED <<up, creating, progress, policy, initialized, etag, held, cleanups, version,
                 file, sidecar, refused, promised>>
  /\ SaveRecord

Stop ==
  /\ Handling /\ status \in { "STARTING", "DOWNLOADING", "VERIFYING", "PAUSED" } /\ cleanups < 2
  /\ status' = "STOPPED"
  /\ Retire
  /\ cleanups' = cleanups + 1
  /\ promised' = Zero
  /\ UNCHANGED <<up, creating, progress, policy, initialized, etag, version, file, sidecar, refused>>
  /\ SaveRecord

CleanRestart == status \in { "STOPPED", "COMPLETED" } \/ (status = "ERROR" /\ restart)

(* prepare_retry *)
Retry ==
  /\ Handling /\ status \in Terminal /\ (LateCleanup \/ cleanups = 0)
  /\ status' = "PENDING"
  /\ allow' = (allow \/ owned)
  /\ restart' = FALSE
  /\ IF CleanRestart
     THEN sidecar' = {} /\ progress' = Zero /\ promised' = Zero
     ELSE UNCHANGED <<sidecar, progress, promised>>
  /\ UNCHANGED <<up, creating, owned, initialized, etag, held, cleanups, version, file, refused>>
  /\ SaveRecord

-----------------------------------------------------------------------------
(* Restarts, and the server.                                                *)

(* closeEvent: the list is saved; the workers may or may not get to flush. *)
Close ==
  /\ Handling
  /\ up' = FALSE
  /\ \E hs \in SUBSET held : file' = Flushed(hs)
  /\ held' = {} /\ cleanups' = 0
  /\ UNCHANGED <<creating, manager, version, sidecar, refused, promised>>
  /\ SaveRecord

Kill ==
  /\ up /\ Kills
  /\ up' = FALSE /\ creating' = FALSE
  /\ held' = {} /\ cleanups' = 0
  /\ UNCHANGED <<manager, version, disk, refused, promised>>

(* load_downloads *)
Load ==
  /\ ~up
  /\ up' = TRUE
  /\ status' = IF record.status \in Terminal \cup {"PAUSED"} THEN record.status ELSE "PENDING"
  /\ owned' = record.owned /\ allow' = record.allow /\ restart' = record.restart
  /\ progress' = Zero /\ initialized' = FALSE
  /\ record' = IF LastRecord THEN New ELSE record
  /\ UNCHANGED <<creating, etag, held, cleanups, version, file, sidecar, refused, promised>>

RemoteChange ==
  /\ version < Versions
  /\ version' = version + 1
  /\ promised' = Zero
  /\ UNCHANGED <<up, creating, manager, held, cleanups, disk, refused>>

-----------------------------------------------------------------------------
Run ==
  \/ Start \/ AdoptProgress \/ RefuseFile \/ CreateFile \/ WriteInitialProgress
  \/ SaveTick \/ NetworkError \/ Verify \/ VerdictGood \/ VerdictBad \/ FinishUnverified
  \/ CleanupRuns
  \/ \E c \in Chunks : WriteBlock(c) \/ WorkerDone(c)
  \/ \E h \in held : RetiredWorkerExits(h)

Next == Run \/ Pause \/ Resume \/ Stop \/ Retry \/ Close \/ Kill \/ Load \/ RemoteChange

Spec == Init /\ [][Next]_vars

-----------------------------------------------------------------------------
(* Properties.                                                              *)

(* A download with a checksum is complete only if every byte of the file is *)
(* right, through kills that lose buffered blocks and through retries.      *)
VerifiedIsRight == up /\ status = "COMPLETED" /\ HasChecksum => Right

(* A download without one is complete only if no block of the file is a     *)
(* hole ("The .progress sidecar is the single source of truth for how many  *)
(* bytes are actually on disk").                                            *)
CompletedIsWhole ==
  up /\ status = "COMPLETED" => \A f \in file, b \in Blocks : f[b] # 0

(* ADP does not refuse the file it made itself ("a crash leaves a           *)
(* consistent record + sidecar pair to resume from rather than an orphaned  *)
(* file").                                                                  *)
NeverRefusesOwn == ~refused

(* What a sidecar promised is downloaded again only if the download was     *)
(* stopped, completed or found corrupt ("the .progress sidecar on disk lets *)
(* them continue from where they left off rather than restarting").         *)
ProgressNotLostStep == CreateFile => promised = Zero

ProgressNotLost == [][ProgressNotLostStep]_vars

(* A run that continues does so from no less than the last sidecar said. *)
ContinuesStep == AdoptProgress => \A c \in Chunks : progress'[c] >= promised[c]

ContinuesFromSidecar == [][ContinuesStep]_vars

(* Retired workers "exit without writing further": what they hold never     *)
(* changes a file that has been made anew since.                            *)
NothingStaleWritten ==
  [][\A h \in held : h.retired /\ h \notin held' /\ up' =>
       \A f \in file : f[h.block] \in { 0, h.version }]_vars
=============================================================================
