--------------------------- MODULE TorrentSession ---------------------------
(***************************************************************************)
(* What the Torrents tab keeps across restarts: the records in             *)
(* torrents_session.json, replaced atomically; a copy of each imported     *)
(* .torrent file; and one fastresume blob per torrent, which libtorrent    *)
(* produces on request, some time later, and which is written in place.    *)
(*                                                                         *)
(* A handle and a blob carry where the files are looked for and whether    *)
(* the torrent is paused; `files` is where they really are.  The live      *)
(* behaviour of the tab is the subject of module TorrentPanel.             *)
(***************************************************************************)
EXTENDS Integers, Sequences, FiniteSets, Functions

CONSTANTS
  Torrents,     (* info-hashes                                              *)
  Magnets,      (* those that are added as magnets                          *)
  Folders,      (* where files may be                                       *)
  NoId,         (* what _info_hash_str makes of the handle of a torrent     *)
                (* that has left the session                                *)
  MaxRequests,  (* bound: resume data asked for and not yet handled, and    *)
                (* alerts not yet handled                                   *)
  Crashes,      (* whether the process may be killed                        *)
  DiskFull      (* whether a write may fail half-way                        *)

Handle == [ save_path : Folders, paused : BOOLEAN ]
Record == [ save_path : Folders ]
Broken == [ torn : BOOLEAN ]   (* a blob cut short: torn, or still empty    *)

Phases == { "down", "running", "waiting", "writing" }

VARIABLES
  phase,      (* the process, and where save_session is on closing          *)
  handles,    (* the torrents of the libtorrent session                     *)
  records,    (* self.records                                               *)
  moved,      (* storage_moved alerts not yet handled                       *)
  requests,   (* save_resume_data requests not yet answered, per torrent    *)
  answers,    (* blobs of the save_resume_data alerts not yet handled, per  *)
              (* torrent: nothing depends on the order between torrents     *)
  pending,    (* self._pending_resume_data                                  *)
  expected,   (* len(torrent_ids) in save_session                           *)
  files,      (* where the files of each torrent are                        *)
  diskRecords, diskBlobs, diskCopies,
  want,       (* history: the torrents the user has added and not removed   *)
  intact,     (* history: no crash and no failed write since the last start *)
  exact,      (* history: every blob of this closing was asked for and made *)
              (* after the last command, and none was missing               *)
  left,       (* history: which torrents were paused at the last clean end  *)
  stopped,    (* history: torrents stopped on completion and not resumed    *)
  told        (* history: torrents whose saved record is right and whose    *)
              (* resume data, as they now are, the panel has received       *)

live    == <<handles, records, moved, requests, answers, pending, expected>>
disk    == <<diskRecords, diskBlobs, diskCopies>>
history == <<want, intact, exact, left, stopped, told>>
vars    == <<phase, live, files, disk, history>>

Ids == DOMAIN handles

Partial(S, V) == UNION { [D -> V] : D \in SUBSET S }

TypeOK ==
  /\ phase \in Phases
  /\ handles \in Partial(Torrents, Handle)
  /\ records \in Partial(Torrents, Record)
  /\ moved \in SUBSET Torrents
  /\ requests \in [Torrents -> 0 .. MaxRequests + 1]
  /\ answers \in [Torrents \cup {NoId} -> Seq(Handle)]
  /\ pending \in Partial(Torrents \cup {NoId}, Handle)
  /\ expected \in 0 .. Cardinality(Torrents)
  /\ files \in [Torrents -> Folders]
  /\ diskRecords \in Partial(Torrents, Record)
  /\ diskBlobs \in Partial(Torrents, Handle \cup Broken)
  /\ diskCopies \in SUBSET Torrents
  /\ want \in SUBSET Torrents /\ left \in SUBSET Torrents
  /\ stopped \in SUBSET Torrents /\ told \in SUBSET Torrents
  /\ intact \in BOOLEAN /\ exact \in BOOLEAN

NoRequests == [t \in Torrents |-> 0]
NoAnswers  == [t \in Torrents \cup {NoId} |-> << >>]

(* The first start, with nothing saved yet. *)
Init ==
  /\ phase = "running"
  /\ handles = << >> /\ records = << >> /\ pending = << >>
  /\ moved = {} /\ requests = NoRequests /\ answers = NoAnswers /\ expected = 0
  /\ files \in [Torrents -> Folders]
  /\ diskRecords = << >> /\ diskBlobs = << >> /\ diskCopies = {}
  /\ want = {} /\ intact = TRUE /\ exact = TRUE /\ left = {} /\ stopped = {}
  /\ told = {}

With(f, t, v) == [x \in DOMAIN f \cup {t} |-> IF x = t THEN v ELSE f[x]]
Without(f, t) == Restrict(f, DOMAIN f \ {t})

(* Handlers of the GUI run while the process does, and also while           *)
(* save_session pumps the event loop for the last blobs.                    *)
Responsive == phase \in {"running", "waiting"}

(* A command given while save_session waits may come after the blob. *)
Commanded == exact' = (exact /\ phase = "running")

(* Outstanding requests and answers of t, and one more. *)
CanAsk(t) == requests[t] + Len(answers[t]) < MaxRequests
Asked(t) == requests' = [requests EXCEPT ![t] = @ + 1]

-----------------------------------------------------------------------------
(* The user's commands, as far as they touch what is saved.                 *)

(* add_torrent: the .torrent file is copied, nothing else is saved. *)
AddTorrent(t, d) ==
  /\ Responsive /\ t \notin Ids
  /\ handles' = With(handles, t, [save_path |-> d, paused |-> FALSE])
  /\ records' = With(records, t, [save_path |-> d])
  /\ diskCopies' = IF t \in Magnets THEN diskCopies ELSE diskCopies \cup {t}
  /\ files' = [files EXCEPT ![t] = d]
  /\ want' = want \cup {t}
  /\ Commanded
  /\ told' = told \ {t}
  /\ UNCHANGED <<phase, moved, requests, answers, pending, expected, diskRecords, diskBlobs,
                 intact, left, stopped>>

SetPaused(t, p) ==
  /\ Responsive /\ t \in Ids /\ handles[t].paused # p
  /\ handles' = [handles EXCEPT ![t].paused = p]
  /\ stopped' = IF p THEN stopped ELSE stopped \ {t}
  /\ Commanded
  /\ told' = told \ {t}
  /\ UNCHANGED <<phase, records, moved, requests, answers, pending, expected, files, disk,
                 want, intact, left>>

(* _enforce_stop_on_complete: resume data is asked for at once. *)
StopOnComplete(t) ==
  /\ Responsive /\ t \in Ids /\ ~handles[t].paused /\ CanAsk(t)
  /\ handles' = [handles EXCEPT ![t].paused = TRUE]
  /\ Asked(t)
  /\ stopped' = stopped \cup {t}
  /\ Commanded
  /\ told' = told \ {t}
  /\ UNCHANGED <<phase, records, moved, answers, pending, expected, files, disk,
                 want, intact, left>>

(* apply_properties saves the records. *)
ApplyProperties ==
  /\ Responsive /\ records # << >>
  /\ diskRecords' = records
  /\ UNCHANGED <<phase, live, files, diskBlobs, diskCopies, history>>

(* remove_torrent deletes the blob; the records are not saved.  Resume data *)
(* that is on its way carries no id any more.                               *)
RemoveTorrent(t) ==
  /\ Responsive /\ t \in Ids
  /\ handles' = Without(handles, t)
  /\ records' = Without(records, t)
  /\ diskBlobs' = Without(diskBlobs, t)
  /\ moved' = moved \ {t}
  /\ requests' = [requests EXCEPT ![t] = 0]
  /\ answers' = [answers EXCEPT ![t] = << >>, ![NoId] = @ \o answers[t]]
  /\ want' = want \ {t} /\ stopped' = stopped \ {t}
  /\ Commanded
  /\ told' = told \ {t}
  /\ UNCHANGED <<phase, pending, expected, files, diskRecords, diskCopies, intact, left>>

-----------------------------------------------------------------------------
(* libtorrent, and what the panel does with its alerts.                     *)

(* A move the user or move-on-complete started has ended. *)
LtMoved(t, d) ==
  /\ Responsive /\ t \in Ids /\ t \notin moved /\ handles[t].save_path # d
  /\ handles[t].save_path = files[t]
  /\ handles' = [handles EXCEPT ![t].save_path = d]
  /\ files' = [files EXCEPT ![t] = d]
  /\ moved' = moved \cup {t}
  /\ Commanded
  /\ told' = told \ {t}
  /\ UNCHANGED <<phase, records, requests, answers, pending, expected, disk,
                 want, intact, left, stopped>>

OnStorageMoved(t) ==
  /\ Responsive /\ t \in moved /\ CanAsk(t)
  /\ moved' = moved \ {t}
  /\ records' = [records EXCEPT ![t].save_path = handles[t].save_path]
  /\ diskRecords' = records'
  /\ Asked(t)
  /\ UNCHANGED <<phase, handles, answers, pending, expected, files, diskBlobs, diskCopies, history>>

(* The blob is what the torrent is when libtorrent makes it ... *)
LtResumeData(t) ==
  /\ Responsive /\ requests[t] > 0 /\ Len(answers[NoId]) < MaxRequests
  /\ requests' = [requests EXCEPT ![t] = @ - 1]
  /\ answers' = [answers EXCEPT ![t] = Append(@, handles[t])]
  /\ UNCHANGED <<phase, handles, records, moved, pending, expected, files, disk, history>>

(* ... if it can. *)
LtResumeDataFails(t) ==
  /\ Responsive /\ requests[t] > 0
  /\ requests' = [requests EXCEPT ![t] = @ - 1]
  /\ exact' = FALSE
  /\ UNCHANGED <<phase, handles, records, moved, answers, pending, expected, files, disk,
                 want, intact, left, stopped, told>>

OnResumeDataSaved(t) ==
  /\ Responsive /\ answers[t] # << >>
  /\ LET b == Head(answers[t])
     IN  /\ pending' = With(pending, t, b)
         /\ told' = IF /\ phase = "running" /\ t \in Ids /\ b = handles[t] /\ b.save_path = files[t]
                        /\ t \in DOMAIN diskRecords /\ diskRecords[t].save_path = b.save_path
                     THEN told \cup {t} ELSE told
  /\ answers' = [answers EXCEPT ![t] = Tail(@)]
  /\ UNCHANGED <<phase, handles, records, moved, requests, expected, files, disk,
                 want, intact, exact, left, stopped>>

-----------------------------------------------------------------------------
(* Closing and starting.                                                    *)

Quiet == requests = NoRequests /\ answers = NoAnswers

(* Mutant: what earlier requests brought is kept and counted. *)
CountsOldBlobs ==
  /\ phase = "running"
  /\ phase' = "waiting"
  /\ requests' = [t \in Torrents |-> IF t \in Ids THEN requests[t] + 1 ELSE requests[t]]
  /\ expected' = Cardinality(Ids)
  /\ exact' = Quiet
  /\ UNCHANGED <<pending, handles, records, moved, answers, files, disk, want, intact, left, stopped, told>>

(* save_session up to its wait *)
CloseEvent ==
  /\ phase = "running"
  /\ phase' = "waiting"
  /\ pending' = << >>
  /\ requests' = [t \in Torrents |-> IF t \in Ids THEN requests[t] + 1 ELSE requests[t]]
  /\ expected' = Cardinality(Ids)
  /\ exact' = Quiet
  /\ UNCHANGED <<handles, records, moved, answers, files, disk, want, intact, left, stopped, told>>

Complete == Cardinality(DOMAIN pending) >= expected

(* Mutant: the wait has no deadline. *)
WaitsForAll ==
  /\ phase = "waiting" /\ Complete
  /\ phase' = "writing"
  /\ exact' = exact
  /\ UNCHANGED <<live, files, disk, want, intact, left, stopped, told>>

(* Every blob is there, or RESUME_DATA_WAIT_SECONDS have passed. *)
WaitEnds ==
  /\ phase = "waiting"
  /\ phase' = "writing"
  /\ exact' = (exact /\ Complete)
  /\ UNCHANGED <<live, files, disk, want, intact, left, stopped, told>>

Written(t, blob) ==
  /\ phase = "writing" /\ t \in DOMAIN pending
  /\ pending' = Without(pending, t)
  /\ diskBlobs' = IF t = NoId THEN diskBlobs ELSE With(diskBlobs, t, blob)

(* save_resume_data truncates the old blob and writes the new one; ... *)
WriteBlob(t) ==
  /\ t \in DOMAIN pending
  /\ Written(t, pending[t])
  /\ UNCHANGED <<phase, handles, records, moved, requests, answers, expected, files,
                 diskRecords, diskCopies, history>>

(* ... a write that fails half-way is logged and leaves what it wrote.      *)
WriteBlobFails(t) ==
  /\ DiskFull
  /\ \E torn \in BOOLEAN : Written(t, [torn |-> torn])
  /\ intact' = FALSE
  /\ UNCHANGED <<phase, handles, records, moved, requests, answers, expected, files,
                 diskRecords, diskCopies, want, exact, left, stopped, told>>

Ended ==
  /\ phase' = "down"
  /\ handles' = << >> /\ records' = << >> /\ pending' = << >>
  /\ moved' = {} /\ requests' = NoRequests /\ answers' = NoAnswers /\ expected' = 0

(* Mutant: the records are left as a command last saved them. *)
LeavesRecords ==
  /\ phase = "writing" /\ pending = << >>
  /\ diskRecords' = diskRecords
  /\ left' = { t \in Ids : handles[t].paused }
  /\ stopped' = {} /\ told' = {}
  /\ Ended
  /\ UNCHANGED <<files, diskBlobs, diskCopies, want, intact, exact>>

(* The last write of save_session, and engine.stop. *)
SaveRecords ==
  /\ phase = "writing" /\ pending = << >>
  /\ diskRecords' = records
  /\ left' = { t \in Ids : handles[t].paused }
  /\ stopped' = {} /\ told' = {}
  /\ Ended
  /\ UNCHANGED <<files, diskBlobs, diskCopies, want, intact, exact>>

(* Killed: between two steps, or in the middle of writing a blob. *)
Crash ==
  /\ Crashes /\ phase # "down"
  /\ \/ UNCHANGED diskBlobs
     \/ \E t \in DOMAIN pending \ {NoId}, torn \in BOOLEAN :
          phase = "writing" /\ diskBlobs' = With(diskBlobs, t, [torn |-> torn])
  /\ intact' = FALSE
  /\ Ended
  /\ UNCHANGED <<files, diskRecords, diskCopies, want, exact, left, stopped, told>>

Blob(t) == IF t \in DOMAIN diskBlobs THEN diskBlobs[t] ELSE [torn |-> FALSE]

(* load_torrents: a blob that cannot be read drops the record; an empty or  *)
(* a missing one makes the torrent be added again from its source.          *)
Fails(t) == Blob(t) = [torn |-> TRUE]

FromBlob(t) == Blob(t) \in Handle
FromSource(t) == ~FromBlob(t) /\ (t \in Magnets \/ t \in diskCopies)

Restored == { t \in DOMAIN diskRecords : ~Fails(t) /\ (FromBlob(t) \/ FromSource(t)) }

LoadTorrents ==
  /\ phase = "down"
  /\ phase' = "running"
  /\ records' = Restrict(diskRecords, Restored)
  /\ handles' = [t \in Restored |->
                  IF FromBlob(t) THEN Blob(t)
                  ELSE [save_path |-> diskRecords[t].save_path, paused |-> FALSE]]
  /\ want' = IF intact THEN want ELSE Restored
  /\ intact' = TRUE /\ exact' = TRUE /\ left' = {}
  /\ UNCHANGED <<moved, requests, answers, pending, expected, files, disk, stopped, told>>

-----------------------------------------------------------------------------
Closing == CloseEvent \/ WaitEnds \/ SaveRecords
             \/ \E t \in DOMAIN pending : WriteBlob(t) \/ WriteBlobFails(t)

Command(t) ==
  \/ \E d \in Folders : AddTorrent(t, d)
  \/ \E p \in BOOLEAN : SetPaused(t, p)
  \/ StopOnComplete(t) \/ RemoveTorrent(t)

Events(t) ==
  \/ \E d \in Folders : LtMoved(t, d)
  \/ OnStorageMoved(t) \/ LtResumeData(t) \/ LtResumeDataFails(t)

Next ==
  \/ Closing \/ Crash \/ LoadTorrents
  \/ ApplyProperties
  \/ \E t \in Torrents \cup {NoId} : OnResumeDataSaved(t)
  \/ \E t \in Torrents : Command(t) \/ Events(t)

Spec == Init /\ [][Next]_vars

(* The wait of save_session has a deadline, and the writes after it are     *)
(* made one after the other.                                                *)
FairSpec == Spec /\ WF_vars(WaitEnds) /\ WF_vars(SaveRecords)
                 /\ WF_vars(\E t \in DOMAIN pending : WriteBlob(t) \/ WriteBlobFails(t))

-----------------------------------------------------------------------------
(* Properties.                                                              *)

(* After every clean end the list comes back as the user left it, torrents  *)
(* added or removed while the window was closing included, unless a blob on *)
(* disk is torn.                                                            *)
ListAsLeft ==
  phase = "running" /\ intact /\ (\A t \in DOMAIN diskBlobs : ~Fails(t)) => DOMAIN records = want

(* A torrent paused, or running, when the window was closed is so again     *)
(* after the restart, if libtorrent answered in time, the requests of       *)
(* before the closing included, and nothing was commanded after it began.   *)
PausesComeBack ==
  phase = "down" /\ phase' = "running" /\ intact /\ exact
    => \A t \in DOMAIN handles' : handles'[t].paused <=> t \in left

(* Closing the window ends, whatever libtorrent does. *)
CloseEnds == phase = "waiting" ~> phase = "down"

(* A torrent stopped on completion does not come back seeding after a       *)
(* crash, once the resume data asked for then has arrived (comment:         *)
(* "Persist promptly so a crash/kill can't bring it back seeding").         *)
StoppedStaysStopped == \A t \in stopped \cap told \cap Ids : handles[t].paused

(* Files that were moved are looked for where they are, after a crash too,  *)
(* once the resume data asked for then has arrived (comment: "resume data   *)
(* carries the path too").                                                  *)
MovedFilesFound == \A t \in told \cap Ids : handles[t].save_path = files[t]

(* A torrent with a saved record and a source to add it from comes back     *)
(* even if its resume data does not (TorrentRecord: "just enough for us to  *)
(* re-add it and rebuild the GUI row without needing libtorrent's resume    *)
(* data").                                                                  *)
RecordIsEnough ==
  [][phase = "down" /\ phase' = "running"
       => \A t \in DOMAIN diskRecords :
            t \in Magnets \cup diskCopies => t \in DOMAIN records']_vars
=============================================================================
