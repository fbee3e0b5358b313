---------------------------- MODULE TorrentPanel ----------------------------
(***************************************************************************)
(* The Torrents tab: TorrentPanel and TorrentEngine on the GUI thread, and *)
(* libtorrent, which runs on threads of its own and answers through a      *)
(* queue of alerts that TorrentEngine._poll empties twice a second.        *)
(*                                                                         *)
(* libtorrent is external: its actions (Lt...) are what the engine's and   *)
(* the panel's code and comments rely on.  A handle carries                *)
(*   state         what status().state and is_finished say                 *)
(*   paused, auto_managed   its flags                                      *)
(*   save_path     where libtorrent has the files                          *)
(*   moving        where they are being moved to, or Nowhere               *)
(*   ratio_met     whether the seed ratio of the record is reached         *)
(* What survives a restart is the subject of module TorrentSession.        *)
(***************************************************************************)
EXTENDS Integers, Sequences, FiniteSets, Functions

CONSTANTS
  Torrents,    (* info-hashes                                               *)
  Folders,     (* folders files may be saved in or moved to                 *)
  Nowhere,     (* None, where a folder is expected                          *)
  NoId,        (* what _info_hash_str makes of the handle of a torrent that *)
               (* has left the session                                      *)
  MaxAlerts,   (* bound: alerts libtorrent has posted and _poll not taken   *)
  SelectQueued (* whether files may be deselected while the torrent waits   *)
               (* for a download slot                                       *)

ASSUME NowhereAssumption == Nowhere \notin Folders
ASSUME NoIdAssumption    == NoId \notin Torrents
ASSUME AlertsAssumption  == MaxAlerts \in Nat \ {0}
ASSUME SelectAssumption  == SelectQueued \in BOOLEAN

(* torrent_status.states, the ones a torrent without a fault passes         *)
LtStates == { "checking", "downloading_metadata", "downloading", "finished" }

Handle == [ state : LtStates, paused : BOOLEAN, auto_managed : BOOLEAN,
            save_path : Folders, moving : Folders \cup {Nowhere}, ratio_met : BOOLEAN ]

(* TorrentRecord, the fields a decision reads *)
Record == [ save_path : Folders, keep_seeding : BOOLEAN, seed_ratio_limit : BOOLEAN ]

Alert == [ type : { "metadata_received", "state_changed", "torrent_finished",
                    "storage_moved", "storage_moved_failed" },
           id : Torrents \cup {NoId}, path : Folders \cup {Nowhere},
           fresh : BOOLEAN ]  (* history: the torrent finished a download   *)

VARIABLES
  handles,           (* engine.handles and what libtorrent keeps behind it  *)
  alerts,            (* alerts posted and not yet popped                    *)
  batch,             (* alerts _poll has popped and not yet handled         *)
  polling,           (* _poll is running: no other handler of the GUI is    *)
  records,           (* self.records                                        *)
  seen_downloading,  (* self._seen_downloading                              *)
  moves_pending,     (* self._moves_pending                                 *)
  stop_on_complete,  (* setting                                             *)
  move_completed,    (* setting move_completed_dir, or Nowhere              *)
  held,              (* history: torrents paused on purpose since they were *)
                     (* last resumed                                        *)
  fetched            (* history: torrents that downloaded, a magnet its     *)
                     (* metadata, in this session and have not finished     *)
                     (* since                                               *)

vars == <<handles, alerts, batch, polling, records, seen_downloading, moves_pending,
          stop_on_complete, move_completed, held, fetched>>

panel    == <<records, seen_downloading, moves_pending>>
settings == <<stop_on_complete, move_completed>>
history  == <<held, fetched>>

Ids == DOMAIN handles

(* A function of Torrents that is not defined everywhere. *)
Partial(S, V) == UNION { [D -> V] : D \in SUBSET S }

TypeOK ==
  /\ handles \in Partial(Torrents, Handle)
  /\ alerts \in Seq(Alert) /\ batch \in Seq(Alert)
  /\ polling \in BOOLEAN
  /\ records \in Partial(Torrents, Record)
  /\ seen_downloading \in SUBSET (Torrents \cup {NoId})
  /\ moves_pending \in Partial(Torrents, Folders)
  /\ stop_on_complete \in BOOLEAN
  /\ move_completed \in Folders \cup {Nowhere}
  /\ held \in SUBSET Torrents
  /\ fetched \in SUBSET Torrents

(* An empty list and any settings. *)
Init ==
  /\ handles = << >> /\ records = << >> /\ moves_pending = << >>
  /\ alerts = << >> /\ batch = << >> /\ polling = FALSE
  /\ seen_downloading = {}
  /\ stop_on_complete \in BOOLEAN
  /\ move_completed \in Folders \cup {Nowhere}
  /\ held = {} /\ fetched = {}

-----------------------------------------------------------------------------
(* What the engine does to a handle h.                                      *)

IsFinished(h) == h.state = "finished"

(* Mutant: pause() without leaving auto-management. *)
PlainPause(h) == [h EXCEPT !.paused = TRUE]

Paused(h)  == [h EXCEPT !.auto_managed = FALSE, !.paused = TRUE]
Resumed(h) == [h EXCEPT !.auto_managed = TRUE,  !.paused = FALSE]
Started(h) == [h EXCEPT !.auto_managed = FALSE, !.paused = FALSE]

is_queued(h) == h.paused /\ ~IsFinished(h) /\ h.auto_managed

(* force_recheck: a paused torrent is resumed first. *)
Rechecked(h) == [(IF h.paused THEN Resumed(h) ELSE h) EXCEPT !.state = "checking"]

(* state_from_status, shared by the rows and the API *)
state_from_status(h) ==
  IF h.paused
  THEN IF IsFinished(h) THEN "FINISHED" ELSE IF h.auto_managed THEN "QUEUED" ELSE "PAUSED"
  ELSE CASE h.state = "checking"             -> "CHECKING"
         [] h.state = "downloading_metadata" -> "DOWNLOADING_METADATA"
         [] h.state = "downloading"          -> "DOWNLOADING"
         [] h.state = "finished"             -> "SEEDING"

With(f, t, v) == [x \in DOMAIN f \cup {t} |-> IF x = t THEN v ELSE f[x]]
Without(f, t) == Restrict(f, DOMAIN f \ {t})

Idle == ~polling

NewHandle(start, d) ==
  [ state |-> start, paused |-> TRUE, auto_managed |-> TRUE, save_path |-> d,
    moving |-> Nowhere, ratio_met |-> FALSE ]

Posted(q, type, t, d) == Append(q, [type |-> type, id |-> t, path |-> d, fresh |-> FALSE])
Finish(t) ==
  /\ alerts' = Append(alerts, [type |-> "torrent_finished", id |-> t, path |-> Nowhere,
                               fresh |-> t \in fetched])
  /\ fetched' = fetched \ {t}
Room == Len(alerts) < MaxAlerts

-----------------------------------------------------------------------------
(* libtorrent.                                                              *)

(* The queue starts a torrent or makes it wait; a complete one is never     *)
(* made to wait (active_seeds is -1).  Only auto-managed torrents are its.  *)
LtQueue(t) ==
  /\ t \in Ids /\ handles[t].auto_managed
  /\ handles[t].paused \/ ~IsFinished(handles[t])
  /\ handles' = [handles EXCEPT ![t].paused = ~@]
  /\ UNCHANGED <<alerts, batch, polling, panel, settings, history>>

Runs(t, s) == t \in Ids /\ ~handles[t].paused /\ handles[t].state = s /\ Room

(* A magnet's metadata has arrived: its files are checked next. *)
LtMetadata(t) ==
  /\ Runs(t, "downloading_metadata")
  /\ handles' = [handles EXCEPT ![t].state = "checking"]
  /\ alerts' = Posted(alerts, "metadata_received", t, Nowhere)
  /\ UNCHANGED <<batch, polling, panel, settings, history>>

(* The files have been checked, and are complete or not. *)
LtChecked(t) ==
  /\ Runs(t, "checking")
  /\ \/ /\ handles' = [handles EXCEPT ![t].state = "finished"]
        /\ Finish(t)
     \/ /\ handles' = [handles EXCEPT ![t].state = "downloading"]
        /\ alerts' = Posted(alerts, "state_changed", t, Nowhere)
        /\ fetched' = fetched \cup {t}
  /\ UNCHANGED <<batch, polling, panel, settings, held>>

LtDownloaded(t) ==
  /\ Runs(t, "downloading")
  /\ handles' = [handles EXCEPT ![t].state = "finished"]
  /\ Finish(t)
  /\ UNCHANGED <<batch, polling, panel, settings, held>>

LtUploaded(t) ==
  /\ t \in Ids /\ ~handles[t].paused /\ IsFinished(handles[t])
  /\ handles' = [handles EXCEPT ![t].ratio_met = TRUE]
  /\ UNCHANGED <<alerts, batch, polling, panel, settings, history>>

(* A move ends, on libtorrent's disk thread, whether the torrent runs or    *)
(* not.                                                                     *)
LtMoved(t) ==
  /\ t \in Ids /\ handles[t].moving # Nowhere /\ Room
  /\ \/ /\ handles' = [handles EXCEPT ![t].save_path = handles[t].moving, ![t].moving = Nowhere]
        /\ alerts' = Posted(alerts, "storage_moved", t, handles[t].moving)
     \/ /\ handles' = [handles EXCEPT ![t].moving = Nowhere]
        /\ alerts' = Posted(alerts, "storage_moved_failed", t, Nowhere)
  /\ UNCHANGED <<batch, polling, panel, settings, history>>

-----------------------------------------------------------------------------
(* _poll: the alerts popped at once are handled in their order, then every  *)
(* handle's status is looked at.                                            *)

Poll ==
  /\ Idle
  /\ polling' = TRUE /\ batch' = alerts /\ alerts' = << >>
  /\ UNCHANGED <<handles, panel, settings, history>>

Handling(type) == polling /\ batch # << >> /\ Head(batch).type = type /\ batch' = Tail(batch)

(* on_metadata_received: the torrent is paused when it will not fit.        *)
OnMetadataReceived ==
  /\ Handling("metadata_received")
  /\ LET t == Head(batch).id
     IN  \/ UNCHANGED <<handles, held>>
         \/ /\ t \in Ids
            /\ handles' = [handles EXCEPT ![t] = Paused(@)]
            /\ held' = held \cup {t}
  /\ UNCHANGED <<alerts, polling, panel, settings, fetched>>

(* Mutant: the start of a download is noticed by the next status poll only. *)
NotOnAlert == Handling("state_changed") /\ UNCHANGED seen_downloading
                /\ UNCHANGED <<handles, alerts, polling, records, moves_pending, settings, history>>

OnDownloadStarted ==
  /\ Handling("state_changed")
  /\ seen_downloading' = seen_downloading \cup {Head(batch).id}
  /\ UNCHANGED <<handles, alerts, polling, records, moves_pending, settings, history>>

(* Mutant: the wish to keep seeding is not looked at. *)
StopsAllTheSame(t, rs, s) ==
  /\ s /\ t \in DOMAIN rs
  /\ t \in Ids /\ ~handles[t].paused /\ IsFinished(handles[t])

(* _enforce_stop_on_complete, with records rs and stop setting s *)
StopsOnComplete(t, rs, s) ==
  /\ s /\ t \in DOMAIN rs /\ ~rs[t].keep_seeding
  /\ t \in Ids /\ ~handles[t].paused /\ IsFinished(handles[t])

(* The handles once the torrents of S are paused. *)
Pausing(S) == [t \in Ids |-> IF t \in S THEN Paused(handles[t]) ELSE handles[t]]

(* move_torrents, up to the checks of the destination, which may refuse too *)
MayMove(t, d) ==
  /\ t \in DOMAIN records /\ t \in Ids
  /\ t \notin DOMAIN moves_pending
  /\ records[t].save_path # d

(* The end of move_torrents, from handles hs *)
Moving(t, d, hs) ==
  /\ moves_pending' = With(moves_pending, t, d)
  /\ handles' = [hs EXCEPT ![t].moving = d]

Refused(hs) == moves_pending' = moves_pending /\ handles' = hs

(* on_torrent_finished: stop on complete, then move on complete, which is   *)
(* for torrents seen downloading only.                                      *)
OnTorrentFinished ==
  /\ Handling("torrent_finished")
  /\ LET t     == Head(batch).id
         stops == { u \in {t} : StopsOnComplete(u, records, stop_on_complete) }
         moves == move_completed # Nowhere /\ t \in seen_downloading
     IN  /\ held' = held \cup stops
         /\ seen_downloading' = IF moves THEN seen_downloading \ {t} ELSE seen_downloading
         /\ \/ moves /\ MayMove(t, move_completed) /\ Moving(t, move_completed, Pausing(stops))
            \/ Refused(Pausing(stops))
  /\ UNCHANGED <<alerts, polling, records, settings, fetched>>

(* Mutant: the record keeps the folder the torrent was added with. *)
KeepsOldPath == Handling("storage_moved") /\ moves_pending' = Without(moves_pending, Head(batch).id)
                  /\ UNCHANGED <<handles, alerts, polling, records, seen_downloading, settings, history>>

OnStorageMoved ==
  /\ Handling("storage_moved")
  /\ LET t == Head(batch).id
     IN  /\ moves_pending' = Without(moves_pending, t)
         /\ records' = IF t \in DOMAIN records
                       THEN [records EXCEPT ![t].save_path = Head(batch).path] ELSE records
  /\ UNCHANGED <<handles, alerts, polling, seen_downloading, settings, history>>

OnStorageMoveFailed ==
  /\ Handling("storage_moved_failed")
  /\ moves_pending' = Without(moves_pending, Head(batch).id)
  /\ UNCHANGED <<handles, alerts, polling, records, seen_downloading, settings, history>>

(* _enforce_seed_ratio_limit *)
RatioReached(t) ==
  /\ t \in DOMAIN records /\ records[t].seed_ratio_limit
  /\ IsFinished(handles[t]) /\ handles[t].ratio_met /\ ~handles[t].paused

(* The end of _poll: progress_updated for every handle. *)
Progress ==
  /\ polling /\ batch = << >>
  /\ polling' = FALSE
  /\ LET over == { t \in Ids : RatioReached(t) }
     IN  handles' = Pausing(over) /\ held' = held \cup over
  /\ seen_downloading' = seen_downloading \cup
       { t \in Ids : state_from_status(handles[t]) \in {"DOWNLOADING", "DOWNLOADING_METADATA"} }
  /\ UNCHANGED <<alerts, batch, records, moves_pending, settings, fetched>>

-----------------------------------------------------------------------------
(* The user's commands, from the tab or through the API.                    *)

(* add_torrent, of a .torrent file or a magnet; a torrent already in the    *)
(* session stays as it is.  libtorrent adds a torrent paused, for its queue *)
(* to start, and says at once that a magnet waits for metadata.             *)
AddTorrent(t, d, ratio, magnet) ==
  /\ Idle /\ t \notin Ids /\ Room
  /\ handles' = With(handles, t, NewHandle(IF magnet THEN "downloading_metadata" ELSE "checking", d))
  /\ alerts' = IF magnet THEN Posted(alerts, "state_changed", t, Nowhere) ELSE alerts
  /\ records' = With(records, t, [save_path |-> d, keep_seeding |-> FALSE, seed_ratio_limit |-> ratio])
  /\ fetched' = IF magnet THEN fetched \cup {t} ELSE fetched
  /\ UNCHANGED <<batch, polling, seen_downloading, moves_pending, settings, held>>

PauseTorrent(t) ==
  /\ Idle /\ t \in Ids
  /\ handles' = Pausing({t})
  /\ held' = held \cup {t}
  /\ UNCHANGED <<alerts, batch, polling, panel, settings, fetched>>

(* resume_torrent: resuming a completed one asks for it to be seeded.       *)
ResumeTorrent(t) ==
  /\ Idle /\ t \in Ids
  /\ records' = IF t \in DOMAIN records /\ IsFinished(handles[t])
                THEN [records EXCEPT ![t].keep_seeding = TRUE] ELSE records
  /\ handles' = [handles EXCEPT ![t] = Resumed(@)]
  /\ held' = held \ {t}
  /\ UNCHANGED <<alerts, batch, polling, seen_downloading, moves_pending, settings, fetched>>

StartNow(t) ==
  /\ Idle /\ t \in Ids /\ is_queued(handles[t])
  /\ handles' = [handles EXCEPT ![t] = Started(@)]
  /\ UNCHANGED <<alerts, batch, polling, panel, settings, history>>

ForceRecheck(t) ==
  /\ Idle /\ t \in Ids
  /\ handles[t].state # "downloading_metadata"
  /\ handles' = [handles EXCEPT ![t] = Rechecked(@)]
  /\ held' = held \ {t}
  /\ UNCHANGED <<alerts, batch, polling, panel, settings, fetched>>

(* select_files_for_selected: what is wanted may now all be there, or no    *)
(* longer be, and libtorrent says so.                                       *)
SelectFiles(t) ==
  /\ Idle /\ t \in Ids /\ Room
  /\ \/ /\ handles[t].state = "downloading"
        /\ SelectQueued \/ ~is_queued(handles[t])
        /\ handles' = [handles EXCEPT ![t].state = "finished"]
        /\ Finish(t)
     \/ /\ handles[t].state = "finished"
        /\ handles' = [handles EXCEPT ![t].state = "downloading"]
        /\ alerts' = Posted(alerts, "state_changed", t, Nowhere)
        /\ fetched' = fetched \cup {t}
  /\ UNCHANGED <<batch, polling, panel, settings, held>>

MoveFiles(t, d) ==
  /\ Idle /\ MayMove(t, d)
  /\ Moving(t, d, handles)
  /\ UNCHANGED <<alerts, batch, polling, records, seen_downloading, settings, history>>

(* remove_torrent, of each selected one or of every completed one.  What    *)
(* libtorrent still has to say of them carries no id any more.              *)
RemoveTorrents(S) ==
  /\ Idle /\ S # {} /\ S \subseteq Ids
  /\ handles' = Restrict(handles, Ids \ S)
  /\ records' = Restrict(records, DOMAIN records \ S)
  /\ alerts' = [i \in DOMAIN alerts |->
                 IF alerts[i].id \in S THEN [alerts[i] EXCEPT !.id = NoId] ELSE alerts[i]]
  /\ held' = held \ S
  /\ fetched' = fetched \ (S \ seen_downloading)
  /\ UNCHANGED <<batch, polling, seen_downloading, moves_pending, settings>>

(* apply_properties: taking the wish to keep seeding back stops a torrent   *)
(* that is seeding now.                                                     *)
ApplyProperties(t, keep, ratio) ==
  /\ Idle /\ t \in DOMAIN records
  /\ records' = [records EXCEPT ![t].keep_seeding = keep, ![t].seed_ratio_limit = ratio]
  /\ LET stops == { u \in {t} : StopsOnComplete(u, records', stop_on_complete) }
     IN  handles' = Pausing(stops) /\ held' = held \cup stops
  /\ UNCHANGED <<alerts, batch, polling, seen_downloading, moves_pending, settings, fetched>>

(* Mutant: the setting is for the torrents that complete from now on. *)
OnlyFromNowOn(on) ==
  /\ Idle /\ stop_on_complete' = on
  /\ UNCHANGED <<handles, held, alerts, batch, polling, panel, move_completed, fetched>>

(* set_stop_on_complete: turning it on stops what is seeding already.       *)
SetStopOnComplete(on) ==
  /\ Idle
  /\ stop_on_complete' = on
  /\ LET stops == { t \in DOMAIN records : StopsOnComplete(t, records, on) }
     IN  handles' = Pausing(stops) /\ held' = held \cup stops
  /\ UNCHANGED <<alerts, batch, polling, panel, move_completed, fetched>>

SetMoveCompleted(d) ==
  /\ Idle
  /\ move_completed' = d
  /\ UNCHANGED <<handles, alerts, batch, polling, panel, stop_on_complete, history>>

-----------------------------------------------------------------------------
PollStep == Poll \/ OnMetadataReceived \/ OnDownloadStarted \/ OnTorrentFinished
              \/ OnStorageMoved \/ OnStorageMoveFailed \/ Progress

LtStep(t) == LtQueue(t) \/ LtMetadata(t) \/ LtChecked(t) \/ LtDownloaded(t) \/ LtUploaded(t)
               \/ LtMoved(t)

Command(t) ==
  \/ \E d \in Folders, ratio, magnet \in BOOLEAN : AddTorrent(t, d, ratio, magnet)
  \/ PauseTorrent(t) \/ ResumeTorrent(t) \/ StartNow(t) \/ ForceRecheck(t) \/ SelectFiles(t)
  \/ \E d \in Folders : MoveFiles(t, d)
  \/ \E keep, ratio \in BOOLEAN : ApplyProperties(t, keep, ratio)

Next ==
  \/ PollStep
  \/ \E t \in Torrents : LtStep(t) \/ Command(t)
  \/ \E S \in SUBSET Torrents : RemoveTorrents(S)
  \/ \E on \in BOOLEAN : SetStopOnComplete(on)
  \/ \E d \in Folders \cup {Nowhere} : SetMoveCompleted(d)

Spec == Init /\ [][Next]_vars

(* The GUI's event loop runs: the poll timer fires and _poll comes to its   *)
(* end.  Nothing is assumed of libtorrent or of the user.                   *)
FairSpec == Spec /\ WF_vars(PollStep)

-----------------------------------------------------------------------------
(* Properties.                                                              *)

(* A torrent paused on purpose -- by the user, for lack of space, at its    *)
(* seed ratio or on completion -- stays paused until it is resumed or       *)
(* rechecked, whatever libtorrent's queue does; and no other torrent shows  *)
(* as Paused (engine.pause: "A pause the user asked for must first take the *)
(* torrent out of auto-management so it actually sticks").                  *)
PauseExact ==
  \A t \in Ids : t \in held <=> handles[t].paused /\ ~handles[t].auto_managed

Outstanding(t, type) ==
  \/ \E i \in DOMAIN alerts : alerts[i].id = t /\ alerts[i].type = type
  \/ \E i \in DOMAIN batch : batch[i].id = t /\ batch[i].type = type

(* Of a torrent whose files libtorrent is moving, the panel knows, so that  *)
(* no second move is started under the first.                               *)
MovesKnown ==
  \A t \in Ids : handles[t].moving # Nowhere
    => t \in DOMAIN moves_pending /\ moves_pending[t] = handles[t].moving

(* Once a move has been reported, the record names the folder the files     *)
(* are in.                                                                  *)
RecordFollowsFiles ==
  \A t \in Ids \cap DOMAIN records :
    Outstanding(t, "storage_moved") \/ records[t].save_path = handles[t].save_path

(* A torrent that has finished a download was seen downloading when its     *)
(* completion is handled, even if both fell between two polls, so that      *)
(* move-on-complete applies to it (engine.download_started: "reported -- in *)
(* order, before its torrent_finished").                                    *)
SeenBeforeFinished ==
  batch # << >> /\ Head(batch).type = "torrent_finished" /\ Head(batch).fresh
    => Head(batch).id \in seen_downloading \cup {NoId}

SeedsUnasked(t) ==
  /\ stop_on_complete /\ t \in DOMAIN records /\ ~records[t].keep_seeding
  /\ t \in Ids /\ IsFinished(handles[t]) /\ ~handles[t].paused

(* With "stop on complete" on, a complete torrent does not go on seeding    *)
(* unless the user asked for it.                                            *)
CompletedStops == \A t \in Torrents : SeedsUnasked(t) ~> ~SeedsUnasked(t)

PastRatio(t) ==
  /\ t \in Ids /\ handles[t].ratio_met /\ IsFinished(handles[t]) /\ ~handles[t].paused
  /\ t \in DOMAIN records /\ records[t].seed_ratio_limit

(* A torrent past its seed ratio does not go on seeding, whoever asked for  *)
(* it ("a lowered ratio limit is enforced on the next status poll").        *)
RatioStops == \A t \in Torrents : PastRatio(t) ~> ~PastRatio(t)

(* A complete torrent the user asked to seed is stopped by the user, by its *)
(* seed ratio or by the space check of its metadata, and never because it   *)
(* is complete (record.keep_seeding: "a deliberate choice to seed is never  *)
(* overridden by the global setting").                                      *)
AskedToSeedSeeds ==
  [][\A t \in Ids \cap DOMAIN handles' \cap DOMAIN records \cap DOMAIN records' :
       /\ IsFinished(handles[t]) /\ ~handles[t].paused /\ handles'[t].paused
       /\ records[t].keep_seeding /\ records'[t].keep_seeding
       => PauseTorrent(t) \/ PastRatio(t) \/ OnMetadataReceived]_vars

(* A move on completion follows a download of this session; a recheck that  *)
(* finds the files complete leaves them where they are.                     *)
AutoMoveOnlyAfterDownload ==
  [][batch # << >> /\ Head(batch).type = "torrent_finished" /\ moves_pending' # moves_pending
       => Head(batch).fresh]_vars

(* A move is refused as "already moving" only while one is going on.        *)
AlreadyMovingIsMoving ==
  \A t \in Ids \cap DOMAIN moves_pending :
    \/ handles[t].moving # Nowhere
    \/ Outstanding(t, "storage_moved") \/ Outstanding(t, "storage_moved_failed")
=============================================================================
