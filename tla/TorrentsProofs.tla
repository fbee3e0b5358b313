---------------------------- MODULE TorrentsProofs ----------------------------
(***************************************************************************)
(* Theorems about the Torrents tab and about what it saves, for any set of *)
(* torrents and folders and any number of alerts.  Nothing is assumed of   *)
(* libtorrent beyond the Lt actions.                                       *)
(***************************************************************************)
EXTENDS MCTorrents, FiniteSetTheorems, SequenceTheorems, TLAPS

Known == /\ handles \in Partial(Torrents, Handle)
         /\ move_completed \in Folders \cup {Nowhere}

(* Of torrents that are gone nothing is remembered as paused. *)
PauseInv == Known /\ held \subseteq Ids /\ PauseExact

LEMMA KnownMeans ==
  ASSUME NEW f
  PROVE  f \in Partial(Torrents, Handle) <=>
           DOMAIN f \subseteq Torrents /\ f \in [DOMAIN f -> Handle]
BY DEF Partial

(* Replacing the handle of t by g. *)
LEMMA ReplaceKeeps ==
  ASSUME Known, NEW t \in Ids, NEW g \in Handle
  PROVE  [handles EXCEPT ![t] = g] \in Partial(Torrents, Handle)
<1> DEFINE h == [handles EXCEPT ![t] = g]
<1>1. DOMAIN handles \subseteq Torrents /\ handles \in [DOMAIN handles -> Handle]
  BY KnownMeans DEF Known
<1>2. DOMAIN h = DOMAIN handles /\ h \in [DOMAIN handles -> Handle]
  BY <1>1 DEF Ids
<1> HIDE DEF h
<1>3. h \in Partial(Torrents, Handle)
  BY <1>1, <1>2, KnownMeans
<1> QED BY <1>3 DEF h

LEMMA PausedType ==
  ASSUME NEW h \in Handle
  PROVE  /\ Paused(h) \in Handle /\ Paused(h).paused /\ ~Paused(h).auto_managed
         /\ Resumed(h) \in Handle /\ Resumed(h).auto_managed
         /\ Started(h) \in Handle /\ ~Started(h).paused
BY DEF Handle, Paused, Resumed, Started

LEMMA RecheckedType ==
  ASSUME NEW h \in Handle
  PROVE  Rechecked(h) \in Handle /\ ~Rechecked(h).paused
BY DEF Handle, Rechecked, Resumed, LtStates

(* Pausing some torrents touches no others. *)
LEMMA PausingType ==
  ASSUME Known, NEW S
  PROVE  /\ Pausing(S) \in Partial(Torrents, Handle) /\ DOMAIN Pausing(S) = Ids
         /\ \A t \in Ids : Pausing(S)[t] = IF t \in S THEN Paused(handles[t]) ELSE handles[t]
<1>1. DOMAIN handles \subseteq Torrents /\ handles \in [DOMAIN handles -> Handle]
  BY KnownMeans DEF Known
<1>2. \A t \in Ids : Paused(handles[t]) \in Handle
  BY <1>1, PausedType DEF Ids
<1>3. DOMAIN Pausing(S) = Ids /\ Pausing(S) \in [Ids -> Handle]
  BY <1>1, <1>2 DEF Pausing, Ids
<1>4. Pausing(S) \in Partial(Torrents, Handle)
  BY <1>1, <1>3, KnownMeans DEF Ids
<1> QED BY <1>3, <1>4 DEF Pausing

(* Pausing S on purpose, and noting that. *)
LEMMA PausingHolds ==
  ASSUME PauseInv, NEW S, S \subseteq Ids, NEW hs, hs = Pausing(S),
         DOMAIN handles' = Ids, held' = held \cup S,
         \A t \in Ids : /\ handles'[t].paused = hs[t].paused
                        /\ handles'[t].auto_managed = hs[t].auto_managed
  PROVE  held' \subseteq Ids' /\ PauseExact'
<1>1. handles \in [Ids -> Handle]
  BY KnownMeans DEF PauseInv, Known, Ids
<1>2. ASSUME NEW t \in Ids
      PROVE  t \in held' <=> handles'[t].paused /\ ~handles'[t].auto_managed
  <2>1. hs[t] = IF t \in S THEN Paused(handles[t]) ELSE handles[t]
    BY PausingType DEF PauseInv
  <2>2. Paused(handles[t]).paused /\ ~Paused(handles[t]).auto_managed
    BY <1>1, PausedType
  <2>3. CASE t \in S
    BY <2>1, <2>2, <2>3
  <2>4. CASE t \notin S
    BY <2>1, <2>4 DEF PauseInv, PauseExact
  <2> QED BY <2>3, <2>4
<1> QED BY <1>2 DEF PauseExact, Ids, PauseInv

(* One handle changes, the others do not.                                   *)
LEMMA OneChanges ==
  ASSUME PauseInv, NEW t \in Ids, NEW g \in Handle, handles' = [handles EXCEPT ![t] = g],
         UNCHANGED move_completed,
         held' \in {held, held \cup {t}, held \ {t}},
         t \in held' <=> g.paused /\ ~g.auto_managed
  PROVE  PauseInv'
<1>1. handles' \in Partial(Torrents, Handle)
  BY ReplaceKeeps DEF PauseInv
<1>2. handles \in [Ids -> Handle]
  BY KnownMeans DEF PauseInv, Known, Ids
<1>3. Ids' = Ids /\ handles'[t] = g /\ \A u \in Ids \ {t} : handles'[u] = handles[u]
  BY <1>2 DEF Ids
<1>4. PauseExact'
  BY <1>3 DEF PauseInv, PauseExact
<1> QED BY <1>1, <1>3, <1>4 DEF PauseInv, Known

LEMMA LtKeeps ==
  ASSUME PauseInv, NEW t \in Torrents, LtStep(t)
  PROVE  PauseInv'
<1>1. handles \in [Ids -> Handle] /\ held' = held /\ UNCHANGED move_completed
  BY KnownMeans DEF PauseInv, Known, Ids, LtStep, LtQueue, LtMetadata, LtChecked, LtDownloaded,
                    LtUploaded, LtMoved, history, settings, Finish
<1>2. t \in Ids
  BY DEF LtStep, LtQueue, LtMetadata, LtChecked, LtDownloaded, LtUploaded, LtMoved, Runs
<1>3. handles[t] \in Handle /\ (t \in held <=> handles[t].paused /\ ~handles[t].auto_managed)
  BY <1>1, <1>2 DEF PauseInv, PauseExact
<1>4. CASE LtQueue(t)
  <2> DEFINE g == [handles[t] EXCEPT !.paused = ~@]
  <2>1. g \in Handle /\ g.auto_managed /\ handles[t].auto_managed
    BY <1>3, <1>4 DEF LtQueue, Handle
  <2>2. handles' = [handles EXCEPT ![t] = g]
    BY <1>1, <1>2, <1>3, <1>4 DEF LtQueue, Handle
  <2> QED BY <1>1, <1>2, <1>3, <2>1, <2>2, OneChanges
<1>5. ASSUME NEW g \in Handle, handles' = [handles EXCEPT ![t] = g],
             g.paused = handles[t].paused, g.auto_managed = handles[t].auto_managed
      PROVE  PauseInv'
  BY <1>1, <1>2, <1>3, <1>5, OneChanges
<1>6. CASE LtMetadata(t) \/ LtChecked(t) \/ LtDownloaded(t)
  <2>1. PICK s \in LtStates : handles' = [handles EXCEPT ![t].state = s]
    BY <1>6 DEF LtMetadata, LtChecked, LtDownloaded, LtStates
  <2> DEFINE g == [handles[t] EXCEPT !.state = s]
  <2>2. g \in Handle /\ g.paused = handles[t].paused /\ g.auto_managed = handles[t].auto_managed
    BY <1>3 DEF Handle
  <2> QED BY <1>1, <1>2, <1>5, <2>1, <2>2
<1>7. CASE LtUploaded(t)
  <2> DEFINE g == [handles[t] EXCEPT !.ratio_met = TRUE]
  <2>1. g \in Handle /\ g.paused = handles[t].paused /\ g.auto_managed = handles[t].auto_managed
    BY <1>3 DEF Handle
  <2>2. handles' = [handles EXCEPT ![t] = g]
    BY <1>1, <1>2, <1>7 DEF LtUploaded
  <2> QED BY <1>5, <2>1, <2>2
<1>8. CASE LtMoved(t)
  <2>1. PICK p \in {handles[t].save_path, handles[t].moving} :
          /\ handles[t].moving # Nowhere
          /\ handles' = [handles EXCEPT ![t] = [@ EXCEPT !.save_path = p, !.moving = Nowhere]]
    <3>1. CASE handles' = [handles EXCEPT ![t].save_path = handles[t].moving, ![t].moving = Nowhere]
      BY <1>1, <1>2, <1>8, <3>1 DEF LtMoved
    <3>2. CASE handles' = [handles EXCEPT ![t].moving = Nowhere]
      BY <1>1, <1>2, <1>3, <1>8, <3>2 DEF LtMoved, Handle
    <3> QED BY <1>8, <3>1, <3>2 DEF LtMoved
  <2> DEFINE g == [handles[t] EXCEPT !.save_path = p, !.moving = Nowhere]
  <2>2. g \in Handle /\ g.paused = handles[t].paused /\ g.auto_managed = handles[t].auto_managed
    BY <1>3, <2>1 DEF Handle
  <2>3. handles' = [handles EXCEPT ![t] = g]
    BY <1>1, <1>2, <2>1
  <2> QED BY <1>5, <2>2, <2>3
<1> QED BY <1>4, <1>6, <1>7, <1>8 DEF LtStep

(* The rows of a restricted list. *)
LEMMA RestrictKeeps ==
  ASSUME Known, NEW S
  PROVE  /\ Restrict(handles, Ids \ S) \in Partial(Torrents, Handle)
         /\ DOMAIN Restrict(handles, Ids \ S) = Ids \ S
         /\ \A t \in Ids \ S : Restrict(handles, Ids \ S)[t] = handles[t]
<1> DEFINE h == Restrict(handles, Ids \ S)
<1>1. DOMAIN handles \subseteq Torrents /\ handles \in [DOMAIN handles -> Handle]
  BY KnownMeans DEF Known
<1>2. DOMAIN h = Ids \ S /\ \A t \in Ids \ S : h[t] = handles[t]
  BY DEF Restrict
<1>3. DOMAIN h \subseteq Torrents /\ h \in [DOMAIN h -> Handle]
  BY <1>1, <1>2 DEF Restrict, Ids
<1>4. h \in Partial(Torrents, Handle)
  <2> HIDE DEF h
  <2> QED BY <1>3, KnownMeans
<1> QED BY <1>2, <1>4

(* What stays as it is, as far as pauses are concerned. *)
LEMMA PauseSame ==
  ASSUME PauseInv, UNCHANGED <<handles, held>>, move_completed' \in Folders \cup {Nowhere}
  PROVE  PauseInv'
BY DEF PauseInv, PauseExact, Known, Ids

LEMMA PollKeeps ==
  ASSUME PauseInv, PollStep
  PROVE  PauseInv'
<1> USE DEF panel, settings, history
<1>1. handles \in [Ids -> Handle] /\ move_completed \in Folders \cup {Nowhere}
  BY KnownMeans DEF PauseInv, Known, Ids
<1>2. move_completed' = move_completed
  BY DEF PollStep, Poll, OnMetadataReceived, OnDownloadStarted, OnTorrentFinished,
         OnStorageMoved, OnStorageMoveFailed, Progress
<1>3. CASE Poll \/ OnDownloadStarted \/ OnStorageMoved \/ OnStorageMoveFailed
  BY <1>1, <1>2, <1>3, PauseSame
     DEF Poll, OnDownloadStarted, OnStorageMoved, OnStorageMoveFailed
<1>4. CASE OnMetadataReceived
  <2>1. CASE UNCHANGED <<handles, held>>
    BY <1>1, <1>2, <2>1, PauseSame
  <2>2. CASE \E t \in Ids : /\ handles' = [handles EXCEPT ![t] = Paused(@)]
                            /\ held' = held \cup {t}
    <3>1. PICK t \in Ids : /\ handles' = [handles EXCEPT ![t] = Paused(handles[t])]
                           /\ held' = held \cup {t}
      BY <1>1, <2>2
    <3> QED BY <1>1, <1>2, <3>1, PausedType, OneChanges
  <2> QED BY <1>4, <2>1, <2>2 DEF OnMetadataReceived
<1>5. CASE OnTorrentFinished
  <2> DEFINE t == Head(batch).id
             stops == { u \in {t} : StopsOnComplete(u, records, stop_on_complete) }
             hs == Pausing(stops)
  <2>1. stops \subseteq Ids
    BY DEF StopsOnComplete
  <2>2. /\ held' = held \cup stops
        /\ \/ handles' = hs
           \/ /\ MayMove(t, move_completed) /\ move_completed # Nowhere
              /\ handles' = [hs EXCEPT ![t].moving = move_completed]
    BY <1>5 DEF OnTorrentFinished, Moving, Refused
  <2> HIDE DEF stops
  <2>3. hs \in Partial(Torrents, Handle) /\ DOMAIN hs = Ids
    BY PausingType DEF PauseInv
  <2>4. hs \in [Ids -> Handle] /\ Ids \subseteq Torrents
    BY <2>3, KnownMeans
  <2> HIDE DEF hs, t
  <2>5. /\ handles' \in [Ids -> Handle]
        /\ \A u \in Ids : /\ handles'[u].paused = hs[u].paused
                          /\ handles'[u].auto_managed = hs[u].auto_managed
    <3>1. CASE handles' = hs
      BY <2>4, <3>1
    <3>2. CASE /\ MayMove(t, move_completed) /\ move_completed # Nowhere
               /\ handles' = [hs EXCEPT ![t].moving = move_completed]
      <4> DEFINE g == [hs[t] EXCEPT !.moving = move_completed]
      <4>1. t \in Ids
        BY <3>2 DEF MayMove
      <4>2. g \in Handle /\ g.paused = hs[t].paused /\ g.auto_managed = hs[t].auto_managed
        BY <1>1, <2>4, <4>1 DEF Handle
      <4>3. handles' = [hs EXCEPT ![t] = g]
        BY <2>4, <3>2, <4>1
      <4> QED BY <2>4, <4>1, <4>2, <4>3
    <3> QED BY <2>2, <3>1, <3>2
  <2>6. held' \subseteq Ids' /\ PauseExact'
    BY <2>1, <2>2, <2>5, PausingHolds DEF hs
  <2>7. DOMAIN handles' = Ids /\ handles' \in Partial(Torrents, Handle)
    <3>1. DOMAIN handles' = Ids
      BY <2>5
    <3>2. handles' \in [DOMAIN handles' -> Handle]
      BY <2>5, <3>1
    <3> QED BY <2>4, <3>1, <3>2, KnownMeans
  <2> QED BY <1>1, <1>2, <2>6, <2>7 DEF PauseInv, Known
<1>6. CASE Progress
  <2> DEFINE over == { t \in Ids : RatioReached(t) }
  <2>1. handles' = Pausing(over) /\ held' = held \cup over /\ over \subseteq Ids
    BY <1>6 DEF Progress
  <2> HIDE DEF over
  <2>2. held' \subseteq Ids' /\ PauseExact'
    BY <2>1, PausingType, PausingHolds DEF PauseInv
  <2> QED BY <1>1, <1>2, <2>1, <2>2, PausingType DEF PauseInv, Known
<1> QED BY <1>3, <1>4, <1>5, <1>6 DEF PollStep

LEMMA CommandKeeps ==
  ASSUME PauseInv, NEW t \in Torrents, Command(t)
  PROVE  PauseInv'
<1> USE DEF panel, settings, history
<1>1. /\ handles \in [Ids -> Handle] /\ Ids \subseteq Torrents
      /\ move_completed \in Folders \cup {Nowhere}
  BY KnownMeans DEF PauseInv, Known, Ids
<1>2. ASSUME NEW g \in Handle, t \in Ids, handles' = [handles EXCEPT ![t] = g],
             UNCHANGED <<held, move_completed>>,
             g.paused = handles[t].paused, g.auto_managed = handles[t].auto_managed
      PROVE  PauseInv'
  BY <1>2, OneChanges DEF PauseInv, PauseExact
<1>3. CASE \E d \in Folders, ratio, magnet \in BOOLEAN : AddTorrent(t, d, ratio, magnet)
  <2>1. PICK d \in Folders, magnet \in BOOLEAN :
          /\ t \notin Ids
          /\ handles' = With(handles, t, NewHandle(IF magnet THEN "downloading_metadata"
                                                   ELSE "checking", d))
          /\ UNCHANGED <<held, move_completed>>
    BY <1>3 DEF AddTorrent
  <2> DEFINE g == NewHandle(IF magnet THEN "downloading_metadata" ELSE "checking", d)
  <2>2. g \in Handle /\ g.auto_managed
    BY DEF NewHandle, Handle, LtStates
  <2> HIDE DEF g
  <2>3. /\ DOMAIN handles' = Ids \cup {t} /\ handles'[t] = g
        /\ \A u \in Ids : handles'[u] = handles[u]
    BY <2>1 DEF With, Ids, g
  <2>4. handles' \in [DOMAIN handles' -> Handle]
    BY <1>1, <2>1, <2>2, <2>3 DEF With, Ids, g
  <2>5. handles' \in Partial(Torrents, Handle)
    BY <1>1, <2>3, <2>4, KnownMeans
  <2>6. held' \subseteq Ids' /\ PauseExact'
    BY <2>1, <2>2, <2>3 DEF PauseInv, PauseExact, Ids
  <2> QED BY <1>1, <2>1, <2>5, <2>6 DEF PauseInv, Known
<1>4. CASE PauseTorrent(t)
  <2>1. /\ t \in Ids /\ handles' = Pausing({t}) /\ held' = held \cup {t}
        /\ UNCHANGED move_completed
    BY <1>4 DEF PauseTorrent
  <2>2. held' \subseteq Ids' /\ PauseExact'
    BY <2>1, PausingType, PausingHolds DEF PauseInv
  <2> QED BY <1>1, <2>1, <2>2, PausingType DEF PauseInv, Known
<1>5. CASE ResumeTorrent(t)
  BY <1>1, <1>5, PausedType, OneChanges DEF ResumeTorrent
<1>6. CASE StartNow(t)
  <2>1. /\ t \in Ids /\ handles[t].auto_managed
        /\ handles' = [handles EXCEPT ![t] = Started(handles[t])]
        /\ UNCHANGED <<held, move_completed>>
    BY <1>6 DEF StartNow, is_queued
  <2>2. t \notin held
    BY <2>1 DEF PauseInv, PauseExact
  <2> QED BY <1>1, <2>1, <2>2, PausedType, OneChanges
<1>7. CASE ForceRecheck(t)
  BY <1>1, <1>7, RecheckedType, OneChanges DEF ForceRecheck
<1>8. CASE SelectFiles(t)
  <2>1. PICK s \in LtStates : handles' = [handles EXCEPT ![t].state = s]
    BY <1>8 DEF SelectFiles, LtStates
  <2>2. t \in Ids /\ UNCHANGED <<held, move_completed>>
    BY <1>8 DEF SelectFiles, Finish
  <2> DEFINE g == [handles[t] EXCEPT !.state = s]
  <2>3. g \in Handle /\ g.paused = handles[t].paused /\ g.auto_managed = handles[t].auto_managed
    BY <1>1, <2>2 DEF Handle
  <2> QED BY <1>1, <1>2, <2>1, <2>2, <2>3
<1>9. CASE \E d \in Folders : MoveFiles(t, d)
  <2>1. PICK d \in Folders : /\ t \in Ids /\ handles' = [handles EXCEPT ![t].moving = d]
                             /\ UNCHANGED <<held, move_completed>>
    BY <1>9 DEF MoveFiles, MayMove, Moving
  <2> DEFINE g == [handles[t] EXCEPT !.moving = d]
  <2>2. g \in Handle /\ g.paused = handles[t].paused /\ g.auto_managed = handles[t].auto_managed
    BY <1>1, <2>1 DEF Handle
  <2> QED BY <1>1, <1>2, <2>1, <2>2
<1>10. CASE \E keep, ratio \in BOOLEAN : ApplyProperties(t, keep, ratio)
  <2> DEFINE stops == { u \in {t} : StopsOnComplete(u, records', stop_on_complete) }
  <2>1. handles' = Pausing(stops) /\ held' = held \cup stops /\ UNCHANGED move_completed
    BY <1>10 DEF ApplyProperties
  <2>2. stops \subseteq Ids
    BY DEF StopsOnComplete
  <2> HIDE DEF stops
  <2>3. held' \subseteq Ids' /\ PauseExact'
    BY <2>1, <2>2, PausingType, PausingHolds DEF PauseInv
  <2> QED BY <1>1, <2>1, <2>3, PausingType DEF PauseInv, Known
<1> QED BY <1>3, <1>4, <1>5, <1>6, <1>7, <1>8, <1>9, <1>10 DEF Command

LEMMA PauseInit == ASSUME Init PROVE PauseInv
<1>1. DOMAIN handles = {} /\ handles \in [{} -> Handle]
  BY DEF Init
<1>2. handles \in Partial(Torrents, Handle)
  BY <1>1, KnownMeans
<1> QED BY <1>1, <1>2 DEF Init, PauseInv, Known, PauseExact, Ids

LEMMA PauseNext ==
  ASSUME PauseInv, [Next]_vars
  PROVE  PauseInv'
<1> USE DEF panel, settings, history
<1>1. move_completed \in Folders \cup {Nowhere}
  BY DEF PauseInv, Known
<1>2. CASE PollStep
  BY <1>2, PollKeeps
<1>3. ASSUME NEW t \in Torrents, LtStep(t) \/ Command(t) PROVE PauseInv'
  BY <1>3, LtKeeps, CommandKeeps
<1>4. ASSUME NEW S \in SUBSET Torrents, RemoveTorrents(S) PROVE PauseInv'
  <2>1. /\ handles' = Restrict(handles, Ids \ S) /\ held' = held \ S
        /\ UNCHANGED move_completed
    BY <1>4 DEF RemoveTorrents
  <2>2. /\ handles' \in Partial(Torrents, Handle) /\ DOMAIN handles' = Ids \ S
        /\ \A t \in Ids \ S : handles'[t] = handles[t]
    BY <2>1, RestrictKeeps DEF PauseInv
  <2>3. held' \subseteq Ids' /\ PauseExact'
    BY <2>1, <2>2 DEF PauseInv, PauseExact, Ids
  <2> QED BY <1>1, <2>1, <2>2, <2>3 DEF PauseInv, Known
<1>5. ASSUME NEW on \in BOOLEAN, SetStopOnComplete(on) PROVE PauseInv'
  <2> DEFINE stops == { t \in DOMAIN records : StopsOnComplete(t, records, on) }
  <2>1. handles' = Pausing(stops) /\ held' = held \cup stops /\ UNCHANGED move_completed
    BY <1>5 DEF SetStopOnComplete
  <2>2. stops \subseteq Ids
    BY DEF StopsOnComplete
  <2> HIDE DEF stops
  <2>3. held' \subseteq Ids' /\ PauseExact'
    BY <2>1, <2>2, PausingType, PausingHolds DEF PauseInv
  <2> QED BY <1>1, <2>1, <2>3, PausingType DEF PauseInv, Known
<1>6. ASSUME NEW d \in Folders \cup {Nowhere}, SetMoveCompleted(d) PROVE PauseInv'
  BY <1>6, PauseSame DEF SetMoveCompleted
<1>7. CASE UNCHANGED vars
  BY <1>1, <1>7, PauseSame DEF vars
<1> QED BY <1>2, <1>3, <1>4, <1>5, <1>6, <1>7 DEF Next

LEMMA PauseAlways == Spec => []PauseInv
BY PauseInit, PauseNext, PTL DEF Spec

(* A torrent the user paused, or that was paused for its ratio, for lack of *)
(* space or on completion, stays paused until it is resumed or rechecked,   *)
(* and libtorrent's queue leaves it alone; no other torrent shows as Paused *)
(* (engine.pause takes a torrent out of auto-management before it pauses).  *)
THEOREM PausesStick == Spec => []PauseExact
BY PauseAlways, PTL DEF PauseInv

-----------------------------------------------------------------------------
(* A step that pauses a complete torrent although its owner wants it seeded *)
(* is one of three.                                                         *)

Stopped(t) == /\ t \in Ids /\ t \in DOMAIN handles'
              /\ t \in DOMAIN records /\ t \in DOMAIN records'
              /\ IsFinished(handles[t]) /\ ~handles[t].paused /\ handles'[t].paused
              /\ records[t].keep_seeding /\ records'[t].keep_seeding

Excused(t) == PauseTorrent(t) \/ PastRatio(t) \/ OnMetadataReceived

(* What changes no pause excuses itself. *)
LEMMA SamePauses ==
  ASSUME NEW t, Stopped(t), t \in Ids => handles'[t].paused = handles[t].paused
  PROVE  FALSE
BY DEF Stopped

LEMMA PollStops ==
  ASSUME Known, NEW t, Stopped(t), PollStep
  PROVE  Excused(t)
<1> USE DEF panel, settings, history
<1>1. CASE Poll \/ OnDownloadStarted \/ OnStorageMoved \/ OnStorageMoveFailed
  BY <1>1, SamePauses DEF Poll, OnDownloadStarted, OnStorageMoved, OnStorageMoveFailed
<1>2. CASE OnMetadataReceived
  BY <1>2 DEF Excused
<1>3. CASE OnTorrentFinished
  <2> DEFINE u == Head(batch).id
             stops == { v \in {u} : StopsOnComplete(v, records, stop_on_complete) }
             hs == Pausing(stops)
  <2>1. \/ handles' = hs
        \/ MayMove(u, move_completed) /\ handles' = [hs EXCEPT ![u].moving = move_completed]
    BY <1>3 DEF OnTorrentFinished, Moving, Refused
  <2>2. t \notin stops
    BY DEF StopsOnComplete, Stopped
  <2>3. t \in Ids
    BY DEF Stopped
  <2> HIDE DEF stops
  <2>4. hs[t] = handles[t] /\ DOMAIN hs = Ids /\ hs \in [Ids -> Handle]
    BY <2>2, <2>3, PausingType, KnownMeans
  <2> HIDE DEF hs, u
  <2>5. handles'[t].paused = hs[t].paused
    <3>1. CASE handles' = hs
      BY <3>1
    <3>2. CASE u = t /\ handles' = [hs EXCEPT ![u].moving = move_completed]
      BY <2>3, <2>4, <3>2 DEF Handle
    <3>3. CASE u # t /\ handles' = [hs EXCEPT ![u].moving = move_completed]
      BY <2>3, <2>4, <3>3
    <3> QED BY <2>1, <3>1, <3>2, <3>3
  <2> QED BY <2>4, <2>5, SamePauses
<1>4. CASE Progress
  <2> DEFINE over == { v \in Ids : RatioReached(v) }
  <2>1. handles' = Pausing(over)
    BY <1>4 DEF Progress
  <2>2. t \in Ids
    BY DEF Stopped
  <2>3. t \in over
    <3> HIDE DEF over
    <3> QED BY <2>1, <2>2, PausingType, SamePauses
  <2> QED BY <2>3 DEF RatioReached, PastRatio, Excused
<1> QED BY <1>1, <1>2, <1>3, <1>4 DEF PollStep

(* Giving u another handle matters to t only if u is t and g is paused. *)
LEMMA OtherStops ==
  ASSUME Known, NEW t, Stopped(t), NEW u, NEW g, handles' = [handles EXCEPT ![u] = g],
         u = t => ~g.paused
  PROVE  FALSE
BY DEF Stopped, Ids

LEMMA LtStops ==
  ASSUME Known, NEW t, Stopped(t), NEW u \in Torrents, LtStep(u)
  PROVE  FALSE
<1> USE DEF panel, settings, history
<1>1. handles \in [Ids -> Handle] /\ t \in Ids /\ u \in Ids
  BY KnownMeans DEF Known, Ids, Stopped, LtStep, LtQueue, LtMetadata, LtChecked, LtDownloaded,
                    LtUploaded, LtMoved, Runs
<1>2. ASSUME t # u \/ handles'[t].paused = handles[t].paused
      PROVE  FALSE
  <2>1. CASE t = u
    BY <1>2, <2>1, SamePauses
  <2>2. CASE t # u
    <3>1. handles'[t] = handles[t]
      BY <1>1, <2>2 DEF LtStep, LtQueue, LtMetadata, LtChecked, LtDownloaded, LtUploaded, LtMoved
    <3> QED BY <3>1, SamePauses
  <2> QED BY <2>1, <2>2
<1>3. CASE LtQueue(u)
  <2>1. t # u
    BY <1>3 DEF LtQueue, Stopped
  <2> QED BY <1>2, <2>1
<1>4. CASE LtMetadata(u) \/ LtChecked(u) \/ LtDownloaded(u)
  <2>1. PICK s \in LtStates : handles' = [handles EXCEPT ![u].state = s]
    BY <1>4 DEF LtMetadata, LtChecked, LtDownloaded, LtStates
  <2> QED BY <1>1, <1>2, <2>1 DEF Handle
<1>5. CASE LtUploaded(u)
  BY <1>1, <1>2, <1>5 DEF LtUploaded, Handle
<1>6. CASE LtMoved(u)
  <2>1. CASE handles' = [handles EXCEPT ![u].save_path = handles[u].moving, ![u].moving = Nowhere]
    BY <1>1, <1>2, <2>1 DEF Handle
  <2>2. CASE handles' = [handles EXCEPT ![u].moving = Nowhere]
    BY <1>1, <1>2, <2>2 DEF Handle
  <2> QED BY <1>6, <2>1, <2>2 DEF LtMoved
<1> QED BY <1>3, <1>4, <1>5, <1>6 DEF LtStep

LEMMA CommandStops ==
  ASSUME Known, NEW t, Stopped(t), NEW u \in Torrents, Command(u)
  PROVE  Excused(t)
<1> USE DEF panel, settings, history
<1>1. handles \in [Ids -> Handle] /\ t \in Ids /\ handles[t] \in Handle /\ ~handles[t].paused
  BY KnownMeans DEF Known, Ids, Stopped
<1>2. CASE \E d \in Folders, ratio, magnet \in BOOLEAN : AddTorrent(u, d, ratio, magnet)
  <2>1. PICK g : u \notin Ids /\ handles' = With(handles, u, g)
    BY <1>2 DEF AddTorrent
  <2>2. handles'[t] = handles[t]
    BY <1>1, <2>1 DEF With, Ids
  <2> QED BY <2>2, SamePauses
<1>3. CASE PauseTorrent(u)
  <2>1. CASE u = t
    BY <1>3, <2>1 DEF Excused
  <2>2. CASE u # t
    <3>1. handles' = Pausing({u})
      BY <1>3 DEF PauseTorrent
    <3>2. handles'[t] = handles[t]
      BY <1>1, <2>2, <3>1, PausingType
    <3> QED BY <3>2, SamePauses
  <2> QED BY <2>1, <2>2
<1>4. CASE ResumeTorrent(u)
  <2>1. handles' = [handles EXCEPT ![u] = Resumed(handles[u])] /\ u \in Ids
    BY <1>1, <1>4 DEF ResumeTorrent
  <2>2. ~Resumed(handles[u]).paused
    BY <1>1, <2>1 DEF Resumed, Handle
  <2> QED BY <2>1, <2>2, OtherStops
<1>5. CASE StartNow(u)
  <2>1. handles' = [handles EXCEPT ![u] = Started(handles[u])] /\ u \in Ids
    BY <1>1, <1>5 DEF StartNow
  <2>2. ~Started(handles[u]).paused
    BY <1>1, <2>1 DEF Started, Handle
  <2> QED BY <2>1, <2>2, OtherStops
<1>6. CASE ForceRecheck(u)
  <2>1. handles' = [handles EXCEPT ![u] = Rechecked(handles[u])] /\ u \in Ids
    BY <1>1, <1>6 DEF ForceRecheck
  <2>2. ~Rechecked(handles[u]).paused
    BY <1>1, <2>1, RecheckedType
  <2> QED BY <2>1, <2>2, OtherStops
<1>7. CASE SelectFiles(u)
  <2>1. PICK s \in LtStates : handles' = [handles EXCEPT ![u].state = s]
    BY <1>7 DEF SelectFiles, LtStates
  <2>2. handles'[t].paused = handles[t].paused
    BY <1>1, <2>1 DEF Handle
  <2> QED BY <2>2, SamePauses
<1>8. CASE \E d \in Folders : MoveFiles(u, d)
  <2>1. PICK d \in Folders : handles' = [handles EXCEPT ![u].moving = d]
    BY <1>8 DEF MoveFiles, Moving
  <2>2. handles'[t].paused = handles[t].paused
    BY <1>1, <2>1 DEF Handle
  <2> QED BY <2>2, SamePauses
<1>9. CASE \E keep, ratio \in BOOLEAN : ApplyProperties(u, keep, ratio)
  <2> DEFINE stops == { v \in {u} : StopsOnComplete(v, records', stop_on_complete) }
  <2>1. handles' = Pausing(stops)
    BY <1>9 DEF ApplyProperties
  <2>2. t \notin stops
    BY DEF StopsOnComplete, Stopped
  <2> HIDE DEF stops
  <2>3. handles'[t] = handles[t]
    BY <1>1, <2>1, <2>2, PausingType
  <2> QED BY <2>3, SamePauses
<1> QED BY <1>2, <1>3, <1>4, <1>5, <1>6, <1>7, <1>8, <1>9 DEF Command

LEMMA NextStops ==
  ASSUME Known, NEW t, Stopped(t), Next
  PROVE  Excused(t)
<1> USE DEF panel, settings, history
<1>1. t \in Ids
  BY DEF Stopped
<1>2. CASE PollStep
  BY <1>2, PollStops
<1>3. ASSUME NEW u \in Torrents, LtStep(u) \/ Command(u) PROVE Excused(t)
  BY <1>3, LtStops, CommandStops
<1>4. ASSUME NEW S \in SUBSET Torrents, RemoveTorrents(S) PROVE Excused(t)
  <2>1. handles' = Restrict(handles, Ids \ S)
    BY <1>4 DEF RemoveTorrents
  <2>2. t \in Ids \ S
    BY <2>1, RestrictKeeps DEF Stopped
  <2>3. handles'[t] = handles[t]
    BY <2>1, <2>2, RestrictKeeps
  <2> QED BY <2>3, SamePauses
<1>5. ASSUME NEW on \in BOOLEAN, SetStopOnComplete(on) PROVE Excused(t)
  <2> DEFINE stops == { v \in DOMAIN records : StopsOnComplete(v, records, on) }
  <2>1. handles' = Pausing(stops)
    BY <1>5 DEF SetStopOnComplete
  <2>2. t \notin stops
    BY DEF StopsOnComplete, Stopped
  <2> HIDE DEF stops
  <2>3. handles'[t] = handles[t]
    BY <1>1, <2>1, <2>2, PausingType
  <2> QED BY <2>3, SamePauses
<1>6. ASSUME NEW d \in Folders \cup {Nowhere}, SetMoveCompleted(d) PROVE Excused(t)
  BY <1>6, SamePauses DEF SetMoveCompleted
<1> QED BY <1>2, <1>3, <1>4, <1>5, <1>6 DEF Next

(* A complete torrent its owner asked to seed is stopped by its owner, at   *)
(* its seed ratio or by the space check of its metadata, and never for      *)
(* being complete: not when it finishes, not when the setting is turned on, *)
(* not when its properties are changed (record.keep_seeding).               *)
THEOREM WishesKept == Spec => AskedToSeedSeeds
<1> DEFINE Kept == \A t \in Ids \cap DOMAIN handles' \cap DOMAIN records \cap DOMAIN records' :
                     /\ IsFinished(handles[t]) /\ ~handles[t].paused /\ handles'[t].paused
                     /\ records[t].keep_seeding /\ records'[t].keep_seeding
                     => PauseTorrent(t) \/ PastRatio(t) \/ OnMetadataReceived
<1>1. ASSUME PauseInv, [Next]_vars
      PROVE  [Kept]_vars
  <2>1. CASE UNCHANGED vars
    BY <2>1
  <2>2. CASE Next
    <3> SUFFICES ASSUME NEW t \in Ids \cap DOMAIN handles' \cap DOMAIN records \cap DOMAIN records',
                        Stopped(t)
                 PROVE  Excused(t)
      BY DEF Stopped, Excused
    <3> QED BY <1>1, <2>2, NextStops DEF PauseInv
  <2> QED BY <1>1, <2>1, <2>2
<1> HIDE DEF Kept
<1>2. Spec => [][Kept]_vars
  BY <1>1, PauseAlways, PTL DEF Spec
<1> QED BY <1>2 DEF AskedToSeedSeeds, Kept
-----------------------------------------------------------------------------
(* Moves, and the downloads a completion ends: what the alerts on their way *)
(* say, oldest first.                                                       *)

Queue == batch \o alerts

IsMove(a) == a.type \in { "storage_moved", "storage_moved_failed" }

(* The panel's book of moves and libtorrent's agree: a move under way is    *)
(* booked and not reported yet; ...                                         *)
Moves(t) ==
  handles[t].moving # Nowhere =>
    /\ t \in DOMAIN moves_pending /\ moves_pending[t] = handles[t].moving
    /\ \A i \in 1 .. Len(Queue) : Queue[i].id = t => ~IsMove(Queue[i])

(* ... a reported one is booked, the only one of its torrent, and its       *)
(* report names the folder the files are in; ...                            *)
Reported(t) ==
  \A i \in 1 .. Len(Queue) : Queue[i].id = t /\ IsMove(Queue[i]) =>
    /\ t \in DOMAIN moves_pending
    /\ Queue[i].type = "storage_moved" => Queue[i].path = handles[t].save_path
    /\ \A j \in 1 .. Len(Queue) : Queue[j].id = t /\ IsMove(Queue[j]) => i = j

(* ... and so does the record, unless the report is still on its way.       *)
Located(t) ==
  \/ \E i \in 1 .. Len(Queue) : Queue[i].id = t /\ Queue[i].type = "storage_moved"
  \/ records[t].save_path = handles[t].save_path

Booked(t) == Moves(t) /\ Reported(t) /\ Located(t)

Starts(i, t)   == Queue[i].id = t /\ Queue[i].type = "state_changed"
Finishes(i, t) == Queue[i].id = t /\ Queue[i].type = "torrent_finished"

(* Once the first k alerts are handled, t will have been seen downloading   *)
(* and its completion not been handled since.                               *)
SeenAfter(k, t) ==
  \/ t \in seen_downloading /\ \A i \in 1 .. k : ~Finishes(i, t)
  \/ \E j \in 1 .. k : Starts(j, t) /\ \A i \in j .. k : ~Finishes(i, t)

Noticed(t) ==
  /\ t \in fetched => SeenAfter(Len(Queue), t)
  /\ \A i \in 1 .. Len(Queue) : Finishes(i, t) /\ Queue[i].fresh => SeenAfter(i - 1, t)

(* What has a type, between two polls nothing is popped, and what is said   *)
(* is said of a torrent of the session.                                     *)
Shape ==
  /\ TypeOK /\ (Idle => batch = << >>)
  /\ DOMAIN records = Ids
  /\ \A i \in 1 .. Len(Queue) : Queue[i].id \in Ids \cup {NoId}

PanelInv ==
  /\ PauseInv /\ Shape
  /\ \A t \in Ids : Booked(t)
  /\ \A t \in Torrents : Noticed(t)

(* A step adds an alert, or takes the oldest.                               *)
Put(a) == /\ Len(Queue') = Len(Queue) + 1 /\ Queue'[Len(Queue) + 1] = a
          /\ \A i \in 1 .. Len(Queue) : Queue'[i] = Queue[i]
Taken  == /\ Len(Queue) > 0 /\ Len(Queue') = Len(Queue) - 1
          /\ \A i \in 1 .. Len(Queue) - 1 : Queue'[i] = Queue[i + 1]

LEMMA PartialMeans ==
  ASSUME NEW S, NEW V, NEW f
  PROVE  f \in Partial(S, V) <=> DOMAIN f \subseteq S /\ f \in [DOMAIN f -> V]
BY DEF Partial

LEMMA QueueType ==
  ASSUME alerts \in Seq(Alert), batch \in Seq(Alert)
  PROVE  /\ Queue \in Seq(Alert) /\ Len(Queue) \in Nat
         /\ \A i \in 1 .. Len(Queue) : Queue[i] \in Alert
         /\ Len(Queue) = Len(batch) + Len(alerts) /\ Len(batch) \in Nat /\ Len(alerts) \in Nat
         /\ \A i \in 1 .. Len(Queue) : Queue[i] = IF i <= Len(batch) THEN batch[i] ELSE alerts[i - Len(batch)]
BY ConcatProperties, LenProperties, ElementOfSeq DEF Queue

LEMMA AppendAdds ==
  ASSUME NEW S, NEW q \in Seq(S), NEW d \in S
  PROVE  /\ Append(q, d) \in Seq(S) /\ Len(Append(q, d)) = Len(q) + 1 /\ Len(q) \in Nat
         /\ Append(q, d)[Len(q) + 1] = d
         /\ \A i \in 1 .. Len(q) : Append(q, d)[i] = q[i]
OBVIOUS

LEMMA PutQueue ==
  ASSUME alerts \in Seq(Alert), batch \in Seq(Alert), NEW a \in Alert,
         alerts' = Append(alerts, a), batch' = batch
  PROVE  alerts' \in Seq(Alert) /\ Put(a)
<1>1. /\ alerts' \in Seq(Alert) /\ Len(alerts') = Len(alerts) + 1
      /\ alerts'[Len(alerts) + 1] = a /\ \A i \in 1 .. Len(alerts) : alerts'[i] = alerts[i]
  BY AppendAdds
<1>2. batch' \in Seq(Alert)
  OBVIOUS
<1>3. /\ Len(Queue') = Len(batch) + Len(alerts')
      /\ \A i \in 1 .. Len(Queue') :
           Queue'[i] = IF i <= Len(batch) THEN batch[i] ELSE alerts'[i - Len(batch)]
  BY <1>1, <1>2, ConcatProperties DEF Queue
<1> HIDE DEF Queue
<1>4. Len(Queue') = Len(Queue) + 1 /\ Len(Queue) \in Nat
  BY <1>1, <1>3, QueueType
<1>5. Queue'[Len(Queue) + 1] = a
  <2>0. Len(Queue) = Len(batch) + Len(alerts) /\ Len(batch) \in Nat /\ Len(alerts) \in Nat
    BY QueueType
  <2>1. /\ Len(Queue) + 1 \in 1 .. Len(Queue') /\ ~(Len(Queue) + 1 <= Len(batch))
        /\ Len(Queue) + 1 - Len(batch) = Len(alerts) + 1
    BY <1>4, <2>0
  <2> QED BY <1>1, <1>3, <2>1
<1>6. ASSUME NEW i \in 1 .. Len(Queue)
      PROVE  Queue'[i] = Queue[i]
  <2>1. i \in 1 .. Len(Queue') /\ i \in Int /\ Len(batch) \in Nat /\ Len(alerts) \in Nat
    BY <1>4, QueueType
  <2>2. CASE i <= Len(batch)
    BY <1>3, <2>1, <2>2, QueueType
  <2>3. CASE ~(i <= Len(batch))
    <3>1. i - Len(batch) \in 1 .. Len(alerts)
      BY <2>1, <2>3, QueueType
    <3> QED BY <1>1, <1>3, <2>1, <2>3, <3>1, QueueType
  <2> QED BY <2>2, <2>3
<1> QED BY <1>1, <1>4, <1>5, <1>6 DEF Put

LEMMA TakenQueue ==
  ASSUME alerts \in Seq(Alert), batch \in Seq(Alert), batch # << >>,
         batch' = Tail(batch), alerts' = alerts
  PROVE  batch' \in Seq(Alert) /\ Taken /\ Queue[1] = Head(batch) /\ Head(batch) \in Alert
<1>1. /\ Head(batch) \in Alert /\ Tail(batch) \in Seq(Alert) /\ Len(Tail(batch)) = Len(batch) - 1
      /\ \A i \in 1 .. Len(Tail(batch)) : Tail(batch)[i] = batch[i + 1]
  BY HeadTailProperties
<1>2. Len(batch) \in Nat /\ Len(batch) > 0 /\ Head(batch) = batch[1]
  BY LenProperties, EmptySeq
<1>3. /\ Len(Queue') = Len(batch') + Len(alerts)
      /\ \A i \in 1 .. Len(Queue') :
           Queue'[i] = IF i <= Len(batch') THEN batch'[i] ELSE alerts[i - Len(batch')]
  BY <1>1, ConcatProperties DEF Queue
<1> HIDE DEF Queue
<1>4. Len(Queue) > 0 /\ Len(Queue') = Len(Queue) - 1 /\ Queue[1] = Head(batch)
  BY <1>1, <1>2, <1>3, QueueType
<1>5. ASSUME NEW i \in 1 .. Len(Queue) - 1
      PROVE  Queue'[i] = Queue[i + 1]
  <2>1. i \in 1 .. Len(Queue') /\ i + 1 \in 1 .. Len(Queue)
    BY <1>4, QueueType
  <2>2. CASE i <= Len(batch')
    BY <1>1, <1>2, <1>3, <2>1, <2>2, QueueType
  <2>3. CASE ~(i <= Len(batch'))
    BY <1>1, <1>2, <1>3, <2>1, <2>3, QueueType
  <2> QED BY <2>2, <2>3
<1> QED BY <1>1, <1>4, <1>5 DEF Taken

(* The files of the torrents are where they were, and so are the records.   *)
FilesStay == /\ Ids' = Ids
             /\ \A t \in Ids : /\ handles'[t].moving = handles[t].moving
                               /\ handles'[t].save_path = handles[t].save_path

RecordsStay == /\ DOMAIN records' = DOMAIN records
               /\ \A t \in DOMAIN records : records'[t].save_path = records[t].save_path

(* What a step may say without touching the moves, or hear.                 *)
Saying(a)   == Put(a) /\ a.id \in Ids /\ ~IsMove(a)
Hearing     == Taken /\ ~IsMove(Queue[1])

(* No move of t is reported or taken note of.                               *)
NoWordOf(t) ==
  \/ Queue' = Queue
  \/ \E a \in Alert : Put(a) /\ ~(a.id = t /\ IsMove(a))
  \/ Taken /\ ~(Queue[1].id = t /\ IsMove(Queue[1]))

LEMMA BookedStays ==
  ASSUME Shape, NEW t, Booked(t), NoWordOf(t),
         handles'[t].moving = handles[t].moving, handles'[t].save_path = handles[t].save_path,
         records'[t].save_path = records[t].save_path,
         t \in DOMAIN moves_pending' <=> t \in DOMAIN moves_pending,
         t \in DOMAIN moves_pending => moves_pending'[t] = moves_pending[t]
  PROVE  Booked(t)'
<1>1. Len(Queue) \in Nat
  BY QueueType DEF Shape, TypeOK
<1>2. Moves(t) /\ Reported(t) /\ Located(t)
  BY DEF Booked
<1> HIDE DEF Queue
<1>3. CASE Queue' = Queue
  BY <1>2, <1>3 DEF Booked, Moves, Reported, Located, IsMove
<1>4. ASSUME NEW a \in Alert, Put(a), ~(a.id = t /\ IsMove(a))
      PROVE  Booked(t)'
  <2>1. /\ Len(Queue') = Len(Queue) + 1
        /\ ~(Queue'[Len(Queue) + 1].id = t /\ IsMove(Queue'[Len(Queue) + 1]))
        /\ \A i \in 1 .. Len(Queue) : Queue'[i] = Queue[i] /\ i \in 1 .. Len(Queue')
        /\ \A i \in 1 .. Len(Queue') : i \in 1 .. Len(Queue) \/ i = Len(Queue) + 1
    BY <1>1, <1>4 DEF Put
  <2>2. Moves(t)'
    BY <1>2, <2>1 DEF Moves, IsMove
  <2>3. Reported(t)'
    BY <1>2, <2>1 DEF Reported, IsMove
  <2>4. Located(t)'
    BY <1>2, <2>1 DEF Located, IsMove
  <2> QED BY <2>2, <2>3, <2>4 DEF Booked
<1>5. CASE Taken /\ ~(Queue[1].id = t /\ IsMove(Queue[1]))
  <2>1. /\ Len(Queue') = Len(Queue) - 1
        /\ \A i \in 1 .. Len(Queue') : Queue'[i] = Queue[i + 1] /\ i + 1 \in 1 .. Len(Queue)
        /\ \A i \in 1 .. Len(Queue) : i = 1 \/ (i - 1 \in 1 .. Len(Queue') /\ Queue'[i - 1] = Queue[i])
    BY <1>1, <1>5 DEF Taken
  <2>2. Moves(t)'
    BY <1>2, <2>1 DEF Moves, IsMove
  <2>3. Reported(t)'
    BY <1>2, <2>1 DEF Reported, IsMove
  <2>4. Located(t)'
    BY <1>2, <1>5, <2>1 DEF Located, IsMove
  <2> QED BY <2>2, <2>3, <2>4 DEF Booked
<1> QED BY <1>3, <1>4, <1>5 DEF NoWordOf

LEMMA BookSame ==
  ASSUME Shape, \A t \in Ids : Booked(t), FilesStay, RecordsStay,
         moves_pending' = moves_pending,
         Queue' = Queue \/ (\E a \in Alert : Saying(a)) \/ Hearing
  PROVE  \A t \in Ids' : Booked(t)'
<1> SUFFICES ASSUME NEW t \in Ids PROVE Booked(t)'
  BY DEF FilesStay
<1>1. /\ handles'[t].moving = handles[t].moving /\ handles'[t].save_path = handles[t].save_path
      /\ records'[t].save_path = records[t].save_path
  BY DEF FilesStay, RecordsStay, Shape
<1>2. NoWordOf(t)
  BY DEF NoWordOf, Saying, Hearing
<1> QED BY <1>1, <1>2, BookedStays

(* The first k alerts stay what they are, and what was seen stays seen.     *)
LEMMA SeenStays ==
  ASSUME NEW t, NEW k \in Nat, SeenAfter(k, t), seen_downloading \subseteq seen_downloading',
         \A i \in 1 .. k : Queue'[i] = Queue[i]
  PROVE  SeenAfter(k, t)'
<1> HIDE DEF Queue
<1>1. CASE t \in seen_downloading /\ \A i \in 1 .. k : ~Finishes(i, t)
  <2>1. t \in seen_downloading' /\ \A i \in 1 .. k : ~Finishes(i, t)'
    BY <1>1 DEF Finishes
  <2> QED BY <2>1 DEF SeenAfter
<1>2. ASSUME NEW j \in 1 .. k, Starts(j, t), \A i \in j .. k : ~Finishes(i, t)
      PROVE  SeenAfter(k, t)'
  <2>1. Starts(j, t)' /\ \A i \in j .. k : ~Finishes(i, t)'
    BY <1>2 DEF Starts, Finishes
  <2> QED BY <2>1 DEF SeenAfter
<1> QED BY <1>1, <1>2 DEF SeenAfter

(* The oldest alert is handled: a start is seen, a completion ends what     *)
(* was seen.                                                                *)
LEMMA SeenShifts ==
  ASSUME NEW t, NEW k \in Nat, k <= Len(Queue) - 1, Len(Queue) \in Nat, Taken, SeenAfter(k + 1, t),
         t \in seen_downloading => t \in seen_downloading' \/ Finishes(1, t),
         Starts(1, t) => t \in seen_downloading'
  PROVE  SeenAfter(k, t)'
<1> HIDE DEF Queue
<1>0. \A i \in 1 .. k : Queue'[i] = Queue[i + 1]
  BY DEF Taken
<1>1. CASE t \in seen_downloading /\ \A i \in 1 .. k + 1 : ~Finishes(i, t)
  <2>1. 1 \in 1 .. k + 1
    OBVIOUS
  <2>2. t \in seen_downloading'
    BY <1>1, <2>1
  <2>3. \A i \in 1 .. k : ~Finishes(i, t)'
    BY <1>0, <1>1 DEF Finishes
  <2> QED BY <2>2, <2>3 DEF SeenAfter
<1>2. ASSUME NEW j \in 1 .. k + 1, Starts(j, t), \A i \in j .. k + 1 : ~Finishes(i, t)
      PROVE  SeenAfter(k, t)'
  <2>1. CASE j = 1
    <3>1. t \in seen_downloading' /\ \A i \in 1 .. k : ~Finishes(i, t)'
      BY <1>0, <1>2, <2>1 DEF Finishes
    <3> QED BY <3>1 DEF SeenAfter
  <2>2. CASE j # 1
    <3>1. j - 1 \in 1 .. k /\ Queue'[j - 1] = Queue[j]
      BY <1>0, <2>2
    <3>2. Starts(j - 1, t)' /\ \A i \in j - 1 .. k : ~Finishes(i, t)'
      BY <1>0, <1>2, <3>1 DEF Starts, Finishes
    <3> QED BY <3>1, <3>2 DEF SeenAfter
  <2> QED BY <2>1, <2>2
<1> QED BY <1>1, <1>2 DEF SeenAfter

(* What a step may say or hear as far as completions are concerned.         *)
Announcing(a) ==
  /\ Put(a) /\ a.id \in Torrents
  /\ \/ a.type # "torrent_finished" /\ fetched' \subseteq fetched
     \/ a.type = "state_changed" /\ fetched' \subseteq fetched \cup {a.id}
     \/ a.type = "torrent_finished" /\ (a.fresh => a.id \in fetched) /\ fetched' = fetched \ {a.id}

Noticing == \A t \in Torrents :
  /\ t \in seen_downloading => t \in seen_downloading' \/ Finishes(1, t)
  /\ Starts(1, t) => t \in seen_downloading'

LEMMA NoticeSame ==
  ASSUME Shape, \A t \in Torrents : Noticed(t),
         \/ Queue' = Queue /\ fetched' \subseteq fetched /\ seen_downloading \subseteq seen_downloading'
         \/ (\E a \in Alert : Announcing(a)) /\ seen_downloading \subseteq seen_downloading'
         \/ Taken /\ Noticing /\ fetched' \subseteq fetched
  PROVE  \A t \in Torrents : Noticed(t)'
<1> SUFFICES ASSUME NEW t \in Torrents PROVE Noticed(t)'
  OBVIOUS
<1>1. PICK n \in Nat : Len(Queue) = n
  BY QueueType DEF Shape, TypeOK
<1>2. /\ t \in fetched => SeenAfter(Len(Queue), t)
      /\ \A i \in 1 .. Len(Queue) : Finishes(i, t) /\ Queue[i].fresh => SeenAfter(i - 1, t)
  BY DEF Noticed
<1> HIDE DEF Queue
<1>3. CASE Queue' = Queue /\ fetched' \subseteq fetched /\ seen_downloading \subseteq seen_downloading'
  <2>1. \A k \in Nat : SeenAfter(k, t) => SeenAfter(k, t)'
    BY <1>3, SeenStays
  <2>2. t \in fetched' => SeenAfter(n, t)'
    BY <1>1, <1>2, <1>3, <2>1
  <2>3. ASSUME NEW i \in 1 .. Len(Queue'), Finishes(i, t)', Queue'[i].fresh
        PROVE  SeenAfter(i - 1, t)'
    <3>1. i \in 1 .. Len(Queue) /\ i - 1 \in Nat /\ Finishes(i, t) /\ Queue[i].fresh
      BY <1>1, <1>3, <2>3 DEF Finishes
    <3> QED BY <1>2, <2>1, <3>1
  <2> QED BY <1>1, <1>3, <2>2, <2>3 DEF Noticed
<1>4. ASSUME NEW a \in Alert, Announcing(a), seen_downloading \subseteq seen_downloading'
      PROVE  Noticed(t)'
  <2>1. /\ Len(Queue') = n + 1 /\ Queue'[n + 1] = a
        /\ \A i \in 1 .. n : Queue'[i] = Queue[i]
    BY <1>1, <1>4 DEF Announcing, Put
  <2>2. ASSUME NEW k \in Nat, k <= n, SeenAfter(k, t)
        PROVE  SeenAfter(k, t)'
    <3>1. \A i \in 1 .. k : Queue'[i] = Queue[i]
      BY <1>1, <2>1, <2>2
    <3> QED BY <1>4, <2>2, <3>1, SeenStays
  <2>3. ASSUME NEW i \in 1 .. n + 1, Finishes(i, t)', Queue'[i].fresh
        PROVE  SeenAfter(i - 1, t)'
    <3>1. CASE i \in 1 .. n
      <4>1. i - 1 \in Nat /\ i - 1 <= n /\ Finishes(i, t) /\ Queue[i].fresh
        BY <1>1, <2>1, <2>3, <3>1 DEF Finishes
      <4> QED BY <1>1, <1>2, <2>2, <3>1, <4>1
    <3>2. CASE i = n + 1
      <4>1. a.type = "torrent_finished" /\ a.id = t /\ a.fresh
        BY <2>1, <2>3, <3>2 DEF Finishes
      <4>2. t \in fetched
        BY <1>4, <4>1 DEF Announcing
      <4>3. SeenAfter(n, t)
        BY <1>1, <1>2, <4>2
      <4>4. i - 1 = n
        BY <1>1, <3>2
      <4> QED BY <1>1, <2>2, <4>3, <4>4
    <3> QED BY <1>1, <3>1, <3>2
  <2>4. ASSUME t \in fetched' PROVE SeenAfter(n + 1, t)'
    <3>1. CASE t \in fetched /\ ~(a.type = "torrent_finished" /\ a.id = t)
      <4>1. SeenAfter(n, t)'
        BY <1>1, <1>2, <2>2, <3>1
      <4>2. ~Finishes(n + 1, t)'
        BY <2>1, <3>1 DEF Finishes
      <4> QED BY <4>1, <4>2 DEF SeenAfter
    <3>2. CASE t = a.id /\ a.type = "state_changed"
      <4>1. Starts(n + 1, t)' /\ ~Finishes(n + 1, t)'
        BY <2>1, <3>2 DEF Starts, Finishes
      <4> QED BY <4>1 DEF SeenAfter
    <3> QED BY <1>4, <2>4, <3>1, <3>2 DEF Announcing
  <2>6. \A i \in 1 .. Len(Queue') : Finishes(i, t)' /\ Queue'[i].fresh => SeenAfter(i - 1, t)'
    BY <2>1, <2>3
  <2> QED BY <2>1, <2>4, <2>6 DEF Noticed
<1>5. CASE Taken /\ Noticing /\ fetched' \subseteq fetched
  <2>1. /\ Len(Queue) > 0 /\ Len(Queue') = Len(Queue) - 1
        /\ \A i \in 1 .. Len(Queue) - 1 : Queue'[i] = Queue[i + 1]
    BY <1>5 DEF Taken
  <2>2. \A k \in Nat : k <= Len(Queue) - 1 /\ SeenAfter(k + 1, t) => SeenAfter(k, t)'
    BY <1>1, <1>5, SeenShifts DEF Noticing
  <2>3. t \in fetched' => SeenAfter(n - 1, t)'
    <3>1. n - 1 \in Nat /\ n - 1 + 1 = n /\ n - 1 <= Len(Queue) - 1
      BY <1>1, <2>1
    <3> QED BY <1>1, <1>2, <1>5, <2>1, <2>2, <3>1
  <2>4. ASSUME NEW i \in 1 .. Len(Queue'), Finishes(i, t)', Queue'[i].fresh
        PROVE  SeenAfter(i - 1, t)'
    <3>1. /\ i + 1 \in 1 .. Len(Queue) /\ i - 1 \in Nat /\ i - 1 <= Len(Queue) - 1
          /\ i + 1 - 1 = i /\ i - 1 + 1 = i /\ i \in 1 .. Len(Queue) - 1
      BY <1>1, <2>1
    <3>2. Finishes(i + 1, t) /\ Queue[i + 1].fresh
      BY <2>1, <2>4, <3>1 DEF Finishes
    <3>3. SeenAfter(i, t)
      BY <1>2, <3>1, <3>2
    <3> QED BY <2>2, <3>1, <3>3
  <2>5. Len(Queue') = n - 1
    BY <1>1, <2>1
  <2> QED BY <2>3, <2>4, <2>5 DEF Noticed
<1> QED BY <1>3, <1>4, <1>5

(* Functions that are not defined everywhere.                               *)
LEMMA PartialExcept ==
  ASSUME NEW S, NEW V, NEW f \in Partial(S, V), NEW t \in DOMAIN f, NEW v \in V
  PROVE  /\ [f EXCEPT ![t] = v] \in Partial(S, V)
         /\ DOMAIN [f EXCEPT ![t] = v] = DOMAIN f
         /\ \A x \in DOMAIN f : [f EXCEPT ![t] = v][x] = IF x = t THEN v ELSE f[x]
<1> DEFINE g == [f EXCEPT ![t] = v]
<1>1. DOMAIN f \subseteq S /\ f \in [DOMAIN f -> V]
  BY PartialMeans
<1>2. DOMAIN g = DOMAIN f /\ g \in [DOMAIN f -> V]
  BY <1>1
<1>3. \A x \in DOMAIN f : g[x] = IF x = t THEN v ELSE f[x]
  OBVIOUS
<1> HIDE DEF g
<1>4. g \in Partial(S, V)
  BY <1>1, <1>2, PartialMeans
<1> QED BY <1>2, <1>3, <1>4 DEF g

LEMMA PartialWith ==
  ASSUME NEW S, NEW V, NEW f \in Partial(S, V), NEW t \in S, NEW v \in V
  PROVE  /\ With(f, t, v) \in Partial(S, V)
         /\ DOMAIN With(f, t, v) = DOMAIN f \cup {t} /\ With(f, t, v)[t] = v
         /\ \A x \in DOMAIN f \ {t} : With(f, t, v)[x] = f[x]
<1> DEFINE g == With(f, t, v)
<1>1. DOMAIN f \subseteq S /\ f \in [DOMAIN f -> V]
  BY PartialMeans
<1>2. /\ DOMAIN g = DOMAIN f \cup {t} /\ g[t] = v /\ \A x \in DOMAIN f \ {t} : g[x] = f[x]
  BY DEF With
<1>3. g \in [DOMAIN f \cup {t} -> V]
  BY <1>1 DEF With
<1> HIDE DEF g
<1>4. g \in Partial(S, V)
  BY <1>1, <1>2, <1>3, PartialMeans
<1> QED BY <1>2, <1>4 DEF g

(* A function without the members of T.                                     *)
Less(f, T) == Restrict(f, DOMAIN f \ T)

LEMMA PartialLess ==
  ASSUME NEW S, NEW V, NEW f \in Partial(S, V), NEW T
  PROVE  Less(f, T) \in Partial(S, V) /\ DOMAIN Less(f, T) = DOMAIN f \ T
<1> DEFINE g == Less(f, T)
<1>1. DOMAIN f \subseteq S /\ f \in [DOMAIN f -> V]
  BY PartialMeans
<1>2. DOMAIN g = DOMAIN f \ T /\ \A x \in DOMAIN f \ T : g[x] = f[x]
  BY DEF Less, Restrict
<1>3. g \in [DOMAIN f \ T -> V]
  BY <1>1 DEF Less, Restrict
<1> HIDE DEF g
<1>4. g \in Partial(S, V)
  BY <1>1, <1>2, <1>3, PartialMeans
<1> QED BY <1>2, <1>4 DEF g

LEMMA PartialWithout ==
  ASSUME NEW S, NEW V, NEW f \in Partial(S, V), NEW t
  PROVE  Without(f, t) \in Partial(S, V) /\ DOMAIN Without(f, t) = DOMAIN f \ {t}
<1>1. Less(f, {t}) \in Partial(S, V) /\ DOMAIN Less(f, {t}) = DOMAIN f \ {t}
  BY PartialLess
<1> QED BY <1>1 DEF Without, Less

LEMMA WithoutAt ==
  ASSUME NEW f, NEW t, NEW x \in DOMAIN f \ {t}
  PROVE  Without(f, t)[x] = f[x]
BY DEF Without, Restrict

LEMMA PartialTyped ==
  ASSUME NEW S, NEW V, NEW f \in Partial(S, V)
  PROVE  DOMAIN f \subseteq S /\ \A x \in DOMAIN f : f[x] \in V
BY PartialMeans

(* What a step leaves of the right type.                                    *)
Typed == /\ alerts \in Seq(Alert) /\ batch \in Seq(Alert) /\ polling \in BOOLEAN
         /\ records \in Partial(Torrents, Record)
         /\ seen_downloading \in SUBSET (Torrents \cup {NoId})
         /\ moves_pending \in Partial(Torrents, Folders)
         /\ stop_on_complete \in BOOLEAN /\ fetched \in SUBSET Torrents

LEMMA ShapeMeans ==
  ASSUME PauseInv
  PROVE  TypeOK <=> Typed
<1>1. held \in SUBSET Torrents
  BY KnownMeans DEF PauseInv, Known, Ids
<1> QED BY <1>1 DEF TypeOK, Typed, PauseInv, Known

LEMMA ShapeKept ==
  ASSUME PanelInv, PauseInv', Typed', Idle' => batch' = << >>, DOMAIN records' = Ids',
         Ids \subseteq Ids',
         \/ Queue' = Queue
         \/ \E a \in Alert : Put(a) /\ a.id \in Ids' \cup {NoId}
         \/ Taken
  PROVE  Shape'
<1>1. TypeOK'
  <2>1. ASSUME PauseInv PROVE (TypeOK <=> Typed)
    BY <2>1, ShapeMeans
  <2>2. (PauseInv => (TypeOK <=> Typed))'
    BY ShapeMeans, PTL
  <2> QED BY <2>2
<1>2. PICK n \in Nat : Len(Queue) = n
  BY QueueType DEF PanelInv, Shape, TypeOK
<1>3. \A i \in 1 .. Len(Queue) : Queue[i].id \in Ids' \cup {NoId}
  BY DEF PanelInv, Shape
<1> HIDE DEF Queue
<1>4. \A i \in 1 .. Len(Queue') : Queue'[i].id \in Ids' \cup {NoId}
  <2>1. CASE Queue' = Queue
    BY <1>3, <2>1
  <2>2. CASE \E a \in Alert : Put(a) /\ a.id \in Ids' \cup {NoId}
    BY <1>2, <1>3, <2>2 DEF Put
  <2>3. CASE Taken
    BY <1>2, <1>3, <2>3 DEF Taken
  <2> QED BY <2>1, <2>2, <2>3
<1> QED BY <1>1, <1>4 DEF Shape

(* A step that moves nothing.                                               *)
LEMMA PanelSame ==
  ASSUME PanelInv, PauseInv', Typed', Idle' => batch' = << >>,
         FilesStay, RecordsStay, moves_pending' = moves_pending,
         \/ Queue' = Queue /\ seen_downloading \subseteq seen_downloading' /\ fetched' \subseteq fetched
         \/ /\ seen_downloading \subseteq seen_downloading'
            /\ \E a \in Alert : Saying(a) /\ Announcing(a)
         \/ Hearing /\ Noticing /\ fetched' \subseteq fetched
  PROVE  PanelInv'
<1>1. DOMAIN records' = Ids' /\ Ids' = Ids
  BY DEF FilesStay, RecordsStay, PanelInv, Shape
<1>2. Shape'
  <2>1. \/ Queue' = Queue
        \/ \E a \in Alert : Put(a) /\ a.id \in Ids' \cup {NoId}
        \/ Taken
    BY <1>1 DEF Saying, Hearing
  <2> QED BY <1>1, <2>1, ShapeKept
<1>3. \A t \in Ids' : Booked(t)'
  BY BookSame DEF PanelInv
<1>4. \A t \in Torrents : Noticed(t)'
  <2>1. \/ Queue' = Queue /\ fetched' \subseteq fetched /\ seen_downloading \subseteq seen_downloading'
        \/ (\E a \in Alert : Announcing(a)) /\ seen_downloading \subseteq seen_downloading'
        \/ Taken /\ Noticing /\ fetched' \subseteq fetched
    BY DEF Hearing
  <2> QED BY <2>1, NoticeSame DEF PanelInv
<1> QED BY <1>2, <1>3, <1>4 DEF PanelInv

LEMMA PanelTypes ==
  ASSUME PanelInv
  PROVE  /\ Typed /\ handles \in [Ids -> Handle] /\ Ids \subseteq Torrents
         /\ move_completed \in Folders \cup {Nowhere} /\ DOMAIN records = Ids
         /\ records \in [Ids -> Record]
         /\ DOMAIN moves_pending \subseteq Torrents /\ NoId \notin DOMAIN moves_pending
         /\ \A t \in DOMAIN moves_pending : moves_pending[t] \in Folders
<1>1. Typed
  BY ShapeMeans DEF PanelInv, Shape
<1>2. /\ handles \in [Ids -> Handle] /\ Ids \subseteq Torrents
      /\ move_completed \in Folders \cup {Nowhere}
  BY KnownMeans DEF PanelInv, PauseInv, Known, Ids
<1>3. DOMAIN records = Ids /\ records \in [Ids -> Record]
  BY <1>1, PartialMeans DEF Typed, PanelInv, Shape
<1>4. /\ DOMAIN moves_pending \subseteq Torrents
      /\ \A t \in DOMAIN moves_pending : moves_pending[t] \in Folders
  BY <1>1, PartialTyped DEF Typed
<1> QED BY <1>1, <1>2, <1>3, <1>4, NoIdAssumption

(* Pausing, and changing what is not about files.                           *)
LEMMA PausingStays ==
  ASSUME PanelInv, NEW S, handles' = Pausing(S)
  PROVE  FilesStay
<1>1. handles \in [Ids -> Handle]
  BY PanelTypes
<1>2. ASSUME NEW t \in Ids
      PROVE  /\ handles'[t].moving = handles[t].moving
             /\ handles'[t].save_path = handles[t].save_path
  <2>1. handles[t] \in Handle
    BY <1>1
  <2>2. Paused(handles[t]).moving = handles[t].moving /\ Paused(handles[t]).save_path = handles[t].save_path
    BY <2>1 DEF Paused, Handle
  <2>3. handles'[t] = IF t \in S THEN Paused(handles[t]) ELSE handles[t]
    BY PausingType DEF PanelInv, PauseInv
  <2> QED BY <2>2, <2>3
<1>3. Ids' = Ids
  BY PausingType DEF PanelInv, PauseInv, Ids
<1> QED BY <1>2, <1>3 DEF FilesStay

LEMMA OneStays ==
  ASSUME PanelInv, NEW t \in Ids, NEW g, handles' = [handles EXCEPT ![t] = g],
         g.moving = handles[t].moving, g.save_path = handles[t].save_path
  PROVE  FilesStay
<1>1. handles \in [Ids -> Handle]
  BY PanelTypes
<1> QED BY <1>1 DEF FilesStay, Ids

LEMMA SameStays ==
  /\ handles' = handles => FilesStay
  /\ records' = records => RecordsStay
BY DEF FilesStay, RecordsStay, Ids

(* A handle gives up what is not about files.                               *)
LEMMA HandleStays ==
  ASSUME NEW h \in Handle
  PROVE  /\ Paused(h).moving = h.moving /\ Paused(h).save_path = h.save_path
         /\ Resumed(h).moving = h.moving /\ Resumed(h).save_path = h.save_path
         /\ Started(h).moving = h.moving /\ Started(h).save_path = h.save_path
         /\ Rechecked(h).moving = h.moving /\ Rechecked(h).save_path = h.save_path
BY DEF Paused, Resumed, Started, Rechecked, Handle

(* The panel takes up the oldest alert.                                     *)
LEMMA HandlingTakes ==
  ASSUME PanelInv, NEW type, Handling(type), alerts' = alerts
  PROVE  /\ Taken /\ Queue[1] = Head(batch) /\ Queue[1].type = type
         /\ Queue[1].id \in Ids \cup {NoId} /\ Queue[1] \in Alert
         /\ batch' \in Seq(Alert) /\ polling
<1>1. Typed
  BY PanelTypes
<1>2. /\ polling /\ batch # << >> /\ Head(batch).type = type /\ batch' = Tail(batch)
  BY DEF Handling
<1>3. batch' \in Seq(Alert) /\ Taken /\ Queue[1] = Head(batch) /\ Head(batch) \in Alert
  BY <1>1, <1>2, TakenQueue DEF Typed
<1>4. 1 \in 1 .. Len(Queue)
  BY <1>1, <1>3, QueueType DEF Typed, Taken
<1>5. Queue[1].id \in Ids \cup {NoId}
  BY <1>4 DEF PanelInv, Shape
<1> QED BY <1>2, <1>3, <1>5

(* What the panel hears but a completion or a start is not noticed.         *)
LEMMA HeardQuietly ==
  ASSUME Queue[1].type \notin { "state_changed", "torrent_finished" },
         seen_downloading \subseteq seen_downloading'
  PROVE  Noticing
BY DEF Noticing, Starts, Finishes

LEMMA PollSame ==
  ASSUME PanelInv, PauseInv', Poll
  PROVE  PanelInv'
<1> USE DEF panel, settings, history
<1>1. /\ ~polling /\ polling' = TRUE /\ batch' = alerts /\ alerts' = << >>
      /\ handles' = handles /\ records' = records
      /\ UNCHANGED <<seen_downloading, moves_pending, stop_on_complete, fetched>>
  BY DEF Poll, Idle
<1>2. Typed /\ batch = << >>
  BY <1>1, PanelTypes DEF PanelInv, Shape, Idle
<1>3. alerts' \in Seq(Alert)
  BY <1>1, EmptySeq
<1>4. Typed'
  BY <1>1, <1>2, <1>3 DEF Typed
<1>5. Queue' = Queue
  BY <1>1, <1>2, ConcatEmptySeq DEF Queue, Typed
<1>6. Idle' => batch' = << >>
  BY <1>1 DEF Idle
<1>7. FilesStay /\ RecordsStay
  BY <1>1, SameStays
<1>8. Queue' = Queue /\ seen_downloading \subseteq seen_downloading' /\ fetched' \subseteq fetched
  BY <1>1, <1>5
<1> HIDE DEF Queue, panel, settings, history
<1> QED BY <1>1, <1>4, <1>6, <1>7, <1>8, PanelSame

LEMMA MetadataSame ==
  ASSUME PanelInv, PauseInv', OnMetadataReceived
  PROVE  PanelInv'
<1> USE DEF panel, settings, history
<1>1. /\ Handling("metadata_received") /\ alerts' = alerts /\ polling' = polling
      /\ UNCHANGED <<records, seen_downloading, moves_pending, stop_on_complete, fetched>>
  BY DEF OnMetadataReceived
<1>2. \/ handles' = handles
      \/ \E t \in Ids : handles' = [handles EXCEPT ![t] = Paused(handles[t])]
  BY DEF OnMetadataReceived
<1>3. /\ Taken /\ Queue[1].type = "metadata_received" /\ batch' \in Seq(Alert) /\ polling
  BY <1>1, HandlingTakes
<1>4. Typed' /\ (Idle' => batch' = << >>)
  BY <1>1, <1>3, PanelTypes DEF Typed, Idle
<1>5. FilesStay /\ RecordsStay
  <2>1. ASSUME NEW t \in Ids, handles' = [handles EXCEPT ![t] = Paused(handles[t])]
        PROVE  FilesStay
    <3>1. handles[t] \in Handle
      BY PanelTypes
    <3> QED BY <2>1, <3>1, HandleStays, OneStays
  <2> QED BY <1>1, <1>2, <2>1, SameStays
<1>6. Hearing /\ Noticing
  BY <1>1, <1>3, HeardQuietly DEF Hearing, IsMove
<1> QED BY <1>1, <1>4, <1>5, <1>6, PanelSame

LEMMA StartedSame ==
  ASSUME PanelInv, PauseInv', OnDownloadStarted
  PROVE  PanelInv'
<1> USE DEF panel, settings, history
<1>1. /\ Handling("state_changed") /\ alerts' = alerts /\ polling' = polling
      /\ handles' = handles /\ records' = records
      /\ seen_downloading' = seen_downloading \cup {Head(batch).id}
      /\ UNCHANGED <<moves_pending, stop_on_complete, fetched>>
  BY DEF OnDownloadStarted
<1>2. /\ Taken /\ Queue[1] = Head(batch) /\ Queue[1].type = "state_changed" /\ polling
      /\ Queue[1].id \in Ids \cup {NoId} /\ batch' \in Seq(Alert)
  BY <1>1, HandlingTakes
<1>3. Typed /\ Ids \subseteq Torrents
  BY PanelTypes
<1>4. Typed' /\ (Idle' => batch' = << >>)
  BY <1>1, <1>2, <1>3 DEF Typed, Idle
<1>5. FilesStay /\ RecordsStay
  BY <1>1, SameStays
<1>6. Hearing /\ Noticing
  BY <1>1, <1>2 DEF Hearing, IsMove, Noticing, Starts
<1> QED BY <1>1, <1>4, <1>5, <1>6, PanelSame

LEMMA ProgressSame ==
  ASSUME PanelInv, PauseInv', Progress
  PROVE  PanelInv'
<1> USE DEF panel, settings, history
<1> DEFINE over == { t \in Ids : RatioReached(t) }
<1>1. /\ batch = << >> /\ batch' = batch /\ alerts' = alerts /\ polling' = FALSE
      /\ handles' = Pausing(over) /\ records' = records
      /\ UNCHANGED <<moves_pending, stop_on_complete, fetched>>
  BY DEF Progress
<1>2. seen_downloading \subseteq seen_downloading' /\ seen_downloading' \subseteq seen_downloading \cup Ids
  BY DEF Progress
<1> HIDE DEF over
<1>3. Typed /\ Ids \subseteq Torrents
  BY PanelTypes
<1>4. Typed' /\ (Idle' => batch' = << >>)
  BY <1>1, <1>2, <1>3 DEF Typed
<1>5. FilesStay /\ RecordsStay
  BY <1>1, SameStays, PausingStays
<1>6. Queue' = Queue /\ seen_downloading \subseteq seen_downloading' /\ fetched' \subseteq fetched
  BY <1>1, <1>2 DEF Queue
<1> QED BY <1>1, <1>4, <1>5, <1>6, PanelSame

(* A move is started of a torrent the book knows nothing of.                *)
LEMMA MoveBooks ==
  ASSUME PanelInv, NEW t \in Ids, t \notin DOMAIN moves_pending, NEW d \in Folders,
         moves_pending' = With(moves_pending, t, d), Ids' = Ids, RecordsStay,
         \A u \in Ids : /\ handles'[u].save_path = handles[u].save_path
                        /\ handles'[u].moving = IF u = t THEN d ELSE handles[u].moving,
         Queue' = Queue \/ Hearing
  PROVE  /\ \A u \in Ids' : Booked(u)'
         /\ moves_pending' \in Partial(Torrents, Folders)
<1>1. Typed /\ Ids \subseteq Torrents /\ DOMAIN records = Ids
  BY PanelTypes
<1>2. /\ moves_pending' \in Partial(Torrents, Folders)
      /\ DOMAIN moves_pending' = DOMAIN moves_pending \cup {t} /\ moves_pending'[t] = d
      /\ \A x \in DOMAIN moves_pending \ {t} : moves_pending'[x] = moves_pending[x]
  <2>1. moves_pending \in Partial(Torrents, Folders) /\ t \in Torrents
    BY <1>1 DEF Typed
  <2> QED BY <2>1, PartialWith
<1>3. Shape /\ \A u \in Ids : Booked(u) /\ records'[u].save_path = records[u].save_path
  BY <1>1 DEF PanelInv, RecordsStay
<1>4. PICK n \in Nat : Len(Queue) = n
  BY <1>1, QueueType DEF Typed
<1> HIDE DEF Queue
<1>5. ASSUME NEW u \in Ids, u # t
      PROVE  Booked(u)'
  <2>1. NoWordOf(u)
    BY DEF NoWordOf, Hearing
  <2> QED BY <1>2, <1>3, <1>5, <2>1, BookedStays
<1>6. Booked(t)'
  <2>1. Reported(t) /\ Located(t)
    BY <1>3 DEF Booked
  <2>2. \A i \in 1 .. Len(Queue) : ~(Queue[i].id = t /\ IsMove(Queue[i]))
    BY <2>1 DEF Reported
  <2>3. \A i \in 1 .. Len(Queue') : ~(Queue'[i].id = t /\ IsMove(Queue'[i]))
    BY <1>4, <2>2 DEF Hearing, Taken
  <2>4. records'[t].save_path = handles'[t].save_path
    BY <1>3, <2>1, <2>2 DEF Located, IsMove
  <2>5. t \in DOMAIN moves_pending' /\ moves_pending'[t] = handles'[t].moving
    BY <1>2
  <2> QED BY <2>3, <2>4, <2>5 DEF Booked, Moves, Reported, Located, IsMove
<1> QED BY <1>2, <1>5, <1>6

LEMMA FinishedKeeps ==
  ASSUME PanelInv, PauseInv', OnTorrentFinished
  PROVE  PanelInv'
<1> USE DEF panel, settings, history
<1> DEFINE t == Head(batch).id
           stops == { u \in {t} : StopsOnComplete(u, records, stop_on_complete) }
           hs == Pausing(stops)
<1>1. /\ Handling("torrent_finished") /\ alerts' = alerts /\ polling' = polling
      /\ records' = records /\ UNCHANGED <<stop_on_complete, fetched>>
      /\ seen_downloading' \in { seen_downloading, seen_downloading \ {t} }
      /\ \/ /\ move_completed # Nowhere /\ MayMove(t, move_completed)
            /\ moves_pending' = With(moves_pending, t, move_completed)
            /\ handles' = [hs EXCEPT ![t].moving = move_completed]
         \/ moves_pending' = moves_pending /\ handles' = hs
  BY DEF OnTorrentFinished, Moving, Refused
<1>2. /\ Taken /\ Queue[1] = Head(batch) /\ Queue[1].type = "torrent_finished" /\ polling
      /\ batch' \in Seq(Alert)
  BY <1>1, HandlingTakes
<1> HIDE DEF stops
<1>3. Typed /\ Ids \subseteq Torrents /\ move_completed \in Folders \cup {Nowhere}
      /\ handles \in [Ids -> Handle]
  BY PanelTypes
<1>4. Idle' => batch' = << >>
  BY <1>1, <1>2 DEF Idle
<1>5. Hearing /\ Noticing
  <2>1. Hearing
    BY <1>2 DEF Hearing, IsMove
  <2>2. ASSUME NEW u \in Torrents
        PROVE  /\ u \in seen_downloading => u \in seen_downloading' \/ Finishes(1, u)
               /\ Starts(1, u) => u \in seen_downloading'
    BY <1>1, <1>2 DEF Finishes, Starts
  <2> QED BY <2>1, <2>2 DEF Noticing
<1>6. RecordsStay
  BY <1>1, SameStays
<1>7. CASE moves_pending' = moves_pending /\ handles' = hs
  <2>1. FilesStay
    BY <1>7, PausingStays
  <2>2. Typed'
    BY <1>1, <1>2, <1>3, <1>7 DEF Typed
  <2> QED BY <1>1, <1>4, <1>5, <1>6, <1>7, <2>1, <2>2, PanelSame
<1>8. CASE /\ move_completed # Nowhere /\ MayMove(t, move_completed)
           /\ moves_pending' = With(moves_pending, t, move_completed)
           /\ handles' = [hs EXCEPT ![t].moving = move_completed]
  <2>1. t \in Ids /\ t \notin DOMAIN moves_pending /\ move_completed \in Folders
    BY <1>3, <1>8 DEF MayMove
  <2>2. /\ hs \in Partial(Torrents, Handle) /\ DOMAIN hs = Ids
        /\ \A u \in Ids : hs[u] = IF u \in stops THEN Paused(handles[u]) ELSE handles[u]
    BY PausingType DEF PanelInv, PauseInv
  <2> HIDE DEF hs, t
  <2>3. \A u \in Ids : /\ hs[u] \in Handle
                       /\ hs[u].save_path = handles[u].save_path /\ hs[u].moving = handles[u].moving
    BY <1>3, <2>2, HandleStays, PausedType
  <2>4. /\ DOMAIN handles' = Ids
        /\ handles'[t] = [hs[t] EXCEPT !.moving = move_completed]
        /\ \A u \in Ids \ {t} : handles'[u] = hs[u]
    BY <1>8, <2>1, <2>2
  <2>5. /\ handles'[t].save_path = hs[t].save_path /\ handles'[t].moving = move_completed
    BY <2>1, <2>3, <2>4 DEF Handle
  <2>6. Ids' = Ids
    BY <2>4 DEF Ids
  <2>7. \A u \in Ids : /\ handles'[u].save_path = handles[u].save_path
                       /\ handles'[u].moving = IF u = t THEN move_completed ELSE handles[u].moving
    BY <2>1, <2>3, <2>4, <2>5
  <2>8. (\A u \in Ids' : Booked(u)') /\ moves_pending' \in Partial(Torrents, Folders)
    BY <1>5, <1>6, <1>8, <2>1, <2>6, <2>7, MoveBooks
  <2>9. Typed'
    BY <1>1, <1>2, <1>3, <2>8 DEF Typed
  <2>10. Shape'
    BY <1>1, <1>2, <1>4, <2>6, <2>9, PanelTypes, ShapeKept
  <2>11. \A u \in Torrents : Noticed(u)'
    <3>1. Shape /\ (\A u \in Torrents : Noticed(u)) /\ fetched' \subseteq fetched
      BY <1>1 DEF PanelInv
    <3> QED BY <1>2, <1>5, <3>1, NoticeSame
  <2> QED BY <2>8, <2>10, <2>11 DEF PanelInv
<1> QED BY <1>1, <1>7, <1>8

(* A move has ended, well or not, and the panel hears of it.                *)
LEMMA MoveEnds ==
  ASSUME PanelInv, Taken, IsMove(Queue[1]), NEW t, t = Queue[1].id,
         moves_pending' = Without(moves_pending, t), handles' = handles,
         \A u \in Ids \ {t} : records'[u].save_path = records[u].save_path,
         t \in Ids => records'[t].save_path = IF Queue[1].type = "storage_moved" THEN Queue[1].path
                                              ELSE records[t].save_path
  PROVE  /\ \A u \in Ids' : Booked(u)'
         /\ moves_pending' \in Partial(Torrents, Folders)
         /\ t \in Ids /\ Queue[1].type = "storage_moved" => Queue[1].path \in Folders
<1>1. Typed /\ Ids \subseteq Torrents /\ handles \in [Ids -> Handle]
  BY PanelTypes
<1>2. /\ moves_pending' \in Partial(Torrents, Folders)
      /\ DOMAIN moves_pending' = DOMAIN moves_pending \ {t}
      /\ \A x \in DOMAIN moves_pending \ {t} : moves_pending'[x] = moves_pending[x]
  <2>1. moves_pending \in Partial(Torrents, Folders)
    BY <1>1 DEF Typed
  <2>2. /\ moves_pending' \in Partial(Torrents, Folders)
        /\ DOMAIN moves_pending' = DOMAIN moves_pending \ {t}
    BY <2>1, PartialWithout
  <2>3. \A x \in DOMAIN moves_pending \ {t} : moves_pending'[x] = moves_pending[x]
    BY WithoutAt
  <2> QED BY <2>2, <2>3
<1>3. PICK n \in Nat : Len(Queue) = n
  BY <1>1, QueueType DEF Typed
<1>4. Shape /\ Ids' = Ids /\ \A u \in Ids : Booked(u)
  BY DEF PanelInv, Ids
<1> HIDE DEF Queue
<1>5. ASSUME NEW u \in Ids, u # t
      PROVE  Booked(u)'
  <2>1. NoWordOf(u)
    BY <1>5 DEF NoWordOf
  <2> QED BY <1>2, <1>4, <1>5, <2>1, BookedStays
<1>6. ASSUME t \in Ids
      PROVE  /\ Booked(t)'
             /\ Queue[1].type = "storage_moved" => Queue[1].path = handles[t].save_path
  <2>1. Moves(t) /\ Reported(t) /\ Located(t)
    BY <1>4, <1>6 DEF Booked
  <2>2. 1 \in 1 .. Len(Queue)
    BY <1>3 DEF Taken
  <2>3. /\ handles[t].moving = Nowhere
        /\ Queue[1].type = "storage_moved" => Queue[1].path = handles[t].save_path
        /\ \A i \in 1 .. Len(Queue) : Queue[i].id = t /\ IsMove(Queue[i]) => i = 1
    BY <2>1, <2>2 DEF Moves, Reported
  <2>4. \A i \in 1 .. Len(Queue') : ~(Queue'[i].id = t /\ IsMove(Queue'[i]))
    <3>1. \A i \in 1 .. Len(Queue') : /\ i + 1 \in 1 .. Len(Queue) /\ i + 1 # 1
                                      /\ Queue'[i] = Queue[i + 1]
      BY <1>3 DEF Taken
    <3> QED BY <2>3, <3>1
  <2>5. records'[t].save_path = handles'[t].save_path
    BY <1>6, <2>1, <2>3 DEF Located, IsMove
  <2> QED BY <2>3, <2>4, <2>5 DEF Booked, Moves, Reported, Located, IsMove
<1>7. t \in Ids => handles[t].save_path \in Folders
  BY <1>1 DEF Handle
<1> QED BY <1>2, <1>4, <1>5, <1>6, <1>7

LEMMA MoveHeardKeeps ==
  ASSUME PanelInv, PauseInv', OnStorageMoved \/ OnStorageMoveFailed
  PROVE  PanelInv'
<1> USE DEF panel, settings, history
<1> DEFINE t == Head(batch).id
<1>1. /\ Handling("storage_moved") \/ Handling("storage_moved_failed")
      /\ alerts' = alerts /\ polling' = polling /\ handles' = handles
      /\ moves_pending' = Without(moves_pending, t)
      /\ UNCHANGED <<seen_downloading, stop_on_complete, fetched>>
  BY DEF OnStorageMoved, OnStorageMoveFailed
<1>2. /\ Taken /\ Queue[1] = Head(batch) /\ IsMove(Queue[1]) /\ polling
      /\ batch' \in Seq(Alert) /\ Queue[1].id \in Ids \cup {NoId}
      /\ Queue[1].type \notin { "state_changed", "torrent_finished" }
  BY <1>1, HandlingTakes DEF IsMove
<1>3. /\ Typed /\ DOMAIN records = Ids /\ records \in [Ids -> Record]
  BY PanelTypes
<1>4. records' = IF Queue[1].type = "storage_moved" /\ t \in Ids
                 THEN [records EXCEPT ![t] = [records[t] EXCEPT !.save_path = Queue[1].path]]
                 ELSE records
  BY <1>2, <1>3 DEF OnStorageMoved, OnStorageMoveFailed, Handling
<1> HIDE DEF t, Queue
<1>5. /\ \A u \in Ids \ {t} : records'[u].save_path = records[u].save_path
      /\ t \in Ids => records'[t].save_path = IF Queue[1].type = "storage_moved" THEN Queue[1].path
                                              ELSE records[t].save_path
      /\ DOMAIN records' = Ids
  BY <1>3, <1>4 DEF Record
<1>6. /\ \A u \in Ids' : Booked(u)'
      /\ moves_pending' \in Partial(Torrents, Folders)
      /\ t \in Ids /\ Queue[1].type = "storage_moved" => Queue[1].path \in Folders
  BY <1>1, <1>2, <1>5, MoveEnds DEF t
<1>7. records' \in Partial(Torrents, Record)
  <2>1. CASE t \in Ids /\ Queue[1].type = "storage_moved"
    <3>1. records \in Partial(Torrents, Record)
      BY <1>3 DEF Typed
    <3>2. [records[t] EXCEPT !.save_path = Queue[1].path] \in Record
      BY <1>3, <1>6, <2>1 DEF Record
    <3>3. t \in DOMAIN records
      BY <1>3, <2>1
    <3>4. \A v \in Record : [records EXCEPT ![t] = v] \in Partial(Torrents, Record)
      BY <3>1, <3>3, PartialExcept
    <3> QED BY <1>4, <2>1, <3>2, <3>4
  <2> QED BY <1>3, <1>4, <2>1 DEF Typed
<1>8. Typed' /\ (Idle' => batch' = << >>) /\ Ids' = Ids
  BY <1>1, <1>2, <1>3, <1>6, <1>7 DEF Typed, Idle, Ids
<1>9. Shape'
  BY <1>2, <1>5, <1>8, ShapeKept
<1>10. \A u \in Torrents : Noticed(u)'
  <2>1. Shape /\ (\A u \in Torrents : Noticed(u)) /\ fetched' \subseteq fetched
    BY <1>1 DEF PanelInv
  <2>2. Noticing
    BY <1>1, <1>2, HeardQuietly
  <2> QED BY <1>2, <2>1, <2>2, NoticeSame
<1> QED BY <1>6, <1>9, <1>10 DEF PanelInv

LEMMA PollPanel ==
  ASSUME PanelInv, PauseInv', PollStep
  PROVE  PanelInv'
BY PollSame, MetadataSame, StartedSame, FinishedKeeps, MoveHeardKeeps, ProgressSame DEF PollStep

-----------------------------------------------------------------------------
(* libtorrent.                                                              *)

(* Something is said of a torrent of the session.                           *)
LEMMA SaidSame ==
  ASSUME PanelInv, NEW a \in Alert, a.id \in Ids, ~IsMove(a),
         alerts' = Append(alerts, a), batch' = batch,
         \/ a.type # "torrent_finished" /\ fetched' \subseteq fetched
         \/ a.type = "state_changed" /\ fetched' \subseteq fetched \cup {a.id}
         \/ a.type = "torrent_finished" /\ (a.fresh => a.id \in fetched) /\ fetched' = fetched \ {a.id}
  PROVE  /\ alerts' \in Seq(Alert)
         /\ \E b \in Alert : Saying(b) /\ Announcing(b)
         /\ fetched' \in SUBSET Torrents
<1>1. Typed /\ Ids \subseteq Torrents
  BY PanelTypes
<1>2. alerts' \in Seq(Alert) /\ Put(a)
  BY <1>1, PutQueue DEF Typed
<1> HIDE DEF Queue
<1>3. Saying(a) /\ Announcing(a)
  BY <1>1, <1>2 DEF Saying, Announcing
<1>4. fetched' \in SUBSET Torrents
  BY <1>1 DEF Typed
<1> QED BY <1>2, <1>3, <1>4

LEMMA PostedAlert ==
  ASSUME PanelInv, NEW t \in Ids, NEW type \in { "metadata_received", "state_changed", "storage_moved",
                                                 "storage_moved_failed" },
         NEW d \in Folders \cup {Nowhere}, alerts' = Posted(alerts, type, t, d)
  PROVE  \E a \in Alert : /\ alerts' = Append(alerts, a) /\ a.id = t /\ a.type = type /\ a.path = d
<1> DEFINE a == [type |-> type, id |-> t, path |-> d, fresh |-> FALSE]
<1>1. t \in Torrents
  BY PanelTypes
<1>2. a \in Alert /\ a.id = t /\ a.type = type /\ a.path = d
  BY <1>1 DEF Alert
<1> QED BY <1>2 DEF Posted

LEMMA FinishAlert ==
  ASSUME PanelInv, NEW t \in Ids, Finish(t)
  PROVE  \E a \in Alert : /\ alerts' = Append(alerts, a) /\ a.id = t /\ a.type = "torrent_finished"
                          /\ (a.fresh => a.id \in fetched) /\ fetched' = fetched \ {a.id}
<1> DEFINE a == [type |-> "torrent_finished", id |-> t, path |-> Nowhere, fresh |-> t \in fetched]
<1>1. t \in Torrents
  BY PanelTypes
<1>2. (t \in fetched) \in BOOLEAN
  OBVIOUS
<1>3. a \in Alert
  BY <1>1, <1>2 DEF Alert
<1>4. a.id = t /\ a.type = "torrent_finished" /\ a.fresh = (t \in fetched)
  OBVIOUS
<1>5. a.fresh => t \in fetched
  BY <1>4
<1>6. alerts' = Append(alerts, a) /\ fetched' = fetched \ {t}
  BY DEF Finish
<1> HIDE DEF a
<1> QED BY <1>3, <1>4, <1>5, <1>6

(* What is left alone by libtorrent and by most commands.                   *)
Resting == /\ batch' = batch /\ polling' = polling
           /\ UNCHANGED <<seen_downloading, moves_pending, stop_on_complete>>

(* A step that at most says something that is not about moves.              *)
LEMMA SpokenSame ==
  ASSUME PanelInv, PauseInv', FilesStay, RecordsStay, records' \in Partial(Torrents, Record),
         batch' = batch, polling' = polling, seen_downloading' = seen_downloading,
         moves_pending' = moves_pending, stop_on_complete' \in BOOLEAN,
         \/ alerts' = alerts /\ fetched' = fetched
         \/ \E a \in Alert :
              /\ a.id \in Ids /\ ~IsMove(a) /\ alerts' = Append(alerts, a)
              /\ \/ a.type # "torrent_finished" /\ fetched' = fetched
                 \/ a.type = "state_changed" /\ fetched' = fetched \cup {a.id}
                 \/ /\ a.type = "torrent_finished" /\ (a.fresh => a.id \in fetched)
                    /\ fetched' = fetched \ {a.id}
  PROVE  PanelInv'
<1>1. Typed /\ (Idle' => batch' = << >>)
  BY PanelTypes DEF PanelInv, Shape, Idle
<1>2. CASE alerts' = alerts /\ fetched' = fetched
  <2>1. Typed' /\ Queue' = Queue
    BY <1>1, <1>2 DEF Typed, Queue
  <2> QED BY <1>1, <1>2, <2>1, PanelSame
<1>3. ASSUME NEW a \in Alert, a.id \in Ids, ~IsMove(a), alerts' = Append(alerts, a),
             \/ a.type # "torrent_finished" /\ fetched' = fetched
             \/ a.type = "state_changed" /\ fetched' = fetched \cup {a.id}
             \/ /\ a.type = "torrent_finished" /\ (a.fresh => a.id \in fetched)
                /\ fetched' = fetched \ {a.id}
      PROVE  PanelInv'
  <2>0. \/ a.type # "torrent_finished" /\ fetched' \subseteq fetched
        \/ a.type = "state_changed" /\ fetched' \subseteq fetched \cup {a.id}
        \/ a.type = "torrent_finished" /\ (a.fresh => a.id \in fetched) /\ fetched' = fetched \ {a.id}
    BY <1>3
  <2>1. /\ alerts' \in Seq(Alert) /\ fetched' \in SUBSET Torrents
        /\ \E b \in Alert : Saying(b) /\ Announcing(b)
    BY <1>3, <2>0, SaidSame
  <2>2. Typed'
    BY <1>1, <2>1 DEF Typed
  <2> QED BY <1>1, <2>1, <2>2, PanelSame
<1> QED BY <1>2, <1>3

(* A handle changes its state only.                                         *)
LEMMA StateStays ==
  ASSUME PanelInv, NEW t \in Ids, NEW s, handles' = [handles EXCEPT ![t].state = s]
  PROVE  FilesStay
<1>1. handles[t] \in Handle
  BY PanelTypes
<1> DEFINE g == [handles[t] EXCEPT !.state = s]
<1>2. g.moving = handles[t].moving /\ g.save_path = handles[t].save_path
  BY <1>1 DEF Handle
<1>3. handles' = [handles EXCEPT ![t] = g]
  OBVIOUS
<1> HIDE DEF g
<1> QED BY <1>2, <1>3, OneStays

(* A download ends or starts, and libtorrent says so.                       *)
LEMMA EndsOrStarts ==
  ASSUME PanelInv, NEW t \in Ids,
         \/ Finish(t)
         \/ /\ alerts' = Posted(alerts, "state_changed", t, Nowhere)
            /\ fetched' = fetched \cup {t}
  PROVE  \E a \in Alert :
           /\ a.id \in Ids /\ ~IsMove(a) /\ alerts' = Append(alerts, a)
           /\ \/ a.type # "torrent_finished" /\ fetched' = fetched
              \/ a.type = "state_changed" /\ fetched' = fetched \cup {a.id}
              \/ /\ a.type = "torrent_finished" /\ (a.fresh => a.id \in fetched)
                 /\ fetched' = fetched \ {a.id}
<1>1. CASE Finish(t)
  <2>1. PICK a \in Alert : /\ alerts' = Append(alerts, a) /\ a.id = t /\ a.type = "torrent_finished"
                           /\ (a.fresh => a.id \in fetched) /\ fetched' = fetched \ {a.id}
    BY <1>1, FinishAlert
  <2> QED BY <2>1 DEF IsMove
<1>2. CASE /\ alerts' = Posted(alerts, "state_changed", t, Nowhere)
           /\ fetched' = fetched \cup {t}
  <2>1. PICK a \in Alert : alerts' = Append(alerts, a) /\ a.id = t /\ a.type = "state_changed"
    BY <1>2, PostedAlert
  <2> QED BY <1>2, <2>1 DEF IsMove
<1> QED BY <1>1, <1>2

LEMMA LtSame ==
  ASSUME PanelInv, PauseInv', NEW t \in Torrents,
         LtQueue(t) \/ LtMetadata(t) \/ LtChecked(t) \/ LtDownloaded(t) \/ LtUploaded(t)
  PROVE  PanelInv'
<1> USE DEF panel, settings, history
<1>1. /\ t \in Ids /\ records' = records /\ batch' = batch /\ polling' = polling
      /\ UNCHANGED <<seen_downloading, moves_pending, stop_on_complete>>
  BY DEF LtQueue, LtMetadata, LtChecked, LtDownloaded, LtUploaded, Runs
<1>2. Typed /\ handles[t] \in Handle
  BY <1>1, PanelTypes
<1>3. /\ RecordsStay /\ records' \in Partial(Torrents, Record) /\ stop_on_complete' \in BOOLEAN
  BY <1>1, <1>2, SameStays DEF Typed
<1>4. CASE LtQueue(t)
  <2>1. handles' = [handles EXCEPT ![t] = [handles[t] EXCEPT !.paused = ~@]]
        /\ alerts' = alerts /\ fetched' = fetched
    BY <1>4 DEF LtQueue
  <2>2. FilesStay
    BY <1>1, <1>2, <2>1, OneStays DEF Handle
  <2> QED BY <1>1, <1>3, <2>1, <2>2, SpokenSame
<1>5. CASE LtUploaded(t)
  <2>1. handles' = [handles EXCEPT ![t] = [handles[t] EXCEPT !.ratio_met = TRUE]]
        /\ alerts' = alerts /\ fetched' = fetched
    BY <1>5 DEF LtUploaded
  <2>2. FilesStay
    BY <1>1, <1>2, <2>1, OneStays DEF Handle
  <2> QED BY <1>1, <1>3, <2>1, <2>2, SpokenSame
<1>6. CASE LtMetadata(t)
  <2>1. /\ handles' = [handles EXCEPT ![t].state = "checking"] /\ fetched' = fetched
        /\ alerts' = Posted(alerts, "metadata_received", t, Nowhere)
    BY <1>6 DEF LtMetadata
  <2>2. FilesStay
    BY <1>1, <2>1, StateStays
  <2>3. PICK a \in Alert : alerts' = Append(alerts, a) /\ a.id = t /\ a.type = "metadata_received"
    BY <1>1, <2>1, PostedAlert
  <2> QED BY <1>1, <1>3, <2>1, <2>2, <2>3, SpokenSame DEF IsMove
<1>7. CASE LtChecked(t) \/ LtDownloaded(t)
  <2>1. /\ \E s \in LtStates : handles' = [handles EXCEPT ![t].state = s]
        /\ \/ Finish(t)
           \/ /\ alerts' = Posted(alerts, "state_changed", t, Nowhere)
              /\ fetched' = fetched \cup {t}
    BY <1>7 DEF LtChecked, LtDownloaded, LtStates
  <2>2. FilesStay
    BY <1>1, <2>1, StateStays
  <2> QED BY <1>1, <1>3, <2>1, <2>2, EndsOrStarts, SpokenSame
<1> QED BY <1>4, <1>5, <1>6, <1>7

(* A move ends, and libtorrent says so.                                     *)
LEMMA LtMovedKeeps ==
  ASSUME PanelInv, PauseInv', NEW t \in Torrents, LtMoved(t)
  PROVE  PanelInv'
<1> USE DEF panel, settings, history
<1> DEFINE d == handles[t].moving
<1>1. /\ t \in Ids /\ d # Nowhere /\ records' = records /\ batch' = batch /\ polling' = polling
      /\ UNCHANGED <<seen_downloading, moves_pending, stop_on_complete, fetched>>
  BY DEF LtMoved
<1>2. /\ Typed /\ handles \in [Ids -> Handle] /\ handles[t] \in Handle /\ d \in Folders
      /\ DOMAIN records = Ids
  BY <1>1, PanelTypes DEF Handle
<1>3. PICK a \in Alert :
        /\ alerts' = Append(alerts, a) /\ a.id = t /\ IsMove(a)
        /\ a.type = "storage_moved" => a.path = d
        /\ handles' = [handles EXCEPT ![t] =
                        IF a.type = "storage_moved" THEN [@ EXCEPT !.save_path = d, !.moving = Nowhere]
                        ELSE [@ EXCEPT !.moving = Nowhere]]
  <2>1. CASE /\ handles' = [handles EXCEPT ![t].save_path = d, ![t].moving = Nowhere]
             /\ alerts' = Posted(alerts, "storage_moved", t, d)
    <3>1. PICK a \in Alert : alerts' = Append(alerts, a) /\ a.id = t /\ a.type = "storage_moved" /\ a.path = d
      BY <1>1, <1>2, <2>1, PostedAlert
    <3>2. handles' = [handles EXCEPT ![t] = [handles[t] EXCEPT !.save_path = d, !.moving = Nowhere]]
      BY <1>1, <1>2, <2>1
    <3> HIDE DEF d
    <3> QED BY <3>1, <3>2 DEF IsMove
  <2>2. CASE /\ handles' = [handles EXCEPT ![t].moving = Nowhere]
             /\ alerts' = Posted(alerts, "storage_moved_failed", t, Nowhere)
    <3>1. PICK a \in Alert : alerts' = Append(alerts, a) /\ a.id = t /\ a.type = "storage_moved_failed"
      BY <1>1, <2>2, PostedAlert
    <3>2. handles' = [handles EXCEPT ![t] = [handles[t] EXCEPT !.moving = Nowhere]]
      BY <2>2
    <3> HIDE DEF d
    <3> QED BY <3>1, <3>2 DEF IsMove
  <2> QED BY <2>1, <2>2 DEF LtMoved
<1>4. /\ handles'[t].moving = Nowhere
      /\ handles'[t].save_path = IF a.type = "storage_moved" THEN d ELSE handles[t].save_path
      /\ \A u \in Ids \ {t} : handles'[u] = handles[u]
      /\ Ids' = Ids
  BY <1>1, <1>2, <1>3 DEF Handle, Ids
<1>5. alerts' \in Seq(Alert) /\ Put(a)
  BY <1>1, <1>2, <1>3, PutQueue DEF Typed
<1>6. Typed' /\ (Idle' => batch' = << >>)
  BY <1>1, <1>2, <1>5 DEF Typed, PanelInv, Shape, Idle
<1>7. Shape'
  <2>1. \E b \in Alert : Put(b) /\ b.id \in Ids' \cup {NoId}
    BY <1>1, <1>3, <1>4, <1>5
  <2>2. DOMAIN records' = Ids' /\ Ids \subseteq Ids'
    BY <1>1, <1>2, <1>4
  <2> QED BY <1>6, <2>1, <2>2, ShapeKept
<1>8. \A u \in Torrents : Noticed(u)'
  <2>1. Announcing(a)
    BY <1>1, <1>3, <1>5 DEF Announcing, IsMove
  <2> HIDE DEF d
  <2>2. Shape /\ (\A u \in Torrents : Noticed(u)) /\ seen_downloading \subseteq seen_downloading'
    BY <1>1 DEF PanelInv
  <2> QED BY <2>1, <2>2, NoticeSame
<1>9. PICK n \in Nat : Len(Queue) = n
  BY <1>2, QueueType DEF Typed
<1>10. Shape /\ \A u \in Ids : Booked(u)
  BY DEF PanelInv
<1> HIDE DEF Queue
<1>11. ASSUME NEW u \in Ids, u # t
       PROVE  Booked(u)'
  <2>1. NoWordOf(u)
    BY <1>3, <1>5, <1>11 DEF NoWordOf
  <2>2. /\ handles'[u].moving = handles[u].moving /\ handles'[u].save_path = handles[u].save_path
        /\ records'[u].save_path = records[u].save_path /\ moves_pending' = moves_pending
    BY <1>1, <1>4, <1>11
  <2> QED BY <1>10, <1>11, <2>1, <2>2, BookedStays
<1>12. Booked(t)'
  <2>1. Moves(t) /\ Located(t)
    BY <1>1, <1>10 DEF Booked
  <2>2. /\ t \in DOMAIN moves_pending
        /\ \A i \in 1 .. Len(Queue) : Queue[i].id = t => ~IsMove(Queue[i])
    BY <1>1, <2>1 DEF Moves
  <2>3. records[t].save_path = handles[t].save_path
    BY <2>1, <2>2 DEF Located, IsMove
  <2>4. /\ Len(Queue') = n + 1 /\ Queue'[n + 1] = a
        /\ \A i \in 1 .. Len(Queue') : i = n + 1 \/ (Queue'[i].id = t => ~IsMove(Queue'[i]))
    BY <1>5, <1>9, <2>2 DEF Put
  <2>5. Moves(t)'
    BY <1>4 DEF Moves
  <2>6. Reported(t)'
    BY <1>1, <1>3, <1>4, <2>2, <2>4 DEF Reported, IsMove
  <2>7. Located(t)'
    BY <1>1, <1>3, <1>4, <2>3, <2>4 DEF Located, IsMove
  <2> QED BY <2>5, <2>6, <2>7 DEF Booked
<1> QED BY <1>4, <1>7, <1>8, <1>11, <1>12 DEF PanelInv

-----------------------------------------------------------------------------
(* The user's commands.                                                     *)

(* Only what a record wishes changes.                                       *)
LEMMA WishStays ==
  ASSUME PanelInv, NEW t \in Ids, NEW r \in Record, r.save_path = records[t].save_path,
         records' = [records EXCEPT ![t] = r]
  PROVE  RecordsStay /\ records' \in Partial(Torrents, Record)
<1>1. records \in Partial(Torrents, Record) /\ t \in DOMAIN records
  BY PanelTypes DEF Typed
<1>2. \A v \in Record : [records EXCEPT ![t] = v] \in Partial(Torrents, Record)
  BY <1>1, PartialExcept
<1> QED BY <1>1, <1>2 DEF RecordsStay

LEMMA CommandSame ==
  ASSUME PanelInv, PauseInv', NEW t \in Torrents,
         \/ PauseTorrent(t) \/ ResumeTorrent(t) \/ StartNow(t) \/ ForceRecheck(t) \/ SelectFiles(t)
         \/ \E keep, ratio \in BOOLEAN : ApplyProperties(t, keep, ratio)
  PROVE  PanelInv'
<1> USE DEF panel, settings, history
<1>1. /\ t \in Ids /\ batch' = batch /\ polling' = polling
      /\ UNCHANGED <<seen_downloading, moves_pending, stop_on_complete>>
  <2>1. DOMAIN records = Ids
    BY PanelTypes
  <2> QED BY <2>1 DEF PauseTorrent, ResumeTorrent, StartNow, ForceRecheck, SelectFiles, ApplyProperties
<1>2. Typed /\ handles[t] \in Handle /\ records[t] \in Record
  BY <1>1, PanelTypes
<1>3. stop_on_complete' \in BOOLEAN
  BY <1>1, <1>2 DEF Typed
<1>4. records' = records => RecordsStay /\ records' \in Partial(Torrents, Record)
  BY <1>2, SameStays DEF Typed
<1>5. CASE PauseTorrent(t)
  <2>1. records' = records /\ alerts' = alerts /\ fetched' = fetched /\ handles' = Pausing({t})
    BY <1>5 DEF PauseTorrent
  <2> QED BY <1>1, <1>3, <1>4, <2>1, PausingStays, SpokenSame
<1>6. CASE ResumeTorrent(t)
  <2>1. /\ alerts' = alerts /\ fetched' = fetched
        /\ handles' = [handles EXCEPT ![t] = Resumed(handles[t])]
        /\ \/ records' = records
           \/ records' = [records EXCEPT ![t] = [records[t] EXCEPT !.keep_seeding = TRUE]]
    BY <1>6 DEF ResumeTorrent
  <2>2. FilesStay
    BY <1>1, <1>2, <2>1, HandleStays, OneStays
  <2>3. /\ [records[t] EXCEPT !.keep_seeding = TRUE] \in Record
        /\ [records[t] EXCEPT !.keep_seeding = TRUE].save_path = records[t].save_path
    BY <1>2 DEF Record
  <2>4. RecordsStay /\ records' \in Partial(Torrents, Record)
    BY <1>1, <1>4, <2>1, <2>3, WishStays
  <2> QED BY <1>1, <1>3, <2>1, <2>2, <2>4, SpokenSame
<1>7. CASE StartNow(t)
  <2>1. /\ records' = records /\ alerts' = alerts /\ fetched' = fetched
        /\ handles' = [handles EXCEPT ![t] = Started(handles[t])]
    BY <1>7 DEF StartNow
  <2>2. FilesStay
    BY <1>1, <1>2, <2>1, HandleStays, OneStays
  <2> QED BY <1>1, <1>3, <1>4, <2>1, <2>2, SpokenSame
<1>8. CASE ForceRecheck(t)
  <2>1. /\ records' = records /\ alerts' = alerts /\ fetched' = fetched
        /\ handles' = [handles EXCEPT ![t] = Rechecked(handles[t])]
    BY <1>8 DEF ForceRecheck
  <2>2. FilesStay
    BY <1>1, <1>2, <2>1, HandleStays, OneStays
  <2> QED BY <1>1, <1>3, <1>4, <2>1, <2>2, SpokenSame
<1>9. CASE SelectFiles(t)
  <2>1. /\ records' = records /\ \E s \in LtStates : handles' = [handles EXCEPT ![t].state = s]
        /\ \/ Finish(t)
           \/ /\ alerts' = Posted(alerts, "state_changed", t, Nowhere)
              /\ fetched' = fetched \cup {t}
    BY <1>9 DEF SelectFiles, LtStates
  <2>2. FilesStay
    BY <1>1, <2>1, StateStays
  <2> QED BY <1>1, <1>3, <1>4, <2>1, <2>2, EndsOrStarts, SpokenSame
<1>10. ASSUME NEW keep \in BOOLEAN, NEW ratio \in BOOLEAN, ApplyProperties(t, keep, ratio)
       PROVE  PanelInv'
  <2>1. /\ alerts' = alerts /\ fetched' = fetched /\ t \in DOMAIN records
        /\ records' = [records EXCEPT ![t].keep_seeding = keep, ![t].seed_ratio_limit = ratio]
        /\ \E S : handles' = Pausing(S)
    BY <1>10, Zenon DEF ApplyProperties
  <2> DEFINE r == [records[t] EXCEPT !.keep_seeding = keep, !.seed_ratio_limit = ratio]
  <2>2. r \in Record /\ r.save_path = records[t].save_path
    BY <1>2 DEF Record
  <2>3. records' = [records EXCEPT ![t] = r]
    BY <2>1
  <2> HIDE DEF r
  <2>4. FilesStay
    BY <2>1, PausingStays
  <2>5. RecordsStay /\ records' \in Partial(Torrents, Record)
    BY <1>1, <2>2, <2>3, WishStays
  <2> QED BY <1>1, <1>3, <2>1, <2>4, <2>5, SpokenSame
<1> QED BY <1>5, <1>6, <1>7, <1>8, <1>9, <1>10

LEMMA MoveFilesKeeps ==
  ASSUME PanelInv, PauseInv', NEW t \in Torrents, NEW d \in Folders, MoveFiles(t, d)
  PROVE  PanelInv'
<1> USE DEF panel, settings, history
<1>1. /\ t \in Ids /\ t \notin DOMAIN moves_pending /\ records' = records
      /\ alerts' = alerts /\ batch' = batch /\ polling' = polling
      /\ moves_pending' = With(moves_pending, t, d)
      /\ handles' = [handles EXCEPT ![t] = [handles[t] EXCEPT !.moving = d]]
      /\ UNCHANGED <<seen_downloading, stop_on_complete, fetched>>
  BY DEF MoveFiles, MayMove, Moving
<1>2. Typed /\ handles \in [Ids -> Handle] /\ handles[t] \in Handle /\ DOMAIN records = Ids
  BY <1>1, PanelTypes
<1>3. /\ Ids' = Ids
      /\ \A u \in Ids : /\ handles'[u].save_path = handles[u].save_path
                        /\ handles'[u].moving = IF u = t THEN d ELSE handles[u].moving
  <2>1. /\ DOMAIN handles' = Ids /\ handles'[t] = [handles[t] EXCEPT !.moving = d]
        /\ \A u \in Ids \ {t} : handles'[u] = handles[u]
    BY <1>1, <1>2
  <2>2. handles'[t].save_path = handles[t].save_path /\ handles'[t].moving = d
    BY <1>2, <2>1 DEF Handle
  <2> QED BY <2>1, <2>2 DEF Ids
<1>4. Queue' = Queue
  BY <1>1 DEF Queue
<1>5. RecordsStay
  BY <1>1, SameStays
<1>6. (\A u \in Ids' : Booked(u)') /\ moves_pending' \in Partial(Torrents, Folders)
  BY <1>1, <1>3, <1>4, <1>5, MoveBooks
<1>7. Typed' /\ (Idle' => batch' = << >>)
  BY <1>1, <1>2, <1>6 DEF Typed, PanelInv, Shape, Idle
<1>8. Shape'
  <2>1. DOMAIN records' = Ids' /\ Ids \subseteq Ids'
    BY <1>1, <1>2, <1>3
  <2> QED BY <1>4, <1>7, <2>1, ShapeKept
<1>9. \A u \in Torrents : Noticed(u)'
  <2>1. /\ Shape /\ \A u \in Torrents : Noticed(u)
        /\ fetched' \subseteq fetched /\ seen_downloading \subseteq seen_downloading'
    BY <1>1 DEF PanelInv
  <2> QED BY <1>4, <2>1, NoticeSame
<1> QED BY <1>6, <1>8, <1>9 DEF PanelInv

(* Of a torrent that is not in the session nothing is said.                 *)
LEMMA AddKeeps ==
  ASSUME PanelInv, PauseInv', NEW t \in Torrents, NEW d \in Folders, NEW ratio \in BOOLEAN,
         NEW magnet \in BOOLEAN, AddTorrent(t, d, ratio, magnet)
  PROVE  PanelInv'
<1> USE DEF panel, settings, history
<1> DEFINE g == NewHandle(IF magnet THEN "downloading_metadata" ELSE "checking", d)
           r == [save_path |-> d, keep_seeding |-> FALSE, seed_ratio_limit |-> ratio]
<1>1. /\ t \notin Ids /\ batch' = batch /\ polling' = polling /\ Idle
      /\ handles' = With(handles, t, g) /\ records' = With(records, t, r)
      /\ \/ alerts' = alerts /\ fetched' = fetched
         \/ /\ alerts' = Posted(alerts, "state_changed", t, Nowhere)
            /\ fetched' = fetched \cup {t}
      /\ UNCHANGED <<seen_downloading, moves_pending, stop_on_complete>>
  BY DEF AddTorrent
<1>2. g.moving = Nowhere /\ g.save_path = d
  BY DEF NewHandle
<1>3. r \in Record /\ r.save_path = d
  BY DEF Record
<1> HIDE DEF g, r
<1>4. /\ Typed /\ DOMAIN records = Ids /\ Ids \subseteq Torrents
  BY PanelTypes
<1>5. /\ DOMAIN handles' = Ids \cup {t} /\ handles'[t] = g
      /\ \A u \in Ids : handles'[u] = handles[u]
  BY <1>1 DEF With, Ids
<1>6. /\ DOMAIN records' = Ids \cup {t} /\ records'[t] = r
      /\ \A u \in Ids : records'[u] = records[u]
  BY <1>1, <1>4 DEF With
<1>7. records' \in Partial(Torrents, Record)
  BY <1>1, <1>3, <1>4, PartialWith DEF Typed
<1>8. \/ alerts' = alerts /\ Queue' = Queue /\ fetched' = fetched
      \/ \E a \in Alert : /\ alerts' \in Seq(Alert) /\ Put(a) /\ a.id = t /\ a.type = "state_changed"
                          /\ fetched' = fetched \cup {t}
  <2>1. CASE alerts' = alerts /\ fetched' = fetched
    BY <1>1, <2>1 DEF Queue
  <2>2. CASE /\ alerts' = Posted(alerts, "state_changed", t, Nowhere)
             /\ fetched' = fetched \cup {t}
    <3> DEFINE a == [type |-> "state_changed", id |-> t, path |-> Nowhere, fresh |-> FALSE]
    <3>1. a \in Alert /\ a.id = t /\ a.type = "state_changed" /\ alerts' = Append(alerts, a)
      BY <2>2 DEF Alert, Posted
    <3> HIDE DEF a
    <3>2. alerts' \in Seq(Alert) /\ Put(a)
      BY <1>1, <1>4, <3>1, PutQueue DEF Typed
    <3> QED BY <2>2, <3>1, <3>2
  <2> QED BY <1>1, <2>1, <2>2
<1>9. Typed' /\ (Idle' => batch' = << >>)
  BY <1>1, <1>4, <1>7, <1>8 DEF Typed, PanelInv, Shape, Idle
<1>10. Ids' = Ids \cup {t}
  BY <1>5 DEF Ids
<1>11. Shape'
  <2>1. \/ Queue' = Queue
        \/ \E a \in Alert : Put(a) /\ a.id \in Ids' \cup {NoId}
    BY <1>8, <1>10
  <2> QED BY <1>6, <1>9, <1>10, <2>1, ShapeKept
<1>12. \A u \in Torrents : Noticed(u)'
  <2>1. \/ Queue' = Queue /\ fetched' \subseteq fetched
        \/ \E a \in Alert : Announcing(a)
    BY <1>8 DEF Announcing
  <2>2. Shape /\ (\A u \in Torrents : Noticed(u)) /\ seen_downloading \subseteq seen_downloading'
    BY <1>1 DEF PanelInv
  <2> QED BY <2>1, <2>2, NoticeSame
<1>13. /\ Shape /\ \A u \in Ids : Booked(u)
       /\ \A i \in 1 .. Len(Queue) : Queue[i].id \in Ids \cup {NoId}
  BY DEF PanelInv, Shape
<1>14. PICK n \in Nat : Len(Queue) = n
  BY <1>4, QueueType DEF Typed
<1> HIDE DEF Queue
<1>15. ASSUME NEW u \in Ids
       PROVE  Booked(u)'
  <2>1. NoWordOf(u)
    BY <1>1, <1>8 DEF NoWordOf
  <2>2. handles'[u] = handles[u] /\ records'[u] = records[u] /\ moves_pending' = moves_pending
    BY <1>1, <1>5, <1>6
  <2> QED BY <1>13, <2>1, <2>2, BookedStays
<1>16. Booked(t)'
  <2>1. \A i \in 1 .. Len(Queue) : Queue[i].id # t
    BY <1>1, <1>13, NoIdAssumption
  <2>2. \A i \in 1 .. Len(Queue') : ~(Queue'[i].id = t /\ IsMove(Queue'[i]))
    BY <1>8, <1>14, <2>1 DEF Put, IsMove
  <2>3. handles'[t].moving = Nowhere /\ records'[t].save_path = handles'[t].save_path
    BY <1>2, <1>3, <1>5, <1>6
  <2> QED BY <2>2, <2>3 DEF Booked, Moves, Reported, Located
<1> QED BY <1>10, <1>11, <1>12, <1>15, <1>16 DEF PanelInv

(* Removed torrents take what was said of them along.                       *)
LEMMA RemoveKeeps ==
  ASSUME PanelInv, PauseInv', NEW S \in SUBSET Torrents, RemoveTorrents(S)
  PROVE  PanelInv'
<1> USE DEF panel, settings, history
<1> DEFINE Gone(a) == IF a.id \in S THEN [a EXCEPT !.id = NoId] ELSE a
<1>1. /\ Idle /\ batch' = batch /\ polling' = polling
      /\ handles' = Restrict(handles, Ids \ S) /\ records' = Restrict(records, DOMAIN records \ S)
      /\ alerts' = [i \in DOMAIN alerts |-> Gone(alerts[i])]
      /\ fetched' = fetched \ (S \ seen_downloading)
      /\ UNCHANGED <<seen_downloading, moves_pending, stop_on_complete>>
  BY DEF RemoveTorrents
<1>2. /\ Typed /\ DOMAIN records = Ids /\ Ids \subseteq Torrents
  BY PanelTypes
<1>3. batch = << >>
  BY <1>1 DEF PanelInv, Shape
<1>4. /\ DOMAIN handles' = Ids \ S /\ \A u \in Ids \ S : handles'[u] = handles[u]
  BY <1>1, RestrictKeeps DEF PanelInv, PauseInv
<1>5. records' \in Partial(Torrents, Record) /\ DOMAIN records' = Ids \ S
  <2>1. records \in Partial(Torrents, Record)
    BY <1>2 DEF Typed
  <2>2. Less(records, S) \in Partial(Torrents, Record) /\ DOMAIN Less(records, S) = DOMAIN records \ S
    BY <2>1, PartialLess
  <2>3. records' = Less(records, S)
    BY <1>1, <1>2 DEF Less
  <2> QED BY <1>2, <2>2, <2>3
<1>6. \A u \in Ids \ S : records'[u] = records[u]
  BY <1>1, <1>2 DEF Restrict
<1>7. Queue = alerts /\ Queue' = alerts' /\ alerts \in Seq(Alert) /\ Len(alerts) \in Nat
  <2>1. alerts \in Seq(Alert) /\ Len(alerts) \in Nat /\ DOMAIN alerts = 1 .. Len(alerts)
    BY <1>2, LenProperties DEF Typed
  <2>2. alerts' \in Seq(Alert)
    <3>1. \A i \in 1 .. Len(alerts) : Gone(alerts[i]) \in Alert
      <4>1. \A a \in Alert : Gone(a) \in Alert
        BY DEF Alert
      <4> QED BY <2>1, <4>1, ElementOfSeq
    <3> HIDE DEF Gone
    <3> QED BY <1>1, <2>1, <3>1
  <2> QED BY <1>1, <1>3, <2>1, <2>2, ConcatEmptySeq DEF Queue
<1>8. PICK n \in Nat : Len(Queue) = n
  BY <1>7
<1>9. /\ Len(Queue') = n
      /\ \A i \in 1 .. n : /\ Queue[i] \in Alert /\ Queue'[i] = Gone(Queue[i])
  BY <1>1, <1>7, <1>8, ElementOfSeq
<1>10. alerts' \in Seq(Alert)
  <2>1. \A a \in Alert : Gone(a) \in Alert
    BY DEF Alert
  <2> HIDE DEF Gone
  <2> QED BY <1>1, <1>7, <2>1, ElementOfSeq, LenProperties
<1>11. ASSUME NEW i \in 1 .. n
       PROVE  /\ Queue'[i].type = Queue[i].type /\ Queue'[i].path = Queue[i].path
              /\ Queue'[i].fresh = Queue[i].fresh
              /\ Queue'[i].id = IF Queue[i].id \in S THEN NoId ELSE Queue[i].id
  BY <1>9 DEF Alert
<1> HIDE DEF Queue, Gone
<1>12. Ids' = Ids \ S
  BY <1>4 DEF Ids
<1>13. Typed' /\ (Idle' => batch' = << >>)
  BY <1>1, <1>2, <1>3, <1>5, <1>10 DEF Typed
<1>14. Shape'
  <2>1. TypeOK'
    <3>1. ASSUME PauseInv PROVE (TypeOK <=> Typed)
      BY <3>1, ShapeMeans
    <3>2. (PauseInv => (TypeOK <=> Typed))'
      BY ShapeMeans, PTL
    <3> QED BY <1>13, <3>2
  <2>2. \A i \in 1 .. Len(Queue) : Queue[i].id \in Ids \cup {NoId}
    BY DEF PanelInv, Shape
  <2>3. \A i \in 1 .. Len(Queue') : Queue'[i].id \in Ids' \cup {NoId}
    BY <1>8, <1>9, <1>11, <1>12, <2>2
  <2> QED BY <1>5, <1>12, <1>13, <2>1, <2>3 DEF Shape
<1>15. ASSUME NEW u \in Ids \ S
       PROVE  Booked(u)'
  <2>1. Moves(u) /\ Reported(u) /\ Located(u)
    BY DEF PanelInv, Booked
  <2>2. u # NoId
    BY <1>2, NoIdAssumption
  <2>3. \A i \in 1 .. n : /\ Queue'[i].id = u <=> Queue[i].id = u
                          /\ Queue'[i].type = Queue[i].type /\ Queue'[i].path = Queue[i].path
    BY <1>11, <2>2
  <2>4. handles'[u] = handles[u] /\ records'[u] = records[u] /\ moves_pending' = moves_pending
    BY <1>1, <1>4, <1>6
  <2>5. Moves(u)'
    BY <1>8, <1>9, <2>1, <2>3, <2>4 DEF Moves, IsMove
  <2>6. Reported(u)'
    BY <1>8, <1>9, <2>1, <2>3, <2>4 DEF Reported, IsMove
  <2>7. Located(u)'
    BY <1>8, <1>9, <2>1, <2>3, <2>4 DEF Located, IsMove
  <2> QED BY <2>5, <2>6, <2>7 DEF Booked
<1>16. ASSUME NEW u \in Torrents
       PROVE  Noticed(u)'
  <2>0. u # NoId
    BY NoIdAssumption
  <2>1. CASE u \in S
    <3>1. \A i \in 1 .. n : ~Finishes(i, u)'
      BY <1>11, <2>0, <2>1 DEF Finishes
    <3>2. u \in fetched' => u \in seen_downloading'
      BY <1>1, <2>1
    <3>3. u \in fetched' => SeenAfter(n, u)'
      BY <3>1, <3>2 DEF SeenAfter
    <3> QED BY <1>9, <3>1, <3>3 DEF Noticed
  <2>2. CASE u \notin S
    <3>1. \A i \in 1 .. n : /\ Finishes(i, u)' <=> Finishes(i, u)
                            /\ Starts(i, u)' <=> Starts(i, u)
                            /\ Queue'[i].fresh = Queue[i].fresh
      BY <1>11, <2>0, <2>2 DEF Finishes, Starts
    <3>2. ASSUME NEW k \in Nat, k <= n, SeenAfter(k, u)
          PROVE  SeenAfter(k, u)'
      <4>1. \A i \in 1 .. k : /\ Finishes(i, u)' <=> Finishes(i, u)
                              /\ Starts(i, u)' <=> Starts(i, u)
        BY <3>1, <3>2
      <4>2. CASE u \in seen_downloading /\ \A i \in 1 .. k : ~Finishes(i, u)
        BY <1>1, <4>1, <4>2 DEF SeenAfter
      <4>3. ASSUME NEW j \in 1 .. k, Starts(j, u), \A i \in j .. k : ~Finishes(i, u)
            PROVE  SeenAfter(k, u)'
        <5>1. Starts(j, u)' /\ \A i \in j .. k : ~Finishes(i, u)'
          BY <4>1, <4>3
        <5> QED BY <5>1 DEF SeenAfter
      <4> QED BY <3>2, <4>2, <4>3 DEF SeenAfter
    <3>3. /\ u \in fetched => SeenAfter(n, u)
          /\ \A i \in 1 .. n : Finishes(i, u) /\ Queue[i].fresh => SeenAfter(i - 1, u)
      BY <1>8 DEF PanelInv, Noticed
    <3>4. u \in fetched' => SeenAfter(n, u)'
      BY <1>1, <3>2, <3>3
    <3>5. ASSUME NEW i \in 1 .. n, Finishes(i, u)', Queue'[i].fresh
          PROVE  SeenAfter(i - 1, u)'
      <4>1. SeenAfter(i - 1, u) /\ i - 1 \in Nat /\ i - 1 <= n
        BY <3>1, <3>3, <3>5
      <4> QED BY <3>2, <4>1
    <3> QED BY <1>9, <3>4, <3>5 DEF Noticed
  <2> QED BY <2>1, <2>2
<1> QED BY <1>12, <1>14, <1>15, <1>16 DEF PanelInv

LEMMA SettingSame ==
  ASSUME PanelInv, PauseInv',
         \/ \E on \in BOOLEAN : SetStopOnComplete(on)
         \/ \E d \in Folders \cup {Nowhere} : SetMoveCompleted(d)
  PROVE  PanelInv'
<1> USE DEF panel, settings, history
<1>0. Typed
  BY PanelTypes
<1>1. CASE \E on \in BOOLEAN : SetStopOnComplete(on)
  <2>1. /\ records' = records /\ batch' = batch /\ polling' = polling /\ alerts' = alerts
        /\ UNCHANGED <<seen_downloading, moves_pending, fetched>>
        /\ stop_on_complete' \in BOOLEAN /\ \E S : handles' = Pausing(S)
    BY <1>1, Zenon DEF SetStopOnComplete
  <2>2. FilesStay /\ RecordsStay /\ records' \in Partial(Torrents, Record)
    BY <1>0, <2>1, PausingStays, SameStays DEF Typed
  <2> QED BY <2>1, <2>2, SpokenSame
<1>2. CASE \E d \in Folders \cup {Nowhere} : SetMoveCompleted(d)
  <2>1. /\ records' = records /\ batch' = batch /\ polling' = polling /\ alerts' = alerts
        /\ UNCHANGED <<handles, seen_downloading, moves_pending, fetched, stop_on_complete>>
    BY <1>2, Zenon DEF SetMoveCompleted
  <2>2. /\ FilesStay /\ RecordsStay /\ records' \in Partial(Torrents, Record)
        /\ stop_on_complete' \in BOOLEAN
    BY <1>0, <2>1, SameStays DEF Typed
  <2> QED BY <2>1, <2>2, SpokenSame
<1> QED BY <1>1, <1>2

-----------------------------------------------------------------------------
LEMMA PanelNext ==
  ASSUME PanelInv, [Next]_vars
  PROVE  PanelInv'
<1>1. PauseInv'
  BY PauseNext DEF PanelInv
<1>2. CASE PollStep
  BY <1>1, <1>2, PollPanel
<1>3. ASSUME NEW t \in Torrents, LtStep(t)
      PROVE  PanelInv'
  BY <1>1, <1>3, LtSame, LtMovedKeeps DEF LtStep
<1>4. ASSUME NEW t \in Torrents, Command(t)
      PROVE  PanelInv'
  BY <1>1, <1>4, CommandSame, MoveFilesKeeps, AddKeeps DEF Command
<1>5. ASSUME NEW S \in SUBSET Torrents, RemoveTorrents(S)
      PROVE  PanelInv'
  BY <1>1, <1>5, RemoveKeeps
<1>6. CASE \/ \E on \in BOOLEAN : SetStopOnComplete(on)
           \/ \E d \in Folders \cup {Nowhere} : SetMoveCompleted(d)
  BY <1>1, <1>6, SettingSame
<1>7. CASE UNCHANGED vars
  <2>1. /\ records' = records /\ batch' = batch /\ polling' = polling /\ alerts' = alerts
        /\ UNCHANGED <<handles, seen_downloading, moves_pending, fetched, stop_on_complete>>
    BY <1>7 DEF vars
  <2>2. /\ FilesStay /\ RecordsStay /\ records' \in Partial(Torrents, Record)
        /\ stop_on_complete' \in BOOLEAN
    BY <2>1, SameStays, PanelTypes DEF Typed
  <2> QED BY <1>1, <2>1, <2>2, SpokenSame
<1> QED BY <1>2, <1>3, <1>4, <1>5, <1>6, <1>7 DEF Next

LEMMA PanelInit == ASSUME Init PROVE PanelInv
<1>1. PauseInv
  BY PauseInit
<1>2. /\ DOMAIN records = {} /\ records \in [{} -> Record]
      /\ DOMAIN moves_pending = {} /\ moves_pending \in [{} -> Folders]
      /\ Ids = {} /\ fetched = {}
  BY DEF Init, Ids
<1>3. records \in Partial(Torrents, Record) /\ moves_pending \in Partial(Torrents, Folders)
  BY <1>2, PartialMeans
<1>4. alerts \in Seq(Alert) /\ batch \in Seq(Alert) /\ Queue = << >> /\ Len(Queue) = 0
  BY EmptySeq, ConcatEmptySeq DEF Init, Queue
<1>5. Typed
  BY <1>3, <1>4 DEF Typed, Init
<1> HIDE DEF Queue
<1>6. Shape
  BY <1>1, <1>2, <1>4, <1>5, ShapeMeans DEF Shape, Init
<1>7. \A t \in Torrents : Noticed(t)
  BY <1>2, <1>4 DEF Noticed
<1> QED BY <1>1, <1>2, <1>6, <1>7 DEF PanelInv

(* Of whatever the run is, the tab takes its own steps only.                *)
LEMMA TabSteps == TorrentsSpec => Spec
<1>1. TorrentsInit => Init
  BY DEF TorrentsInit, Untouched
<1>2. [TorrentsNext]_<<vars, sessionVars, subject>> => [Next]_vars
  BY DEF TorrentsNext
<1> QED BY <1>1, <1>2, PTL DEF TorrentsSpec, Spec

LEMMA PanelAlways == Spec => []PanelInv
BY PanelInit, PanelNext, PTL DEF Spec

LEMMA BooksAgree ==
  ASSUME PanelInv
  PROVE  TypeOK /\ MovesKnown /\ RecordFollowsFiles
<1>1. TypeOK /\ \A t \in Ids : Moves(t) /\ Located(t)
  BY DEF PanelInv, Shape, Booked
<1>2. ASSUME NEW t \in Ids
      PROVE  Outstanding(t, "storage_moved") \/ records[t].save_path = handles[t].save_path
  <2>1. ASSUME NEW i \in 1 .. Len(Queue), Queue[i].id = t, Queue[i].type = "storage_moved"
        PROVE  Outstanding(t, "storage_moved")
    <3>1. /\ Len(batch) \in Nat /\ Len(alerts) \in Nat /\ Len(Queue) = Len(batch) + Len(alerts)
          /\ Queue[i] = IF i <= Len(batch) THEN batch[i] ELSE alerts[i - Len(batch)]
          /\ DOMAIN batch = 1 .. Len(batch) /\ DOMAIN alerts = 1 .. Len(alerts)
      BY <1>1, QueueType, LenProperties DEF TypeOK
    <3> HIDE DEF Queue
    <3>2. CASE i <= Len(batch)
      <4>1. i \in DOMAIN batch
        BY <3>1, <3>2
      <4> QED BY <2>1, <3>1, <3>2, <4>1 DEF Outstanding
    <3>3. CASE ~(i <= Len(batch))
      <4>1. i - Len(batch) \in DOMAIN alerts
        BY <3>1, <3>3
      <4> QED BY <2>1, <3>1, <3>3, <4>1 DEF Outstanding
    <3> QED BY <3>2, <3>3
  <2> QED BY <1>1, <2>1 DEF Located
<1> QED BY <1>1, <1>2 DEF MovesKnown, RecordFollowsFiles, Moves

(* What libtorrent is moving the panel knows of, so that no second move is  *)
(* started under the first; and once a move has been reported, the record   *)
(* names the folder the files are in -- though the reports come from        *)
(* libtorrent's threads, late, and commands, completions and removals come  *)
(* in between (move_torrents, on_storage_moved, _poll).                     *)
THEOREM MovesAlwaysExact == TorrentsSpec => []MovesExact
<1>1. PanelInv => MovesExact
  BY BooksAgree DEF MovesExact
<1> QED BY <1>1, TabSteps, PanelAlways, PTL

(* A torrent that has downloaded was seen downloading by the time its       *)
(* completion is handled, even if both fell between two polls: the start is *)
(* reported in order, before the completion (engine.download_started), and  *)
(* a completion handled earlier has not used it up.                         *)
THEOREM AlwaysSeenBeforeFinished == TorrentsSpec => []SeenBeforeFinished
<1>1. ASSUME PanelInv PROVE SeenBeforeFinished
  <2> SUFFICES ASSUME batch # << >>, Head(batch).type = "torrent_finished", Head(batch).fresh
               PROVE  Head(batch).id \in seen_downloading \cup {NoId}
    BY DEF SeenBeforeFinished
  <2>1. Typed /\ Ids \subseteq Torrents
    BY <1>1, PanelTypes
  <2>2. Len(batch) \in Nat /\ Len(batch) > 0 /\ Head(batch) = batch[1]
    BY <2>1, EmptySeq, LenProperties DEF Typed
  <2>3. 1 \in 1 .. Len(Queue) /\ Queue[1] = Head(batch)
    BY <2>1, <2>2, QueueType DEF Typed
  <2> HIDE DEF Queue
  <2>4. Queue[1].id \in Ids \cup {NoId}
    BY <1>1, <2>3 DEF PanelInv, Shape
  <2>5. ASSUME Queue[1].id \in Torrents
        PROVE  Queue[1].id \in seen_downloading
    <3>1. Finishes(1, Queue[1].id) /\ Queue[1].fresh /\ Noticed(Queue[1].id)
      BY <1>1, <2>3, <2>5 DEF Finishes, PanelInv
    <3>2. SeenAfter(0, Queue[1].id)
      BY <2>3, <3>1 DEF Noticed
    <3> QED BY <3>2 DEF SeenAfter
  <2> QED BY <2>1, <2>3, <2>4, <2>5
<1> QED BY <1>1, TabSteps, PanelAlways, PTL

(***************************************************************************)
(* What is saved.  The invariant of TorrentSession says                    *)
(*   Lists       that the records are those of the torrents of the session,*)
(*               and each has a source to be added again from;             *)
(*   Wanted      that what the user wanted is there, or its blob is torn;  *)
(*   AsAnswered, AsWritten, AsLeft   that the pauses of a closing nothing  *)
(*               disturbed are in the blobs: received, on their way to the *)
(*               disk, on the disk.                                        *)
(***************************************************************************)
Listed == DOMAIN torrents
Torn(s, t) == Saved(s)!Fails(t)
Reaching == IF phase = "down" THEN DOMAIN diskRecords ELSE Listed

HandleMaps(s)  == Partial(SavedOf(s), Saved(s)!Handle)
RecordMaps(s)  == Partial(SavedOf(s), Saved(s)!Record)
BlobMaps(s)    == Partial(SavedOf(s), Saved(s)!Handle \cup Saved(s)!Broken)
PendingMaps(s) == Partial(SavedOf(s) \cup {NoId}, Saved(s)!Handle)

LiveTyped(s) ==
  /\ phase \in { "down", "running", "waiting", "writing" }
  /\ torrents \in HandleMaps(s)
  /\ session_records \in RecordMaps(s)
  /\ moved \in SUBSET SavedOf(s)
  /\ requests \in [SavedOf(s) -> 0 .. MaxRequests + 1]
  /\ answers \in [SavedOf(s) \cup {NoId} -> Seq(Saved(s)!Handle)]
  /\ pending \in PendingMaps(s)
  /\ expected \in 0 .. Cardinality(SavedOf(s))
  /\ files \in [SavedOf(s) -> FoldersOf(s)]

DiskTyped(s) ==
  /\ diskRecords \in RecordMaps(s)
  /\ diskBlobs \in BlobMaps(s)
  /\ diskCopies \in SUBSET SavedOf(s)

PastTyped(s) ==
  /\ want \in SUBSET SavedOf(s) /\ left \in SUBSET SavedOf(s)
  /\ stopped \in SUBSET SavedOf(s) /\ told \in SUBSET SavedOf(s)

FlagsTyped == intact \in BOOLEAN /\ exact \in BOOLEAN

Lists(s) ==
  /\ DOMAIN session_records = Listed
  /\ Listed \cup DOMAIN diskRecords \subseteq Magnets \cup diskCopies
  /\ phase = "down" => /\ Listed = {} /\ DOMAIN pending = {} /\ moved = {}
                       /\ requests = Saved(s)!NoRequests /\ answers = Saved(s)!NoAnswers
  /\ moved \subseteq Listed
  /\ \A t \in SavedOf(s) : requests[t] # 0 \/ answers[t] # << >> => t \in Listed
  /\ phase = "running" => \A t \in SavedOf(s) : requests[t] <= MaxRequests

Wanted(s) ==
  intact => /\ Reaching \subseteq want
            /\ \A t \in want \ Reaching : Torn(s, t) /\ t \notin DOMAIN pending

Answers(t, p) == \A i \in 1 .. Len(answers[t]) : answers[t][i].paused = p

AsAnswered(s) ==
  phase = "waiting" /\ exact =>
    /\ expected = Cardinality(Listed) /\ DOMAIN pending \subseteq Listed
    /\ answers[NoId] = << >>
    /\ \A t \in DOMAIN pending : pending[t].paused = torrents[t].paused
    /\ \A t \in Listed : Answers(t, torrents[t].paused)

Holds(s, f, t, p) == t \in DOMAIN f /\ f[t] \in Saved(s)!Handle /\ f[t].paused = p

AsWritten(s) ==
  phase = "writing" /\ exact /\ intact =>
    \A t \in Listed : \/ Holds(s, pending, t, torrents[t].paused)
                      \/ t \notin DOMAIN pending /\ Holds(s, diskBlobs, t, torrents[t].paused)

AsLeft(s) ==
  phase = "down" /\ exact /\ intact =>
    \A t \in DOMAIN diskRecords : Holds(s, diskBlobs, t, t \in left)

SessionInv(s) ==
  /\ LiveTyped(s) /\ DiskTyped(s) /\ PastTyped(s) /\ FlagsTyped
  /\ Lists(s) /\ Wanted(s) /\ AsAnswered(s) /\ AsWritten(s) /\ AsLeft(s)

LEMMA SameParts ==
  ASSUME NEW s
  PROVE  /\ \A S, V : Saved(s)!Partial(S, V) = Partial(S, V)
         /\ \A f, t, v : Saved(s)!With(f, t, v) = With(f, t, v)
         /\ \A f, t : Saved(s)!Without(f, t) = Without(f, t)
         /\ \A f, D : Saved(s)!Restrict(f, D) = Restrict(f, D)
         /\ \A S : Saved(s)!Cardinality(S) = Cardinality(S)
         /\ Saved(s)!Ids = Listed
<1>1. \A S, V : Saved(s)!Partial(S, V) = Partial(S, V)
  BY Zenon DEF Saved!Partial, Partial
<1>2. \A f, t, v : Saved(s)!With(f, t, v) = With(f, t, v)
  BY Zenon DEF Saved!With, With
<1>3. \A f, t : Saved(s)!Without(f, t) = Without(f, t)
  BY Zenon DEF Saved!Without, Without, Saved!Restrict, Restrict
<1>4. Saved(s)!Ids = Listed
  BY DEF Saved!Ids, Listed
<1>5. \A S : Saved(s)!Cardinality(S) = Cardinality(S)
  BY Zenon DEF Saved!Cardinality, Cardinality
<1>6. \A f, D : Saved(s)!Restrict(f, D) = Restrict(f, D)
  BY Zenon DEF Saved!Restrict, Restrict
<1> QED BY <1>1, <1>2, <1>3, <1>4, <1>5, <1>6

LEMMA SessionTypes ==
  ASSUME NEW s
  PROVE  Saved(s)!TypeOK <=> LiveTyped(s) /\ DiskTyped(s) /\ PastTyped(s) /\ FlagsTyped
<1>1. /\ Saved(s)!Partial(SavedOf(s), Saved(s)!Handle) = Partial(SavedOf(s), Saved(s)!Handle)
      /\ Saved(s)!Partial(SavedOf(s), Saved(s)!Record) = Partial(SavedOf(s), Saved(s)!Record)
      /\ Saved(s)!Partial(SavedOf(s) \cup {NoId}, Saved(s)!Handle)
           = Partial(SavedOf(s) \cup {NoId}, Saved(s)!Handle)
      /\ Saved(s)!Partial(SavedOf(s), Saved(s)!Handle \cup Saved(s)!Broken)
           = Partial(SavedOf(s), Saved(s)!Handle \cup Saved(s)!Broken)
      /\ Saved(s)!Cardinality(SavedOf(s)) = Cardinality(SavedOf(s))
  BY SameParts
<1> QED BY <1>1 DEF Saved!TypeOK, Saved!Phases, LiveTyped, DiskTyped, PastTyped, FlagsTyped,
                 HandleMaps, RecordMaps, BlobMaps, PendingMaps

(* Which torrents the session is about.                                     *)
LEMMA SavedSet ==
  ASSUME NEW s
  PROVE  /\ IsFiniteSet(SavedOf(s)) /\ NoId \notin SavedOf(s)
         /\ \A S \in SUBSET SavedOf(s) :
              /\ IsFiniteSet(S) /\ Cardinality(S) \in Nat
              /\ Cardinality(S) <= Cardinality(SavedOf(s))
<1>1. IsFiniteSet(SavedOf(s)) /\ NoId \notin SavedOf(s)
  BY SavedAssumption DEF SavedOf
<1> QED BY <1>1, FS_Subset, FS_CardinalityType


LEMMA AskingFits ==
  ASSUME NEW s, LiveTyped(s), NEW t \in SavedOf(s), Saved(s)!CanAsk(t), Saved(s)!Asked(t)
  PROVE  /\ requests' \in [SavedOf(s) -> 0 .. MaxRequests + 1]
         /\ \A u \in SavedOf(s) : requests'[u] # requests[u] => u = t /\ requests'[u] <= MaxRequests
<1>1. /\ requests \in [SavedOf(s) -> 0 .. MaxRequests + 1] /\ answers[t] \in Seq(Saved(s)!Handle)
      /\ MaxRequests \in Nat
  BY RequestsAssumption DEF LiveTyped
<1>2. Len(answers[t]) \in Nat /\ requests[t] \in Nat
  BY <1>1, LenProperties
<1>3. requests[t] + 1 <= MaxRequests /\ requests' = [requests EXCEPT ![t] = requests[t] + 1]
  <2>1. requests[t] + Len(answers[t]) < MaxRequests
    BY DEF Saved!CanAsk
  <2> QED BY <1>1, <1>2, <2>1 DEF Saved!Asked
<1> QED BY <1>1, <1>2, <1>3

LEMMA WithDomain == \A f, t, v : DOMAIN With(f, t, v) = DOMAIN f \cup {t}
BY DEF With

LEMMA WithTyped ==
  ASSUME NEW S, NEW V, NEW f \in Partial(S, V), NEW t \in S, NEW v \in V
  PROVE  With(f, t, v) \in Partial(S, V)
<1> DEFINE g == With(f, t, v)
<1>1. DOMAIN f \subseteq S /\ f \in [DOMAIN f -> V]
  BY PartialMeans
<1>2. DOMAIN g = DOMAIN f \cup {t} /\ g \in [DOMAIN f \cup {t} -> V]
  BY <1>1 DEF With
<1> HIDE DEF g
<1>3. g \in Partial(S, V)
  BY <1>1, <1>2, PartialMeans
<1> QED BY <1>3 DEF g

LEMMA ExceptTyped ==
  ASSUME NEW S, NEW V, NEW f \in Partial(S, V), NEW t \in DOMAIN f, NEW v \in V
  PROVE  [f EXCEPT ![t] = v] \in Partial(S, V) /\ DOMAIN [f EXCEPT ![t] = v] = DOMAIN f
<1> DEFINE g == [f EXCEPT ![t] = v]
<1>1. DOMAIN f \subseteq S /\ f \in [DOMAIN f -> V]
  BY PartialMeans
<1>2. DOMAIN g = DOMAIN f /\ g \in [DOMAIN f -> V]
  BY <1>1
<1> HIDE DEF g
<1>3. g \in Partial(S, V)
  BY <1>1, <1>2, PartialMeans
<1> QED BY <1>2, <1>3 DEF g

LEMMA HandleWith ==
  ASSUME NEW s, NEW f \in HandleMaps(s), NEW t \in SavedOf(s), NEW v \in Saved(s)!Handle
  PROVE  With(f, t, v) \in HandleMaps(s)
BY WithTyped DEF HandleMaps

LEMMA RecordWith ==
  ASSUME NEW s, NEW f \in RecordMaps(s), NEW t \in SavedOf(s), NEW v \in Saved(s)!Record
  PROVE  With(f, t, v) \in RecordMaps(s)
BY WithTyped DEF RecordMaps

LEMMA BlobWith ==
  ASSUME NEW s, NEW f \in BlobMaps(s), NEW t \in SavedOf(s),
         NEW v \in Saved(s)!Handle \cup Saved(s)!Broken
  PROVE  With(f, t, v) \in BlobMaps(s)
BY WithTyped DEF BlobMaps

LEMMA PendingWith ==
  ASSUME NEW s, NEW f \in PendingMaps(s), NEW t \in SavedOf(s) \cup {NoId},
         NEW v \in Saved(s)!Handle
  PROVE  With(f, t, v) \in PendingMaps(s)
BY WithTyped DEF PendingMaps

LEMMA HandleExcept ==
  ASSUME NEW s, NEW f \in HandleMaps(s), NEW t \in DOMAIN f, NEW v \in Saved(s)!Handle
  PROVE  [f EXCEPT ![t] = v] \in HandleMaps(s) /\ DOMAIN [f EXCEPT ![t] = v] = DOMAIN f
BY ExceptTyped DEF HandleMaps

LEMMA RecordExcept ==
  ASSUME NEW s, NEW f \in RecordMaps(s), NEW t \in DOMAIN f, NEW v \in Saved(s)!Record
  PROVE  [f EXCEPT ![t] = v] \in RecordMaps(s) /\ DOMAIN [f EXCEPT ![t] = v] = DOMAIN f
BY ExceptTyped DEF RecordMaps

LEMMA WithoutDomain == \A f, t : DOMAIN Without(f, t) = DOMAIN f \ {t}
BY DEF Without, Restrict

LEMMA HandleWithout ==
  ASSUME NEW s, NEW f \in HandleMaps(s), NEW t
  PROVE  Without(f, t) \in HandleMaps(s)
BY PartialWithout DEF HandleMaps

LEMMA RecordWithout ==
  ASSUME NEW s, NEW f \in RecordMaps(s), NEW t
  PROVE  Without(f, t) \in RecordMaps(s)
BY PartialWithout DEF RecordMaps

LEMMA BlobWithout ==
  ASSUME NEW s, NEW f \in BlobMaps(s), NEW t
  PROVE  Without(f, t) \in BlobMaps(s)
BY PartialWithout DEF BlobMaps

LEMMA PendingWithout ==
  ASSUME NEW s, NEW f \in PendingMaps(s), NEW t
  PROVE  Without(f, t) \in PendingMaps(s)
BY PartialWithout DEF PendingMaps

LEMMA MapsMean ==
  ASSUME NEW s
  PROVE  /\ \A f \in HandleMaps(s) : DOMAIN f \subseteq SavedOf(s) /\ \A t \in DOMAIN f : f[t] \in Saved(s)!Handle
         /\ \A f \in RecordMaps(s) : DOMAIN f \subseteq SavedOf(s) /\ \A t \in DOMAIN f : f[t] \in Saved(s)!Record
         /\ \A f \in BlobMaps(s) :
              /\ DOMAIN f \subseteq SavedOf(s)
              /\ \A t \in DOMAIN f : f[t] \in Saved(s)!Handle \cup Saved(s)!Broken
         /\ \A f \in PendingMaps(s) :
              DOMAIN f \subseteq SavedOf(s) \cup {NoId} /\ \A t \in DOMAIN f : f[t] \in Saved(s)!Handle
BY PartialTyped DEF HandleMaps, RecordMaps, BlobMaps, PendingMaps

LEMMA Disturbed ==
  ASSUME NEW s, exact' => phase' = "running"
  PROVE  AsAnswered(s)' /\ AsWritten(s)' /\ AsLeft(s)'
BY DEF AsAnswered, AsWritten, AsLeft

LEMMA CommandedFlags ==
  ASSUME NEW s, FlagsTyped, Saved(s)!Commanded, phase' = phase, intact' = intact
  PROVE  FlagsTyped' /\ (exact' => phase' = "running")
<1>1. exact' \in BOOLEAN
  BY Zenon DEF Saved!Commanded
<1>2. exact' => phase' = "running"
  BY Zenon DEF Saved!Commanded
<1>3. intact' \in BOOLEAN
  BY DEF FlagsTyped
<1> QED BY <1>1, <1>2, <1>3 DEF FlagsTyped

LEMMA WantedSame ==
  ASSUME NEW s, Wanted(s), intact' = intact, Reaching' = Reaching, want' = want,
         diskBlobs' = diskBlobs,
         \A t \in want \ Reaching : t \in DOMAIN pending' => t \in DOMAIN pending
  PROVE  Wanted(s)'
<1>1. \A t : Torn(s, t)' = Torn(s, t)
  BY DEF Torn, Saved!Fails, Saved!Blob
<1> QED BY <1>1 DEF Wanted

LEMMA AddTorrentKeeps ==
  ASSUME NEW s, SessionInv(s), NEW t \in SavedOf(s), NEW d \in FoldersOf(s),
         Saved(s)!AddTorrent(t, d)
  PROVE  SessionInv(s)'
<1> DEFINE h == [save_path |-> d, paused |-> FALSE]
           r == [save_path |-> d]
<1>1. /\ phase \in { "running", "waiting" } /\ t \notin Listed
      /\ torrents' = With(torrents, t, h) /\ session_records' = With(session_records, t, r)
      /\ diskCopies' = IF t \in Magnets THEN diskCopies ELSE diskCopies \cup {t}
      /\ files' = [files EXCEPT ![t] = d] /\ want' = want \cup {t} /\ told' = told \ {t}
      /\ UNCHANGED <<phase, moved, requests, answers, pending, expected, diskRecords, diskBlobs,
                     intact, left, stopped>>
  BY SameParts DEF Saved!AddTorrent, Saved!Responsive
<1>2. LiveTyped(s) /\ DiskTyped(s) /\ PastTyped(s) /\ FlagsTyped /\ Lists(s) /\ Wanted(s)
  BY DEF SessionInv
<1>3. FlagsTyped' /\ (exact' => phase' = "running")
  <2>1. Saved(s)!Commanded
    BY DEF Saved!AddTorrent
  <2> QED BY <1>1, <1>2, <2>1, CommandedFlags
<1>4. h \in Saved(s)!Handle /\ r \in Saved(s)!Record
  BY DEF Saved!Handle, Saved!Record
<1> HIDE DEF h, r
<1>5. torrents' \in HandleMaps(s) /\ Listed' = Listed \cup {t}
  <2>1. torrents \in HandleMaps(s)
    BY <1>2 DEF LiveTyped
  <2> QED BY <1>1, <1>4, <2>1, HandleWith, WithDomain DEF Listed
<1>6. session_records' \in RecordMaps(s) /\ DOMAIN session_records' = DOMAIN session_records \cup {t}
  <2>1. session_records \in RecordMaps(s)
    BY <1>2 DEF LiveTyped
  <2> QED BY <1>1, <1>4, <2>1, RecordWith, WithDomain
<1>7. LiveTyped(s)'
  BY <1>1, <1>2, <1>5, <1>6 DEF LiveTyped
<1>8. DiskTyped(s)' /\ PastTyped(s)'
  BY <1>1, <1>2 DEF DiskTyped, PastTyped
<1>9. Lists(s)'
  BY <1>1, <1>2, <1>5, <1>6 DEF Lists
<1>10. Wanted(s)'
  <2>1. \A u : Torn(s, u)' = Torn(s, u)
    BY <1>1 DEF Torn, Saved!Fails, Saved!Blob
  <2> QED BY <1>1, <1>2, <1>5, <2>1 DEF Wanted, Reaching
<1> QED BY <1>3, <1>7, <1>8, <1>9, <1>10, Disturbed DEF SessionInv

LEMMA SetPausedKeeps ==
  ASSUME NEW s, SessionInv(s), NEW t \in SavedOf(s),
         (\E p \in BOOLEAN : Saved(s)!SetPaused(t, p)) \/ Saved(s)!StopOnComplete(t)
  PROVE  SessionInv(s)'
<1>1. PICK p \in BOOLEAN :
        /\ phase \in { "running", "waiting" } /\ t \in Listed
        /\ torrents' = [torrents EXCEPT ![t].paused = p]
        /\ requests' = requests \/ (Saved(s)!CanAsk(t) /\ Saved(s)!Asked(t))
        /\ stopped' \in SUBSET (stopped \cup {t}) /\ told' = told \ {t}
        /\ UNCHANGED <<phase, session_records, moved, answers, pending, expected, files,
                       diskRecords, diskBlobs, diskCopies, want, intact, left>>
        /\ Saved(s)!Commanded
  BY SameParts DEF Saved!SetPaused, Saved!StopOnComplete, Saved!Responsive, Saved!disk
<1>2. LiveTyped(s) /\ DiskTyped(s) /\ PastTyped(s) /\ FlagsTyped /\ Lists(s) /\ Wanted(s)
  BY DEF SessionInv
<1>3. FlagsTyped' /\ (exact' => phase' = "running")
  BY <1>1, <1>2, CommandedFlags
<1>4. torrents' \in HandleMaps(s) /\ Listed' = Listed
  <2>0. torrents \in HandleMaps(s) /\ t \in DOMAIN torrents
    BY <1>1, <1>2 DEF LiveTyped, Listed
  <2>1. torrents[t] \in Saved(s)!Handle
    BY <2>0, MapsMean
  <2> DEFINE h == [torrents[t] EXCEPT !.paused = p]
  <2>2. h \in Saved(s)!Handle
    BY <2>1 DEF Saved!Handle
  <2>3. torrents' = [torrents EXCEPT ![t] = h]
    BY <1>1
  <2> HIDE DEF h
  <2> QED BY <2>0, <2>2, <2>3, HandleExcept DEF Listed
<1>5. /\ requests' \in [SavedOf(s) -> 0 .. MaxRequests + 1]
      /\ \A u \in SavedOf(s) : requests'[u] # requests[u] => u = t /\ requests'[u] <= MaxRequests
  BY <1>1, <1>2, AskingFits DEF LiveTyped
<1>6. LiveTyped(s)' /\ DiskTyped(s)' /\ PastTyped(s)'
  BY <1>1, <1>2, <1>4, <1>5 DEF LiveTyped, DiskTyped, PastTyped
<1>7. Lists(s)'
  BY <1>1, <1>2, <1>4, <1>5 DEF Lists
<1>8. Wanted(s)'
  BY <1>1, <1>2, <1>4, WantedSame DEF Reaching
<1> QED BY <1>3, <1>6, <1>7, <1>8, Disturbed DEF SessionInv

LEMMA RemoveTorrentKeeps ==
  ASSUME NEW s, SessionInv(s), NEW t \in SavedOf(s), Saved(s)!RemoveTorrent(t)
  PROVE  SessionInv(s)'
<1>1. /\ phase \in { "running", "waiting" } /\ t \in Listed
      /\ torrents' = Without(torrents, t) /\ session_records' = Without(session_records, t)
      /\ diskBlobs' = Without(diskBlobs, t) /\ moved' = moved \ {t}
      /\ requests' = [requests EXCEPT ![t] = 0]
      /\ want' = want \ {t} /\ stopped' = stopped \ {t} /\ told' = told \ {t}
      /\ UNCHANGED <<phase, pending, expected, files, diskRecords, diskCopies, intact, left>>
  BY SameParts DEF Saved!RemoveTorrent, Saved!Responsive
<1>2. LiveTyped(s) /\ DiskTyped(s) /\ PastTyped(s) /\ FlagsTyped /\ Lists(s) /\ Wanted(s)
  BY DEF SessionInv
<1>3. FlagsTyped' /\ (exact' => phase' = "running")
  <2>1. Saved(s)!Commanded
    BY DEF Saved!RemoveTorrent
  <2> QED BY <1>1, <1>2, <2>1, CommandedFlags
<1>4. /\ answers' \in [SavedOf(s) \cup {NoId} -> Seq(Saved(s)!Handle)] /\ answers'[t] = << >>
      /\ \A u \in SavedOf(s) \ {t} : answers'[u] = answers[u]
  <2>1. /\ answers' = [answers EXCEPT ![t] = << >>, ![NoId] = @ \o answers[t]]
        /\ answers \in [SavedOf(s) \cup {NoId} -> Seq(Saved(s)!Handle)] /\ t # NoId
    BY <1>2, SavedSet DEF Saved!RemoveTorrent, LiveTyped
  <2> DEFINE q == answers[NoId] \o answers[t]
  <2>2. q \in Seq(Saved(s)!Handle) /\ << >> \in Seq(Saved(s)!Handle)
    BY <2>1, ConcatProperties, EmptySeq
  <2>3. answers' = [u \in SavedOf(s) \cup {NoId} |->
                     IF u = t THEN << >> ELSE IF u = NoId THEN q ELSE answers[u]]
    <3> DEFINE a == [answers EXCEPT ![t] = << >>]
    <3>1. a = [u \in SavedOf(s) \cup {NoId} |-> IF u = t THEN << >> ELSE answers[u]]
      BY <2>1
    <3>2. answers' = [a EXCEPT ![NoId] = a[NoId] \o answers[t]]
      BY <2>1, Zenon
    <3> HIDE DEF a
    <3>3. a[NoId] = answers[NoId]
      BY <2>1, <3>1
    <3>4. answers' = [a EXCEPT ![NoId] = q]
      BY <3>2, <3>3
    <3> HIDE DEF q
    <3> QED BY <2>1, <3>1, <3>4
  <2> HIDE DEF q
  <2> QED BY <2>1, <2>2, <2>3, SavedSet
<1>5. torrents' \in HandleMaps(s) /\ Listed' = Listed \ {t}
  <2>1. torrents \in HandleMaps(s)
    BY <1>2 DEF LiveTyped
  <2> QED BY <1>1, <2>1, HandleWithout, WithoutDomain DEF Listed
<1>6. session_records' \in RecordMaps(s) /\ DOMAIN session_records' = DOMAIN session_records \ {t}
  <2>1. session_records \in RecordMaps(s)
    BY <1>2 DEF LiveTyped
  <2> QED BY <1>1, <2>1, RecordWithout, WithoutDomain
<1>7. diskBlobs' \in BlobMaps(s)
  <2>1. diskBlobs \in BlobMaps(s)
    BY <1>2 DEF DiskTyped
  <2> QED BY <1>1, <2>1, BlobWithout
<1>8. LiveTyped(s)' /\ DiskTyped(s)' /\ PastTyped(s)'
  <2>1. requests' \in [SavedOf(s) -> 0 .. MaxRequests + 1]
    BY <1>1, <1>2, RequestsAssumption DEF LiveTyped
  <2> QED BY <1>1, <1>2, <1>4, <1>5, <1>6, <1>7, <2>1 DEF LiveTyped, DiskTyped, PastTyped
<1>9. Lists(s)'
  <2>1. \A u \in SavedOf(s) : /\ u # t => requests'[u] = requests[u] /\ answers'[u] = answers[u]
                              /\ u = t => requests'[u] = 0 /\ answers'[u] = << >>
    BY <1>1, <1>2, <1>4 DEF LiveTyped
  <2>2. \A u \in SavedOf(s) : requests'[u] # 0 \/ answers'[u] # << >> => u \in Listed'
    BY <1>2, <1>5, <2>1 DEF Lists
  <2>3. phase = "running" => \A u \in SavedOf(s) : requests'[u] <= MaxRequests
    BY <1>2, <2>1, RequestsAssumption DEF Lists
  <2> QED BY <1>1, <1>2, <1>5, <1>6, <2>2, <2>3 DEF Lists
<1>10. Wanted(s)'
  <2>1. ASSUME NEW u, Torn(s, u), u # t PROVE Torn(s, u)'
    <3>1. u \in DOMAIN diskBlobs /\ diskBlobs[u] = [torn |-> TRUE]
      BY <2>1 DEF Torn, Saved!Fails, Saved!Blob
    <3>2. u \in DOMAIN diskBlobs' /\ diskBlobs'[u] = diskBlobs[u]
      <4>1. u \in DOMAIN diskBlobs \ {t}
        BY <2>1, <3>1
      <4>2. Without(diskBlobs, t)[u] = diskBlobs[u]
        BY <4>1, WithoutAt
      <4> QED BY <1>1, <4>1, <4>2, WithoutDomain
    <3> QED BY <3>1, <3>2 DEF Torn, Saved!Fails, Saved!Blob
  <2> QED BY <1>1, <1>2, <1>5, <2>1 DEF Wanted, Reaching
<1> QED BY <1>3, <1>8, <1>9, <1>10, Disturbed DEF SessionInv

LEMMA LtMovedSaves ==
  ASSUME NEW s, SessionInv(s), NEW t \in SavedOf(s), NEW d \in FoldersOf(s), Saved(s)!LtMoved(t, d)
  PROVE  SessionInv(s)'
<1>1. /\ phase \in { "running", "waiting" } /\ t \in Listed
      /\ torrents' = [torrents EXCEPT ![t].save_path = d] /\ files' = [files EXCEPT ![t] = d]
      /\ moved' = moved \cup {t} /\ told' = told \ {t}
      /\ UNCHANGED <<phase, session_records, requests, answers, pending, expected,
                     diskRecords, diskBlobs, diskCopies, want, intact, left, stopped>>
      /\ Saved(s)!Commanded
  BY SameParts DEF Saved!LtMoved, Saved!Responsive, Saved!disk
<1>2. LiveTyped(s) /\ DiskTyped(s) /\ PastTyped(s) /\ FlagsTyped /\ Lists(s) /\ Wanted(s)
  BY DEF SessionInv
<1>3. FlagsTyped' /\ (exact' => phase' = "running")
  BY <1>1, <1>2, CommandedFlags
<1>4. torrents' \in HandleMaps(s) /\ Listed' = Listed
  <2>0. torrents \in HandleMaps(s) /\ t \in DOMAIN torrents
    BY <1>1, <1>2 DEF LiveTyped, Listed
  <2>1. torrents[t] \in Saved(s)!Handle
    BY <2>0, MapsMean
  <2> DEFINE h == [torrents[t] EXCEPT !.save_path = d]
  <2>2. h \in Saved(s)!Handle
    BY <2>1 DEF Saved!Handle
  <2>3. torrents' = [torrents EXCEPT ![t] = h]
    BY <1>1
  <2> HIDE DEF h
  <2> QED BY <2>0, <2>2, <2>3, HandleExcept DEF Listed
<1>5. LiveTyped(s)' /\ DiskTyped(s)' /\ PastTyped(s)'
  BY <1>1, <1>2, <1>4 DEF LiveTyped, DiskTyped, PastTyped
<1>6. Lists(s)'
  BY <1>1, <1>2, <1>4 DEF Lists
<1>7. Wanted(s)'
  BY <1>1, <1>2, <1>4, WantedSame DEF Reaching
<1> QED BY <1>3, <1>5, <1>6, <1>7, Disturbed DEF SessionInv

LEMMA AnswersSame ==
  ASSUME NEW s, AsAnswered(s), phase \in { "running", "waiting" }, torrents' = torrents,
         UNCHANGED <<phase, exact, pending, answers, expected>>
  PROVE  AsAnswered(s)' /\ AsWritten(s)' /\ AsLeft(s)'
<1>1. AsAnswered(s)'
  BY DEF AsAnswered, Listed, Answers
<1> QED BY <1>1 DEF AsWritten, AsLeft

LEMMA RecordsSavedKeeps ==
  ASSUME NEW s, SessionInv(s),
         Saved(s)!ApplyProperties \/ \E t \in SavedOf(s) : Saved(s)!OnStorageMoved(t)
  PROVE  SessionInv(s)'
<1>1. LiveTyped(s) /\ DiskTyped(s) /\ PastTyped(s) /\ FlagsTyped /\ Lists(s) /\ Wanted(s) /\ AsAnswered(s)
  BY DEF SessionInv
<1>2. /\ phase \in { "running", "waiting" } /\ diskRecords' = session_records'
      /\ UNCHANGED <<torrents, phase, answers, pending, expected, files, diskBlobs, diskCopies,
                     want, intact, exact, left, stopped, told>>
  BY DEF Saved!ApplyProperties, Saved!OnStorageMoved, Saved!Responsive, Saved!live, Saved!history
<1>3. /\ session_records' \in RecordMaps(s) /\ DOMAIN session_records' = DOMAIN session_records
      /\ moved' \in SUBSET moved /\ requests' \in [SavedOf(s) -> 0 .. MaxRequests + 1]
      /\ \A u \in SavedOf(s) : requests'[u] # requests[u] => u \in moved /\ requests'[u] <= MaxRequests
  <2>1. CASE Saved(s)!ApplyProperties
    BY <1>1, <2>1 DEF Saved!ApplyProperties, Saved!live, LiveTyped
  <2>2. ASSUME NEW t \in SavedOf(s), Saved(s)!OnStorageMoved(t)
        PROVE  <1>3!:
    <3>1. /\ t \in moved /\ moved' = moved \ {t} /\ Saved(s)!CanAsk(t) /\ Saved(s)!Asked(t)
          /\ session_records' = [session_records EXCEPT ![t].save_path = torrents[t].save_path]
      BY <2>2 DEF Saved!OnStorageMoved
    <3>2. /\ session_records \in RecordMaps(s) /\ t \in DOMAIN session_records
          /\ torrents \in HandleMaps(s) /\ t \in DOMAIN torrents
      BY <1>1, <3>1 DEF LiveTyped, Lists, Listed
    <3>3. session_records[t] \in Saved(s)!Record /\ torrents[t] \in Saved(s)!Handle
      BY <3>2, MapsMean
    <3> DEFINE r == [session_records[t] EXCEPT !.save_path = torrents[t].save_path]
    <3>4. r \in Saved(s)!Record
      BY <3>3 DEF Saved!Record, Saved!Handle
    <3>5. session_records' = [session_records EXCEPT ![t] = r]
      BY <3>1
    <3> HIDE DEF r
    <3>6. session_records' \in RecordMaps(s) /\ DOMAIN session_records' = DOMAIN session_records
      BY <3>2, <3>4, <3>5, RecordExcept
    <3>7. /\ requests' \in [SavedOf(s) -> 0 .. MaxRequests + 1]
          /\ \A u \in SavedOf(s) : requests'[u] # requests[u] => u = t /\ requests'[u] <= MaxRequests
      BY <1>1, <3>1, AskingFits
    <3> QED BY <3>1, <3>6, <3>7
  <2> QED BY <2>1, <2>2
<1>4. LiveTyped(s)' /\ DiskTyped(s)' /\ PastTyped(s)' /\ FlagsTyped'
  BY <1>1, <1>2, <1>3 DEF LiveTyped, DiskTyped, PastTyped, FlagsTyped
<1>5. Lists(s)'
  BY <1>1, <1>2, <1>3 DEF Lists, Listed
<1>6. Wanted(s)'
  BY <1>1, <1>2, WantedSame DEF Reaching, Listed
<1> QED BY <1>1, <1>2, <1>4, <1>5, <1>6, AnswersSame DEF SessionInv

LEMMA ResumeDataKeeps ==
  ASSUME NEW s, SessionInv(s), NEW t \in SavedOf(s),
         Saved(s)!LtResumeData(t) \/ Saved(s)!LtResumeDataFails(t)
  PROVE  SessionInv(s)'
<1>1. LiveTyped(s) /\ DiskTyped(s) /\ PastTyped(s) /\ FlagsTyped /\ Lists(s) /\ Wanted(s) /\ AsAnswered(s)
  BY DEF SessionInv
<1>2. /\ phase \in { "running", "waiting" } /\ requests[t] > 0
      /\ requests' = [requests EXCEPT ![t] = requests[t] - 1]
      /\ UNCHANGED <<phase, torrents, session_records, moved, pending, expected, files,
                     diskRecords, diskBlobs, diskCopies, want, intact, left, stopped, told>>
  BY DEF Saved!LtResumeData, Saved!LtResumeDataFails, Saved!Responsive, Saved!disk, Saved!history
<1>3. requests \in [SavedOf(s) -> 0 .. MaxRequests + 1] /\ MaxRequests \in Nat /\ requests[t] \in Nat
  BY <1>1, RequestsAssumption DEF LiveTyped
<1>4. /\ requests' \in [SavedOf(s) -> 0 .. MaxRequests + 1]
      /\ \A u \in SavedOf(s) : requests'[u] # requests[u] => u = t /\ requests'[u] < requests[u]
  BY <1>2, <1>3
<1>5. t \in Listed
  BY <1>1, <1>2, <1>3 DEF Lists
<1>6. /\ answers' \in [SavedOf(s) \cup {NoId} -> Seq(Saved(s)!Handle)]
      /\ \A u \in SavedOf(s) \cup {NoId} : u # t => answers'[u] = answers[u]
      /\ (exact' => answers' = [answers EXCEPT ![t] = Append(answers[t], torrents[t])])
      /\ (exact' => exact) /\ FlagsTyped'
  <2>1. CASE Saved(s)!LtResumeData(t)
    <3>1. torrents[t] \in Saved(s)!Handle
      BY <1>1, <1>5, MapsMean DEF LiveTyped, Listed
    <3>2. answers' = [answers EXCEPT ![t] = Append(answers[t], torrents[t])] /\ exact' = exact
      BY <2>1 DEF Saved!LtResumeData, Saved!history
    <3> QED BY <1>1, <1>2, <3>1, <3>2 DEF LiveTyped, FlagsTyped
  <2>2. CASE Saved(s)!LtResumeDataFails(t)
    <3>1. answers' = answers /\ exact' = FALSE
      BY <2>2 DEF Saved!LtResumeDataFails
    <3> QED BY <1>1, <1>2, <3>1 DEF LiveTyped, FlagsTyped
  <2> QED BY <2>1, <2>2
<1>7. LiveTyped(s)' /\ DiskTyped(s)' /\ PastTyped(s)'
  BY <1>1, <1>2, <1>4, <1>6 DEF LiveTyped, DiskTyped, PastTyped
<1>8. Lists(s)'
  <2>1. \A u \in SavedOf(s) : requests'[u] # 0 \/ answers'[u] # << >> => u \in Listed
    BY <1>1, <1>4, <1>5, <1>6 DEF Lists
  <2>2. phase = "running" => \A u \in SavedOf(s) : requests'[u] <= MaxRequests
    BY <1>1, <1>3, <1>4 DEF Lists
  <2> QED BY <1>1, <1>2, <2>1, <2>2 DEF Lists, Listed
<1>9. Wanted(s)'
  BY <1>1, <1>2, WantedSame DEF Reaching, Listed
<1>10. AsAnswered(s)'
  <2>1. CASE phase = "waiting" /\ exact'
    <3>1. /\ answers[NoId] = << >> /\ t # NoId /\ expected = Cardinality(Listed) /\ DOMAIN pending \subseteq Listed
          /\ \A u \in DOMAIN pending : pending[u].paused = torrents[u].paused
          /\ \A u \in Listed : Answers(u, torrents[u].paused)
      BY <1>1, <1>6, <2>1, SavedSet DEF AsAnswered
    <3>2. answers'[NoId] = << >>
      BY <1>6, <3>1
    <3>3. ASSUME NEW u \in Listed PROVE Answers(u, torrents[u].paused)'
      <4>1. Listed \subseteq SavedOf(s) /\ answers[t] \in Seq(Saved(s)!Handle) /\ torrents[t] \in Saved(s)!Handle
        BY <1>1, <1>5, MapsMean DEF LiveTyped, Listed
      <4>2. CASE u # t
        BY <1>2, <1>6, <3>1, <4>1, <4>2 DEF Answers
      <4>3. CASE u = t
        <5>1. answers'[t] = Append(answers[t], torrents[t])
          BY <1>1, <1>6, <2>1 DEF LiveTyped
        <5>2. /\ Len(answers'[t]) = Len(answers[t]) + 1 /\ Len(answers[t]) \in Nat
              /\ answers'[t][Len(answers[t]) + 1] = torrents[t]
              /\ \A i \in 1 .. Len(answers[t]) : answers'[t][i] = answers[t][i]
          BY <4>1, <5>1, AppendAdds
        <5>3. \A i \in 1 .. Len(answers[t]) : answers[t][i].paused = torrents[t].paused
          BY <3>1, <1>5 DEF Answers
        <5>4. PICK n \in Nat : Len(answers[t]) = n
          BY <5>2
        <5>5. \A i \in 1 .. n + 1 : answers'[t][i].paused = torrents[t].paused
          BY <5>2, <5>3, <5>4
        <5> QED BY <1>2, <4>3, <5>2, <5>4, <5>5 DEF Answers
      <4> QED BY <4>2, <4>3
    <3> QED BY <1>2, <3>1, <3>2, <3>3 DEF AsAnswered, Listed
  <2> QED BY <1>2, <2>1 DEF AsAnswered
<1>11. AsWritten(s)' /\ AsLeft(s)'
  BY <1>2 DEF AsWritten, AsLeft
<1> QED BY <1>6, <1>7, <1>8, <1>9, <1>10, <1>11 DEF SessionInv

LEMMA ReceivedKeeps ==
  ASSUME NEW s, SessionInv(s), NEW t \in SavedOf(s) \cup {NoId}, Saved(s)!OnResumeDataSaved(t)
  PROVE  SessionInv(s)'
<1>1. LiveTyped(s) /\ DiskTyped(s) /\ PastTyped(s) /\ FlagsTyped /\ Lists(s) /\ Wanted(s) /\ AsAnswered(s)
  BY DEF SessionInv
<1> DEFINE b == Head(answers[t])
<1>2. /\ phase \in { "running", "waiting" } /\ answers[t] # << >>
      /\ pending' = With(pending, t, b) /\ answers' = [answers EXCEPT ![t] = Tail(answers[t])]
      /\ told' \subseteq told \cup (Listed \cap {t})
      /\ UNCHANGED <<phase, torrents, session_records, moved, requests, expected, files,
                     diskRecords, diskBlobs, diskCopies, want, intact, exact, left, stopped>>
  BY SameParts DEF Saved!OnResumeDataSaved, Saved!Responsive, Saved!disk
<1>3. /\ answers[t] \in Seq(Saved(s)!Handle) /\ b = answers[t][1] /\ Len(answers[t]) \in Nat
      /\ Len(answers[t]) > 0 /\ b \in Saved(s)!Handle /\ Tail(answers[t]) \in Seq(Saved(s)!Handle)
      /\ Len(Tail(answers[t])) = Len(answers[t]) - 1
      /\ \A i \in 1 .. Len(answers[t]) - 1 : Tail(answers[t])[i] = answers[t][i + 1]
  <2>1. answers[t] \in Seq(Saved(s)!Handle)
    BY <1>1 DEF LiveTyped
  <2> QED BY <1>2, <2>1
<1> HIDE DEF b
<1>4. pending' \in PendingMaps(s) /\ DOMAIN pending' = DOMAIN pending \cup {t}
  <2>1. pending \in PendingMaps(s)
    BY <1>1 DEF LiveTyped
  <2> QED BY <1>2, <1>3, <2>1, PendingWith, WithDomain
<1>5. /\ answers' \in [SavedOf(s) \cup {NoId} -> Seq(Saved(s)!Handle)]
      /\ answers'[t] = Tail(answers[t])
      /\ \A u \in SavedOf(s) \cup {NoId} : u # t => answers'[u] = answers[u]
  BY <1>1, <1>2, <1>3 DEF LiveTyped
<1>6. LiveTyped(s)' /\ DiskTyped(s)' /\ PastTyped(s)' /\ FlagsTyped'
  <2>1. Listed \subseteq SavedOf(s)
    BY <1>1, MapsMean DEF LiveTyped, Listed
  <2>2. told' \in SUBSET SavedOf(s)
    BY <1>1, <1>2, <2>1 DEF PastTyped
  <2> QED BY <1>1, <1>2, <1>4, <1>5, <2>2 DEF LiveTyped, DiskTyped, PastTyped, FlagsTyped
<1>7. t # NoId => t \in Listed
  BY <1>1, <1>2 DEF Lists
<1>8. Lists(s)'
  <2>1. \A u \in SavedOf(s) : answers'[u] # << >> => u \in Listed
    BY <1>1, <1>5, <1>7, SavedSet DEF Lists
  <2> QED BY <1>1, <1>2, <2>1 DEF Lists, Listed
<1>9. Wanted(s)'
  <2>1. \A u \in want \ Reaching : u \in DOMAIN pending' => u \in DOMAIN pending
    BY <1>1, <1>2, <1>4, <1>7, SavedSet DEF PastTyped, Reaching
  <2> QED BY <1>1, <1>2, <2>1, WantedSame DEF Reaching, Listed
<1>10. AsAnswered(s)'
  <2>1. CASE phase = "waiting" /\ exact
    <3>1. /\ answers[NoId] = << >> /\ expected = Cardinality(Listed) /\ DOMAIN pending \subseteq Listed
          /\ \A u \in DOMAIN pending : pending[u].paused = torrents[u].paused
          /\ \A u \in Listed : Answers(u, torrents[u].paused)
      BY <1>1, <2>1 DEF AsAnswered
    <3>2. t # NoId /\ t \in Listed
      BY <1>2, <1>7, <3>1
    <3>3. b.paused = torrents[t].paused
      BY <1>3, <3>1, <3>2 DEF Answers
    <3>4. \A u \in DOMAIN pending' : pending'[u].paused = torrents[u].paused
      BY <1>2, <1>4, <3>1, <3>3 DEF With
    <3>5. ASSUME NEW u \in Listed PROVE Answers(u, torrents[u].paused)'
      <4>1. u \in SavedOf(s)
        BY <1>1, MapsMean DEF LiveTyped, Listed
      <4>2. CASE u # t
        BY <1>2, <1>5, <3>1, <4>1, <4>2 DEF Answers
      <4>3. CASE u = t
        BY <1>2, <1>3, <1>5, <3>1, <4>3 DEF Answers
      <4> QED BY <4>2, <4>3
    <3>6. answers'[NoId] = << >>
      BY <1>5, <3>1, <3>2
    <3> QED BY <1>2, <1>4, <3>1, <3>2, <3>4, <3>5, <3>6 DEF AsAnswered, Listed
  <2> QED BY <1>2, <2>1 DEF AsAnswered
<1>11. AsWritten(s)' /\ AsLeft(s)'
  BY <1>2 DEF AsWritten, AsLeft
<1> QED BY <1>6, <1>8, <1>9, <1>10, <1>11 DEF SessionInv

LEMMA EmptyMap ==
  ASSUME NEW s
  PROVE  /\ << >> \in HandleMaps(s) /\ << >> \in RecordMaps(s) /\ << >> \in PendingMaps(s)
         /\ DOMAIN << >> = {} /\ << >> \in BlobMaps(s)
<1>1. \A S, V : << >> \in Partial(S, V)
  <2> TAKE S, V
  <2>1. DOMAIN << >> = {} /\ << >> \in [{} -> V]
    OBVIOUS
  <2> QED BY <2>1, PartialMeans
<1> QED BY <1>1 DEF HandleMaps, RecordMaps, PendingMaps, BlobMaps

LEMMA CloseKeepsSession ==
  ASSUME NEW s, SessionInv(s), Saved(s)!CloseEvent
  PROVE  SessionInv(s)'
<1>1. LiveTyped(s) /\ DiskTyped(s) /\ PastTyped(s) /\ FlagsTyped /\ Lists(s) /\ Wanted(s)
  BY DEF SessionInv
<1>2. /\ phase = "running" /\ phase' = "waiting" /\ pending' = << >>
      /\ requests' = [t \in SavedOf(s) |-> IF t \in Listed THEN requests[t] + 1 ELSE requests[t]]
      /\ expected' = Cardinality(Listed)
      /\ UNCHANGED <<torrents, session_records, moved, answers, files, diskRecords, diskBlobs,
                     diskCopies, want, intact, left, stopped, told>>
  BY SameParts DEF Saved!CloseEvent, Saved!disk
<1>3. exact' = Saved(s)!Quiet
  BY DEF Saved!CloseEvent
<1>4. exact' \in BOOLEAN
  BY <1>3, Zenon DEF Saved!Quiet
<1>5. Listed \subseteq SavedOf(s)
  BY <1>1, MapsMean DEF LiveTyped, Listed
<1>6. /\ requests' \in [SavedOf(s) -> 0 .. MaxRequests + 1]
      /\ \A t \in SavedOf(s) : requests'[t] # 0 => t \in Listed
  <2>1. /\ requests \in [SavedOf(s) -> 0 .. MaxRequests + 1]
        /\ \A t \in SavedOf(s) : requests[t] <= MaxRequests
        /\ \A t \in SavedOf(s) : requests[t] # 0 => t \in Listed
    BY <1>1, <1>2 DEF LiveTyped, Lists
  <2> QED BY <1>2, <2>1, RequestsAssumption
<1>7. expected' \in 0 .. Cardinality(SavedOf(s))
  <2>1. Cardinality(SavedOf(s)) \in Nat
    BY SavedSet
  <2> QED BY <1>2, <1>5, <2>1, SavedSet
<1>8. LiveTyped(s)' /\ DiskTyped(s)' /\ PastTyped(s)' /\ FlagsTyped'
  BY <1>1, <1>2, <1>4, <1>6, <1>7, EmptyMap DEF LiveTyped, DiskTyped, PastTyped, FlagsTyped
<1>9. Lists(s)'
  BY <1>1, <1>2, <1>6 DEF Lists, Listed
<1>10. Wanted(s)'
  <2>1. \A t \in want \ Reaching : t \in DOMAIN pending' => t \in DOMAIN pending
    BY <1>2
  <2> QED BY <1>1, <1>2, <2>1, WantedSame DEF Reaching, Listed
<1>11. AsAnswered(s)'
  <2>1. CASE exact'
    <3>1. answers = [t \in SavedOf(s) \cup {NoId} |-> << >>]
      BY <1>3, <2>1 DEF Saved!Quiet, Saved!NoAnswers
    <3>2. \A t \in SavedOf(s) \cup {NoId} : answers'[t] = << >> /\ Len(answers'[t]) = 0
      BY <1>2, <3>1
    <3>3. \A t \in Listed : Answers(t, torrents[t].paused)'
      BY <1>5, <3>2 DEF Answers
    <3> QED BY <1>2, <3>2, <3>3 DEF AsAnswered, Listed
  <2> QED BY <2>1 DEF AsAnswered
<1>12. AsWritten(s)' /\ AsLeft(s)'
  BY <1>2 DEF AsWritten, AsLeft
<1> QED BY <1>8, <1>9, <1>10, <1>11, <1>12 DEF SessionInv

LEMMA WaitEndsKeeps ==
  ASSUME NEW s, SessionInv(s), Saved(s)!WaitEnds
  PROVE  SessionInv(s)'
<1>1. /\ LiveTyped(s) /\ DiskTyped(s) /\ PastTyped(s) /\ FlagsTyped /\ Lists(s) /\ Wanted(s)
      /\ AsAnswered(s)
  BY DEF SessionInv
<1>2. /\ phase = "waiting" /\ phase' = "writing"
      /\ UNCHANGED <<torrents, session_records, moved, requests, answers, pending, expected, files,
                     diskRecords, diskBlobs, diskCopies, want, intact, left, stopped, told>>
  BY DEF Saved!WaitEnds, Saved!disk, Saved!live
<1>3. exact' = (exact /\ Saved(s)!Complete)
  BY DEF Saved!WaitEnds
<1>4. exact' \in BOOLEAN
  BY <1>3, Zenon
<1>5. LiveTyped(s)' /\ DiskTyped(s)' /\ PastTyped(s)' /\ FlagsTyped'
  BY <1>1, <1>2, <1>4 DEF LiveTyped, DiskTyped, PastTyped, FlagsTyped
<1>6. Lists(s)'
  BY <1>1, <1>2 DEF Lists, Listed
<1>7. Wanted(s)'
  BY <1>1, <1>2, WantedSame DEF Reaching, Listed
<1>8. AsWritten(s)'
  <2>1. CASE exact'
    <3>1. exact /\ Saved(s)!Complete
      BY <1>3, <2>1
    <3>2. /\ expected = Cardinality(Listed) /\ DOMAIN pending \subseteq Listed
          /\ \A t \in DOMAIN pending : pending[t].paused = torrents[t].paused
      BY <1>1, <1>2, <3>1 DEF AsAnswered
    <3>3. Cardinality(DOMAIN pending) >= expected
      BY <3>1, SameParts DEF Saved!Complete
    <3>4. Listed \subseteq SavedOf(s) /\ IsFiniteSet(Listed) /\ Cardinality(Listed) \in Nat
      <4>1. Listed \subseteq SavedOf(s)
        BY <1>1, MapsMean DEF LiveTyped, Listed
      <4> QED BY <4>1, SavedSet
    <3>5. Cardinality(DOMAIN pending) \in Nat /\ Cardinality(DOMAIN pending) <= Cardinality(Listed)
      BY <3>2, <3>4, FS_Subset, FS_CardinalityType
    <3>6. Cardinality(DOMAIN pending) = Cardinality(Listed)
      BY <3>2, <3>3, <3>4, <3>5
    <3>7. DOMAIN pending = Listed
      BY <3>2, <3>4, <3>6, FS_Subset
    <3>8. \A t \in Listed : Holds(s, pending, t, torrents[t].paused)
      BY <1>1, <3>2, <3>7, MapsMean DEF LiveTyped, Holds
    <3> QED BY <1>2, <3>8 DEF AsWritten, Listed, Holds
  <2> QED BY <2>1 DEF AsWritten
<1>9. AsAnswered(s)' /\ AsLeft(s)'
  BY <1>2 DEF AsAnswered, AsLeft
<1> QED BY <1>5, <1>6, <1>7, <1>8, <1>9 DEF SessionInv

LEMMA WriteKeeps ==
  ASSUME NEW s, SessionInv(s), NEW t \in DOMAIN pending,
         Saved(s)!WriteBlob(t) \/ Saved(s)!WriteBlobFails(t)
  PROVE  SessionInv(s)'
<1>1. /\ LiveTyped(s) /\ DiskTyped(s) /\ PastTyped(s) /\ FlagsTyped /\ Lists(s) /\ Wanted(s)
      /\ AsWritten(s)
  BY DEF SessionInv
<1>2. pending[t] \in Saved(s)!Handle /\ t \in SavedOf(s) \cup {NoId}
  BY <1>1, MapsMean DEF LiveTyped
<1>3. PICK blob \in Saved(s)!Handle \cup Saved(s)!Broken :
        /\ phase = "writing" /\ pending' = Without(pending, t)
        /\ diskBlobs' = IF t = NoId THEN diskBlobs ELSE With(diskBlobs, t, blob)
        /\ intact' => blob = pending[t]
        /\ intact' \in BOOLEAN /\ (intact' => intact)
        /\ UNCHANGED <<phase, torrents, session_records, moved, requests, answers, expected, files,
                       diskRecords, diskCopies, want, exact, left, stopped, told>>
  <2>1. CASE Saved(s)!WriteBlob(t)
    <3>1. /\ Saved(s)!Written(t, pending[t])
          /\ UNCHANGED <<phase, torrents, session_records, moved, requests, answers, expected, files,
                         diskRecords, diskCopies, want, intact, exact, left, stopped, told>>
      BY <2>1 DEF Saved!WriteBlob, Saved!history
    <3>2. intact' \in BOOLEAN
      BY <1>1, <3>1 DEF FlagsTyped
    <3> QED BY <1>2, <3>1, <3>2, SameParts DEF Saved!Written
  <2>2. CASE Saved(s)!WriteBlobFails(t)
    <3>1. PICK torn \in BOOLEAN : Saved(s)!Written(t, [torn |-> torn])
      BY <2>2 DEF Saved!WriteBlobFails
    <3>2. /\ intact' = FALSE
          /\ UNCHANGED <<phase, torrents, session_records, moved, requests, answers, expected, files,
                         diskRecords, diskCopies, want, exact, left, stopped, told>>
      BY <2>2 DEF Saved!WriteBlobFails
    <3>3. [torn |-> torn] \in Saved(s)!Broken
      BY DEF Saved!Broken
    <3> QED BY <3>1, <3>2, <3>3, SameParts DEF Saved!Written
  <2> QED BY <2>1, <2>2
<1>4. /\ pending' \in PendingMaps(s) /\ DOMAIN pending' = DOMAIN pending \ {t}
      /\ \A u \in DOMAIN pending' : pending'[u] = pending[u]
  <2>1. pending \in PendingMaps(s)
    BY <1>1 DEF LiveTyped
  <2>2. pending' \in PendingMaps(s) /\ DOMAIN pending' = DOMAIN pending \ {t}
    BY <1>3, <2>1, PendingWithout, WithoutDomain
  <2>3. ASSUME NEW u \in DOMAIN pending \ {t} PROVE pending'[u] = pending[u]
    BY <1>3, WithoutAt
  <2> QED BY <2>2, <2>3
<1>5. diskBlobs' \in BlobMaps(s)
  <2>1. diskBlobs \in BlobMaps(s)
    BY <1>1 DEF DiskTyped
  <2> QED BY <1>2, <1>3, <2>1, BlobWith
<1>6. \A u : u # t => /\ u \in DOMAIN diskBlobs => u \in DOMAIN diskBlobs' /\ diskBlobs'[u] = diskBlobs[u]
                      /\ Torn(s, u)' = Torn(s, u)
  <2> TAKE u
  <2> HAVE u # t
  <2>1. /\ u \in DOMAIN diskBlobs' <=> u \in DOMAIN diskBlobs
        /\ u \in DOMAIN diskBlobs => diskBlobs'[u] = diskBlobs[u]
    BY <1>3 DEF With
  <2> QED BY <2>1 DEF Torn, Saved!Fails, Saved!Blob
<1>7. LiveTyped(s)' /\ DiskTyped(s)' /\ PastTyped(s)' /\ FlagsTyped'
  BY <1>1, <1>3, <1>4, <1>5 DEF LiveTyped, DiskTyped, PastTyped, FlagsTyped
<1>8. Lists(s)'
  BY <1>1, <1>3, <1>4 DEF Lists, Listed
<1>9. Wanted(s)'
  BY <1>1, <1>3, <1>4, <1>6 DEF Wanted, Reaching, Listed
<1>10. AsWritten(s)'
  <2>1. CASE exact' /\ intact'
    <3>1. /\ intact /\ blob = pending[t]
          /\ \A u \in Listed :
               \/ Holds(s, pending, u, torrents[u].paused)
               \/ u \notin DOMAIN pending /\ Holds(s, diskBlobs, u, torrents[u].paused)
      BY <1>1, <1>3, <2>1 DEF AsWritten
    <3>2. ASSUME NEW u \in Listed
          PROVE  \/ Holds(s, pending', u, torrents[u].paused)
                 \/ u \notin DOMAIN pending' /\ Holds(s, diskBlobs', u, torrents[u].paused)
      <4>1. CASE u # t
        BY <1>4, <1>6, <3>1, <4>1 DEF Holds
      <4>2. CASE u = t
        <5>1. t # NoId
          BY <1>1, <4>2, MapsMean, SavedSet DEF LiveTyped, Listed
        <5>2. t \in DOMAIN diskBlobs' /\ diskBlobs'[t] = pending[t]
          BY <1>3, <3>1, <5>1 DEF With
        <5> QED BY <1>2, <1>4, <3>1, <4>2, <5>2 DEF Holds
      <4> QED BY <4>1, <4>2
    <3> QED BY <1>3, <3>2 DEF AsWritten, Listed, Holds
  <2> QED BY <2>1 DEF AsWritten
<1>11. AsAnswered(s)' /\ AsLeft(s)'
  BY <1>3 DEF AsAnswered, AsLeft
<1> QED BY <1>7, <1>8, <1>9, <1>10, <1>11 DEF SessionInv

(* What a process that has ended leaves.                                    *)
LEMMA EndedIs ==
  ASSUME NEW s, Saved(s)!Ended
  PROVE  /\ phase' = "down" /\ Listed' = {} /\ DOMAIN pending' = {} /\ DOMAIN session_records' = {}
         /\ torrents' \in HandleMaps(s) /\ session_records' \in RecordMaps(s)
         /\ pending' \in PendingMaps(s) /\ moved' = {} /\ expected' = 0
         /\ requests' = Saved(s)!NoRequests /\ answers' = Saved(s)!NoAnswers
         /\ requests' \in [SavedOf(s) -> 0 .. MaxRequests + 1]
         /\ answers' \in [SavedOf(s) \cup {NoId} -> Seq(Saved(s)!Handle)]
         /\ \A t \in SavedOf(s) : requests'[t] = 0 /\ answers'[t] = << >>
<1>1. /\ phase' = "down" /\ torrents' = << >> /\ session_records' = << >> /\ pending' = << >>
      /\ moved' = {} /\ expected' = 0
      /\ requests' = Saved(s)!NoRequests /\ answers' = Saved(s)!NoAnswers
  BY DEF Saved!Ended
<1>2. /\ requests' = [t \in SavedOf(s) |-> 0] /\ answers' = [t \in SavedOf(s) \cup {NoId} |-> << >>]
  BY <1>1 DEF Saved!NoRequests, Saved!NoAnswers
<1>3. /\ requests' \in [SavedOf(s) -> 0 .. MaxRequests + 1]
      /\ answers' \in [SavedOf(s) \cup {NoId} -> Seq(Saved(s)!Handle)]
  BY <1>2, RequestsAssumption, EmptySeq
<1> QED BY <1>1, <1>2, <1>3, EmptyMap DEF Listed

LEMMA SaveRecordsKeeps ==
  ASSUME NEW s, SessionInv(s), Saved(s)!SaveRecords
  PROVE  SessionInv(s)'
<1>1. /\ LiveTyped(s) /\ DiskTyped(s) /\ PastTyped(s) /\ FlagsTyped /\ Lists(s) /\ Wanted(s)
      /\ AsWritten(s)
  BY DEF SessionInv
<1>2. /\ phase = "writing" /\ pending = << >> /\ diskRecords' = session_records
      /\ left' = { t \in Listed : torrents[t].paused } /\ stopped' = {} /\ told' = {}
      /\ Saved(s)!Ended
      /\ UNCHANGED <<files, diskBlobs, diskCopies, want, intact, exact>>
  BY SameParts DEF Saved!SaveRecords
<1>3. /\ phase' = "down" /\ Listed' = {} /\ DOMAIN pending' = {} /\ DOMAIN session_records' = {}
      /\ torrents' \in HandleMaps(s) /\ session_records' \in RecordMaps(s)
      /\ pending' \in PendingMaps(s) /\ moved' = {} /\ expected' = 0
      /\ requests' = Saved(s)!NoRequests /\ answers' = Saved(s)!NoAnswers
      /\ requests' \in [SavedOf(s) -> 0 .. MaxRequests + 1]
      /\ answers' \in [SavedOf(s) \cup {NoId} -> Seq(Saved(s)!Handle)]
      /\ \A t \in SavedOf(s) : requests'[t] = 0 /\ answers'[t] = << >>
  BY <1>2, EndedIs
<1>4. Listed \subseteq SavedOf(s) /\ \A t \in Listed : torrents[t] \in Saved(s)!Handle
  BY <1>1, MapsMean DEF LiveTyped, Listed
<1>5. LiveTyped(s)' /\ DiskTyped(s)' /\ PastTyped(s)' /\ FlagsTyped'
  <2>1. 0 \in 0 .. Cardinality(SavedOf(s))
    BY SavedSet
  <2>2. left' \in SUBSET SavedOf(s)
    BY <1>2, <1>4
  <2> QED BY <1>1, <1>2, <1>3, <2>1, <2>2 DEF LiveTyped, DiskTyped, PastTyped, FlagsTyped
<1>6. Lists(s)'
  <2>1. DOMAIN diskRecords' = Listed /\ Listed \subseteq Magnets \cup diskCopies
    BY <1>1, <1>2 DEF Lists
  <2>2. Listed' = {}
    BY <1>3
  <2>3. Listed' \cup DOMAIN diskRecords' \subseteq Magnets \cup diskCopies'
    BY <1>2, <2>1, <2>2
  <2> HIDE DEF Listed
  <2> QED BY <1>3, <2>3 DEF Lists
<1>7. Wanted(s)'
  <2>1. DOMAIN diskRecords' = Listed /\ Reaching = Listed
    BY <1>1, <1>2 DEF Lists, Reaching
  <2>2. Reaching' = Listed
    BY <1>3, <2>1 DEF Reaching
  <2>3. \A t : Torn(s, t)' = Torn(s, t)
    BY <1>2 DEF Torn, Saved!Fails, Saved!Blob
  <2> QED BY <1>1, <1>2, <1>3, <2>1, <2>2, <2>3 DEF Wanted
<1>8. AsLeft(s)'
  <2> SUFFICES ASSUME exact', intact', NEW t \in DOMAIN diskRecords'
               PROVE  Holds(s, diskBlobs', t, t \in left')
    BY DEF AsLeft, Holds
  <2>1. exact /\ intact /\ t \in Listed /\ t \notin DOMAIN pending
    BY <1>1, <1>2, EmptyMap DEF Lists
  <2>2. Holds(s, diskBlobs, t, torrents[t].paused)
    BY <1>1, <1>2, <2>1 DEF AsWritten, Holds
  <2>3. torrents[t].paused \in BOOLEAN
    BY <1>4, <2>1 DEF Saved!Handle
  <2>4. CASE torrents[t].paused = TRUE
    <3>1. (t \in left') = TRUE
      BY <1>2, <2>1, <2>4
    <3> QED BY <1>2, <2>2, <2>4, <3>1 DEF Holds
  <2>5. CASE torrents[t].paused = FALSE
    <3>1. (t \in left') = FALSE
      BY <1>2, <2>1, <2>5
    <3> QED BY <1>2, <2>2, <2>5, <3>1 DEF Holds
  <2> QED BY <2>3, <2>4, <2>5
<1>9. AsAnswered(s)' /\ AsWritten(s)'
  BY <1>3 DEF AsAnswered, AsWritten
<1> QED BY <1>5, <1>6, <1>7, <1>8, <1>9 DEF SessionInv

LEMMA CrashKeepsSession ==
  ASSUME NEW s, SessionInv(s), Saved(s)!Crash
  PROVE  SessionInv(s)'
<1>1. LiveTyped(s) /\ DiskTyped(s) /\ PastTyped(s) /\ FlagsTyped /\ Lists(s)
  BY DEF SessionInv
<1>2. /\ intact' = FALSE /\ Saved(s)!Ended
      /\ UNCHANGED <<files, diskRecords, diskCopies, want, exact, left, stopped, told>>
  BY DEF Saved!Crash
<1>3. /\ phase' = "down" /\ Listed' = {} /\ DOMAIN pending' = {} /\ DOMAIN session_records' = {}
      /\ torrents' \in HandleMaps(s) /\ session_records' \in RecordMaps(s)
      /\ pending' \in PendingMaps(s) /\ moved' = {} /\ expected' = 0
      /\ requests' = Saved(s)!NoRequests /\ answers' = Saved(s)!NoAnswers
      /\ requests' \in [SavedOf(s) -> 0 .. MaxRequests + 1]
      /\ answers' \in [SavedOf(s) \cup {NoId} -> Seq(Saved(s)!Handle)]
      /\ \A t \in SavedOf(s) : requests'[t] = 0 /\ answers'[t] = << >>
  BY <1>2, EndedIs
<1>4. diskBlobs' \in BlobMaps(s)
  <2>1. diskBlobs \in BlobMaps(s)
    BY <1>1 DEF DiskTyped
  <2>2. CASE diskBlobs' = diskBlobs
    BY <2>1, <2>2
  <2>3. ASSUME NEW t \in DOMAIN pending \ {NoId}, NEW torn \in BOOLEAN,
               diskBlobs' = Saved(s)!With(diskBlobs, t, [torn |-> torn])
        PROVE  diskBlobs' \in BlobMaps(s)
    <3>1. t \in SavedOf(s)
      BY <1>1, MapsMean DEF LiveTyped
    <3>2. [torn |-> torn] \in Saved(s)!Handle \cup Saved(s)!Broken
      BY DEF Saved!Broken
    <3>3. diskBlobs' = With(diskBlobs, t, [torn |-> torn])
      BY <2>3, SameParts
    <3> QED BY <2>1, <3>1, <3>2, <3>3, BlobWith
  <2>4. \/ diskBlobs' = diskBlobs
        \/ \E t \in DOMAIN pending \ {NoId}, torn \in BOOLEAN :
             diskBlobs' = Saved(s)!With(diskBlobs, t, [torn |-> torn])
    BY DEF Saved!Crash
  <2> QED BY <2>2, <2>3, <2>4
<1>5. LiveTyped(s)' /\ DiskTyped(s)' /\ PastTyped(s)' /\ FlagsTyped'
  <2>1. 0 \in 0 .. Cardinality(SavedOf(s))
    BY SavedSet
  <2> QED BY <1>1, <1>2, <1>3, <1>4, <2>1 DEF LiveTyped, DiskTyped, PastTyped, FlagsTyped
<1>6. Lists(s)'
  <2>1. Listed' \cup DOMAIN diskRecords' \subseteq Magnets \cup diskCopies'
    BY <1>1, <1>2, <1>3 DEF Lists
  <2> QED BY <1>3, <2>1 DEF Lists
<1>7. Wanted(s)' /\ AsAnswered(s)' /\ AsWritten(s)' /\ AsLeft(s)'
  BY <1>2, <1>3 DEF Wanted, AsAnswered, AsWritten, AsLeft
<1> QED BY <1>5, <1>6, <1>7 DEF SessionInv

LEMMA RestrictTyped ==
  ASSUME NEW S, NEW V, NEW f \in Partial(S, V), NEW D \in SUBSET (DOMAIN f)
  PROVE  Restrict(f, D) \in Partial(S, V) /\ DOMAIN Restrict(f, D) = D
<1> DEFINE g == Restrict(f, D)
<1>1. DOMAIN f \subseteq S /\ f \in [DOMAIN f -> V]
  BY PartialMeans
<1>2. DOMAIN g = D /\ g \in [D -> V]
  BY <1>1 DEF Restrict
<1> HIDE DEF g
<1>3. g \in Partial(S, V)
  BY <1>1, <1>2, PartialMeans
<1> QED BY <1>2, <1>3 DEF g

LEMMA RestoredIs ==
  ASSUME NEW s, SessionInv(s), phase = "down"
  PROVE  /\ Saved(s)!Restored \subseteq DOMAIN diskRecords
         /\ \A t \in DOMAIN diskRecords \ Saved(s)!Restored : Torn(s, t)
         /\ \A t \in Saved(s)!Restored : t \in DOMAIN diskRecords /\ diskRecords[t] \in Saved(s)!Record
<1>1. Saved(s)!Restored = { t \in DOMAIN diskRecords : /\ ~Saved(s)!Fails(t)
                                                       /\ Saved(s)!FromBlob(t) \/ Saved(s)!FromSource(t) }
  BY DEF Saved!Restored
<1>2. DOMAIN diskRecords \subseteq Magnets \cup diskCopies
  BY DEF SessionInv, Lists
<1>3. \A t \in DOMAIN diskRecords : Saved(s)!FromBlob(t) \/ Saved(s)!FromSource(t)
  BY <1>2 DEF Saved!FromSource
<1>4. diskRecords \in RecordMaps(s)
  BY DEF SessionInv, DiskTyped
<1> QED BY <1>1, <1>3, <1>4, MapsMean DEF Torn

LEMMA LoadTorrentsKeeps ==
  ASSUME NEW s, SessionInv(s), Saved(s)!LoadTorrents
  PROVE  SessionInv(s)'
<1> DEFINE D == Saved(s)!Restored
           h(t) == IF Saved(s)!FromBlob(t) THEN Saved(s)!Blob(t)
                   ELSE [save_path |-> diskRecords[t].save_path, paused |-> FALSE]
<1>1. /\ LiveTyped(s) /\ DiskTyped(s) /\ PastTyped(s) /\ FlagsTyped /\ Lists(s) /\ Wanted(s)
  BY DEF SessionInv
<1>2. /\ phase = "down" /\ phase' = "running"
      /\ session_records' = Restrict(diskRecords, D) /\ torrents' = [t \in D |-> h(t)]
      /\ want' = IF intact THEN want ELSE D
      /\ intact' = TRUE /\ exact' = TRUE /\ left' = {}
      /\ UNCHANGED <<moved, requests, answers, pending, expected, files,
                     diskRecords, diskBlobs, diskCopies, stopped, told>>
  BY SameParts DEF Saved!LoadTorrents, Saved!disk
<1>3. /\ D \subseteq DOMAIN diskRecords /\ \A t \in DOMAIN diskRecords \ D : Torn(s, t)
      /\ \A t \in D : t \in DOMAIN diskRecords /\ diskRecords[t] \in Saved(s)!Record
  BY <1>2, RestoredIs
<1>4. diskRecords \in RecordMaps(s) /\ DOMAIN diskRecords \subseteq SavedOf(s)
  BY <1>1, MapsMean DEF DiskTyped
<1>5. \A t \in D : h(t) \in Saved(s)!Handle
  <2> TAKE t \in D
  <2>1. CASE Saved(s)!FromBlob(t)
    BY <2>1 DEF Saved!FromBlob
  <2>2. CASE ~Saved(s)!FromBlob(t)
    BY <1>3, <2>2 DEF Saved!Handle, Saved!Record
  <2> QED BY <2>1, <2>2
<1> HIDE DEF D, h
<1>6. session_records' \in RecordMaps(s) /\ DOMAIN session_records' = D
  BY <1>2, <1>3, <1>4, RestrictTyped DEF RecordMaps
<1>7. torrents' \in HandleMaps(s) /\ Listed' = D
  <2>1. DOMAIN torrents' = D /\ torrents' \in [D -> Saved(s)!Handle]
    BY <1>2, <1>5
  <2>2. D \subseteq SavedOf(s)
    BY <1>3, <1>4
  <2> QED BY <2>1, <2>2, PartialMeans DEF HandleMaps, Listed
<1>8. LiveTyped(s)' /\ DiskTyped(s)' /\ PastTyped(s)' /\ FlagsTyped'
  BY <1>1, <1>2, <1>3, <1>4, <1>6, <1>7 DEF LiveTyped, DiskTyped, PastTyped, FlagsTyped
<1>9. Lists(s)'
  <2>1. /\ moved = {} /\ requests = Saved(s)!NoRequests /\ answers = Saved(s)!NoAnswers
        /\ DOMAIN diskRecords \subseteq Magnets \cup diskCopies
    BY <1>1, <1>2 DEF Lists
  <2>2. \A t \in SavedOf(s) : requests[t] = 0 /\ answers[t] = << >>
    BY <2>1 DEF Saved!NoRequests, Saved!NoAnswers
  <2> QED BY <1>2, <1>3, <1>6, <1>7, <2>1, <2>2, RequestsAssumption DEF Lists
<1>10. Wanted(s)'
  <2>1. \A t : Torn(s, t)' = Torn(s, t)
    BY <1>2 DEF Torn, Saved!Fails, Saved!Blob
  <2>2. Reaching' = D /\ Reaching = DOMAIN diskRecords /\ DOMAIN pending = {}
    BY <1>1, <1>2, <1>7 DEF Reaching, Lists
  <2> QED BY <1>1, <1>2, <1>3, <2>1, <2>2 DEF Wanted
<1>11. AsAnswered(s)' /\ AsWritten(s)' /\ AsLeft(s)'
  BY <1>2 DEF AsAnswered, AsWritten, AsLeft
<1> QED BY <1>8, <1>9, <1>10, <1>11 DEF SessionInv

LEMMA SessionKept ==
  ASSUME NEW s, SessionInv(s), [Saved(s)!Next]_sessionVars
  PROVE  SessionInv(s)'
<1>1. CASE UNCHANGED sessionVars
  <2>1. UNCHANGED <<phase, torrents, session_records, moved, requests, answers, pending, expected, files,
                    diskRecords, diskBlobs, diskCopies, want, intact, exact, left, stopped, told>>
    BY <1>1 DEF sessionVars
  <2>2. LiveTyped(s)' /\ DiskTyped(s)' /\ PastTyped(s)' /\ FlagsTyped'
    BY <2>1 DEF SessionInv, LiveTyped, DiskTyped, PastTyped, FlagsTyped
  <2>3. Lists(s)'
    BY <2>1 DEF SessionInv, Lists, Listed
  <2>4. Wanted(s)'
    BY <2>1, WantedSame DEF SessionInv, Reaching, Listed
  <2>5. AsAnswered(s)' /\ AsWritten(s)' /\ AsLeft(s)'
    BY <2>1 DEF SessionInv, AsAnswered, AsWritten, AsLeft, Listed, Answers, Holds
  <2> QED BY <2>2, <2>3, <2>4, <2>5 DEF SessionInv
<1>2. CASE Saved(s)!Closing
  BY <1>2, CloseKeepsSession, WaitEndsKeeps, SaveRecordsKeeps, WriteKeeps DEF Saved!Closing
<1>3. CASE Saved(s)!Crash \/ Saved(s)!LoadTorrents
  BY <1>3, CrashKeepsSession, LoadTorrentsKeeps
<1>4. CASE Saved(s)!ApplyProperties
  BY <1>4, RecordsSavedKeeps
<1>5. ASSUME NEW t \in SavedOf(s) \cup {NoId}, Saved(s)!OnResumeDataSaved(t)
      PROVE  SessionInv(s)'
  BY <1>5, ReceivedKeeps
<1>6. ASSUME NEW t \in SavedOf(s), Saved(s)!Command(t)
      PROVE  SessionInv(s)'
  BY <1>6, AddTorrentKeeps, SetPausedKeeps, RemoveTorrentKeeps DEF Saved!Command
<1>7. ASSUME NEW t \in SavedOf(s), Saved(s)!Events(t)
      PROVE  SessionInv(s)'
  BY <1>7, LtMovedSaves, RecordsSavedKeeps, ResumeDataKeeps DEF Saved!Events
<1> QED BY <1>1, <1>2, <1>3, <1>4, <1>5, <1>6, <1>7 DEF Saved!Next

LEMMA SessionStarts ==
  ASSUME NEW s, Saved(s)!Init
  PROVE  SessionInv(s)
<1>1. /\ phase = "running" /\ torrents = << >> /\ session_records = << >> /\ pending = << >>
      /\ moved = {} /\ expected = 0
      /\ requests = [t \in SavedOf(s) |-> 0] /\ answers = [t \in SavedOf(s) \cup {NoId} |-> << >>]
      /\ files \in [SavedOf(s) -> FoldersOf(s)]
      /\ diskRecords = << >> /\ diskBlobs = << >> /\ diskCopies = {}
      /\ want = {} /\ intact = TRUE /\ exact = TRUE /\ left = {} /\ stopped = {} /\ told = {}
  BY DEF Saved!Init, Saved!NoRequests, Saved!NoAnswers
<1>2. Listed = {} /\ DOMAIN session_records = {} /\ DOMAIN diskRecords = {}
  BY <1>1, EmptyMap DEF Listed
<1>3. LiveTyped(s)
  <2>1. 0 \in 0 .. Cardinality(SavedOf(s)) /\ 0 \in 0 .. MaxRequests + 1
    BY SavedSet, RequestsAssumption
  <2>2. << >> \in Seq(Saved(s)!Handle)
    BY EmptySeq
  <2> QED BY <1>1, <2>1, <2>2, EmptyMap DEF LiveTyped
<1>4. DiskTyped(s) /\ PastTyped(s) /\ FlagsTyped
  BY <1>1, EmptyMap DEF DiskTyped, PastTyped, FlagsTyped
<1>5. Lists(s) /\ Wanted(s)
  <2>1. \A t \in SavedOf(s) : requests[t] = 0
    BY <1>1
  <2>2. \A t \in SavedOf(s) : answers[t] = << >>
    BY <1>1
  <2>3. \A t \in SavedOf(s) : ~(requests[t] # 0 \/ answers[t] # << >>)
    BY <2>1, <2>2
  <2>4. \A t \in SavedOf(s) : requests[t] <= MaxRequests
    BY <2>1, RequestsAssumption
  <2>5. Lists(s)
    BY <1>1, <1>2, <2>3, <2>4 DEF Lists
  <2>6. Reaching = {}
    BY <1>1, <1>2 DEF Reaching
  <2>7. Wanted(s)
    BY <1>1, <2>6 DEF Wanted
  <2> QED BY <2>5, <2>7
<1>6. AsAnswered(s) /\ AsWritten(s) /\ AsLeft(s)
  BY <1>1 DEF AsAnswered, AsWritten, AsLeft
<1> QED BY <1>3, <1>4, <1>5, <1>6 DEF SessionInv

SessionSteady == \A s \in Sessions : subject = s => SessionInv(s)

LEMMA SessionsAlways == TorrentsSpec => []SessionSteady
<1>1. TorrentsInit => SessionSteady
  <2> SUFFICES ASSUME TorrentsInit, NEW s \in Sessions, subject = s PROVE SessionInv(s)
    BY DEF SessionSteady
  <2>1. Saved(s)!Init
    BY DEF TorrentsInit, Sessions
  <2> QED BY <2>1, SessionStarts
<1>2. SessionSteady /\ [TorrentsNext]_<<vars, sessionVars, subject>> => SessionSteady'
  <2> SUFFICES ASSUME SessionSteady, [TorrentsNext]_<<vars, sessionVars, subject>>,
                      NEW s \in Sessions, subject' = s
               PROVE  SessionInv(s)'
    BY DEF SessionSteady
  <2>1. subject = s /\ [Saved(s)!Next]_sessionVars
    BY DEF TorrentsNext
  <2> QED BY <2>1, SessionKept DEF SessionSteady
<1> QED BY <1>1, <1>2, PTL DEF TorrentsSpec

(* For any finite sets of torrents: after every clean end the list comes    *)
(* back as the user left it, torrents added or removed while save_session   *)
(* waits included, unless a blob on disk is torn (load_torrents).           *)
THEOREM ListAlwaysAsLeft == TorrentsSpec => []ListAsLeft
<1>1. SessionSteady => ListAsLeft
  <2> SUFFICES ASSUME SessionSteady, NEW s \in Sessions, subject = s
               PROVE  Saved(s)!TypeOK /\ Saved(s)!ListAsLeft
    BY DEF ListAsLeft
  <2>1. SessionInv(s)
    BY DEF SessionSteady
  <2>2. Saved(s)!TypeOK
    BY <2>1, SessionTypes DEF SessionInv
  <2>3. ASSUME phase = "running", intact, \A t \in DOMAIN diskBlobs : ~Torn(s, t)
        PROVE  DOMAIN session_records = want
    <3>1. \A t : ~Torn(s, t)
      BY <2>3 DEF Torn, Saved!Fails, Saved!Blob
    <3> QED BY <2>1, <2>3, <3>1 DEF SessionInv, Lists, Wanted, Reaching
  <2> QED BY <2>2, <2>3 DEF Saved!ListAsLeft, Torn
<1> QED BY <1>1, SessionsAlways, PTL

LEMMA OnlyLoadStarts ==
  ASSUME NEW s, Saved(s)!Next, phase = "down", phase' = "running"
  PROVE  Saved(s)!LoadTorrents
<1>1. ~Saved(s)!Closing /\ ~Saved(s)!Crash /\ ~Saved(s)!ApplyProperties
  BY DEF Saved!Closing, Saved!CloseEvent, Saved!WaitEnds, Saved!SaveRecords, Saved!WriteBlob,
         Saved!WriteBlobFails, Saved!Written, Saved!Crash, Saved!ApplyProperties, Saved!Responsive
<1>2. \A t : ~Saved(s)!OnResumeDataSaved(t) /\ ~Saved(s)!Command(t)
  BY DEF Saved!OnResumeDataSaved, Saved!Command, Saved!AddTorrent, Saved!SetPaused,
         Saved!StopOnComplete, Saved!RemoveTorrent, Saved!Responsive
<1>3. \A t : ~Saved(s)!Events(t)
  BY DEF Saved!Events, Saved!LtMoved, Saved!OnStorageMoved, Saved!LtResumeData,
         Saved!LtResumeDataFails, Saved!Responsive
<1> QED BY <1>1, <1>2, <1>3 DEF Saved!Next

(* And a torrent paused, or running, when the window was closed is so again *)
(* after the restart, if libtorrent had answered the earlier requests when  *)
(* the closing began, answers those of the closing in time, and nothing is  *)
(* commanded meanwhile: then the blobs that save_session counts are those   *)
(* of the torrents that are there, one of each.                             *)
THEOREM PausesAlwaysComeBack == TorrentsSpec => PauseSurvivesRestart
<1>1. ASSUME SessionSteady, [TorrentsNext]_<<vars, sessionVars, subject>>, NEW s \in Sessions, subject = s,
             phase = "down", phase' = "running", intact, exact, NEW t \in DOMAIN torrents'
      PROVE  torrents'[t].paused <=> t \in left
  <2>1. SessionInv(s) /\ Saved(s)!Next
    BY <1>1 DEF SessionSteady, TorrentsNext, sessionVars
  <2>2. Saved(s)!LoadTorrents
    BY <1>1, <2>1, OnlyLoadStarts
  <2>3. t \in Saved(s)!Restored /\ t \in DOMAIN diskRecords
    BY <1>1, <2>1, <2>2, RestoredIs DEF Saved!LoadTorrents
  <2>4. t \in DOMAIN diskBlobs /\ diskBlobs[t] \in Saved(s)!Handle /\ diskBlobs[t].paused = (t \in left)
    BY <1>1, <2>1, <2>3 DEF SessionInv, AsLeft, Holds
  <2>5. Saved(s)!FromBlob(t) /\ Saved(s)!Blob(t) = diskBlobs[t]
    BY <2>4 DEF Saved!FromBlob, Saved!Blob
  <2>6. torrents'[t] = diskBlobs[t]
    BY <2>2, <2>3, <2>5 DEF Saved!LoadTorrents
  <2>7. torrents'[t].paused = (t \in left)
    BY <2>4, <2>6
  <2> QED BY <2>7, Zenon
<1>2. SessionSteady /\ [TorrentsNext]_<<vars, sessionVars, subject>>
        => [\A s \in Sessions : subject = s => Saved(s)!PausesComeBack]_<<sessionVars, subject>>
  BY <1>1 DEF Saved!PausesComeBack
<1> QED BY <1>2, SessionsAlways, PTL DEF TorrentsSpec, PauseSurvivesRestart
=============================================================================
