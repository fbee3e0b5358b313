----------------------------- MODULE MCTorrents -----------------------------
(* The Torrents tab, and next to it what it saves and restores              *)
(* (TorrentSession): once with clean ends only, once with crashes and a     *)
(* full disk. A behaviour is about one subject, the others stay as they     *)
(* are.                                                                     *)
EXTENDS TorrentPanel

CONSTANTS Subjects, CleanTorrents, CleanFolders, Magnets, FailingTorrents, FailingFolders,
          MaxRequests

ASSUME SavedAssumption ==
  /\ IsFiniteSet(CleanTorrents) /\ IsFiniteSet(FailingTorrents)
  /\ NoId \notin CleanTorrents \cup FailingTorrents
ASSUME RequestsAssumption == MaxRequests \in Nat

VARIABLES subject, phase, torrents, session_records, moved, requests, answers, pending,
          expected, files, diskRecords, diskBlobs, diskCopies, want, intact, exact, left,
          stopped, told

sessionVars == <<phase, torrents, session_records, moved, requests, answers, pending,
                 expected, files, diskRecords, diskBlobs, diskCopies, want, intact, exact,
                 left, stopped, told>>

Sessions == { "clean", "failing" }

MayFail(s)   == s = "failing"
SavedOf(s)   == IF MayFail(s) THEN FailingTorrents ELSE CleanTorrents
FoldersOf(s) == IF MayFail(s) THEN FailingFolders ELSE CleanFolders

Saved(s) == INSTANCE TorrentSession
  WITH handles <- torrents, records <- session_records, Torrents <- SavedOf(s),
       Magnets <- Magnets, Folders <- FoldersOf(s), NoId <- NoId, MaxRequests <- MaxRequests,
       Crashes <- MayFail(s), DiskFull <- MayFail(s)

Untouched == Init /\ ~stop_on_complete /\ move_completed = Nowhere

TorrentsInit ==
  /\ subject \in Subjects
  /\ \/ subject = "panel" /\ Init /\ Saved("clean")!Init
     \/ \E s \in Sessions : subject = s /\ Untouched /\ Saved(s)!Init

TorrentsNext ==
  /\ \/ subject = "panel" /\ Next /\ UNCHANGED sessionVars
     \/ /\ \E s \in Sessions : subject = s /\ Saved(s)!Next
        /\ UNCHANGED vars
  /\ UNCHANGED subject

TorrentsSpec == TorrentsInit /\ [][TorrentsNext]_<<vars, sessionVars, subject>>

(* The fairness of TorrentPanel and of TorrentSession; nothing of the       *)
(* latter is enabled before there is a torrent.                             *)
TorrentsFairSpec ==
  /\ TorrentsSpec
  /\ WF_vars(subject = "panel" /\ PollStep)
  /\ WF_sessionVars(Saved("failing")!WaitEnds)
  /\ WF_sessionVars(Saved("failing")!SaveRecords)
  /\ WF_sessionVars(\E t \in DOMAIN pending :
                      Saved("failing")!WriteBlob(t) \/ Saved("failing")!WriteBlobFails(t))
-----------------------------------------------------------------------------
(* A pending move is one libtorrent was asked for, and records say where    *)
(* the files are.                                                           *)
MovesExact == subject = "panel" => TypeOK /\ MovesKnown /\ RecordFollowsFiles

(* A torrent that completes is stopped when the setting says so, and one    *)
(* that reaches its ratio is paused.                                        *)
PoliciesStop == CompletedStops /\ RatioStops

(* The list comes back as it was left.                                      *)
ListAsLeft == \A s \in Sessions : subject = s => Saved(s)!TypeOK /\ Saved(s)!ListAsLeft

(* A torrent paused, or running, when the window was closed is so again     *)
(* after the restart, if libtorrent answered in time and nothing was        *)
(* commanded after the closing began.                                       *)
PauseSurvivesRestart ==
  [][\A s \in Sessions : subject = s => Saved(s)!PausesComeBack]_<<sessionVars, subject>>

CloseEnds == Saved("failing")!CloseEnds
=============================================================================
