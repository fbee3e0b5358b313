----------------------------- MODULE MCRestarts -----------------------------
(* What outlives the process, side by side: the file, sidecar and record of *)
(* one download (DownloadRecovery), the list as a whole (DownloadSession)   *)
(* and the statistics (Stats). A behaviour is about one subject, the others *)
(* stay as they are: a download with a checksum; one without, whose process *)
(* is killed and whose server changes the file; one without that is left    *)
(* alone; the list; what is counted of torrents that may start over, with   *)
(* closes and kills; of torrents that do not, with closes; and of downloads *)
(* and torrents in one run of the application.                              *)
EXTENDS Integers, FiniteSets

CONSTANTS Subjects,
  NumChunks, KilledChunks, ChunkSize,   (* of the download                  *)
  Versions,                             (* contents of the killed one       *)
  Ids, Paths,                           (* of the list                      *)
  Torrents, ClosedTorrents, Downloads,  (* what is counted                  *)
  Size, SaveEvery, MaxReceived

FileAssumption ==
  /\ NumChunks \in Nat \ {0} /\ KilledChunks \in Nat \ {0} /\ ChunkSize \in Nat \ {0}
  /\ Versions \in Nat \ {0}
ASSUME FileAssumption

CountingAssumption ==
  /\ IsFiniteSet(Torrents) /\ IsFiniteSet(ClosedTorrents) /\ IsFiniteSet(Downloads)
  /\ Size \in Nat /\ SaveEvery \in Nat \ {0} /\ MaxReceived \in Nat
ASSUME CountingAssumption

VARIABLES subject,
  up, creating, status, progress, owned, allow, restart, initialized, etag, held, cleanups,
  version, file, sidecar, record, refused, promised,
  phase, list, status_of, save_path, scheduled, restart_required, disk_list, unread, used,
  want, ended, settled, last,
  running, listed, size, kept, seen_last, session, lifetime, stats, ticks, completed,
  received, finished, pending, seen

fileVars == <<up, creating, status, progress, owned, allow, restart, initialized, etag, held,
              cleanups, version, file, sidecar, record, refused, promised>>

listVars == <<phase, list, status_of, save_path, scheduled, restart_required, disk_list,
              unread, used, want, ended, settled, last>>

statsVars == <<running, listed, size, kept, seen_last, session, lifetime, stats, ticks,
               completed, received, finished, pending, seen>>

allVars == <<fileVars, listVars, statsVars, subject>>

(* The download, whether it has a checksum (and a retry may come before the *)
(* cleanup), what the server will have, and whether the process is killed.  *)
Files == { "checksum", "killed", "quiet" }

Checked(s) == s = "checksum"

Killable(s) == s # "quiet"

ChunksOf(s) == IF s = "killed" THEN KilledChunks ELSE NumChunks

VersionsOf(s) == IF s = "killed" THEN Versions ELSE 1

File(s) == INSTANCE DownloadRecovery
  WITH NumChunks <- ChunksOf(s), Versions <- VersionsOf(s), HasChecksum <- Checked(s),
       LastRecord <- Checked(s), LateCleanup <- Checked(s), Kills <- Killable(s)

Session == INSTANCE DownloadSession
  WITH status <- status_of, disk <- disk_list, SharedPaths <- FALSE,
       CrashWhileLoading <- FALSE

(* The statistics, what is counted and how the application may end.         *)
Counts == { "torrents", "closed torrents", "one run" }

Downs(s) == IF s = "one run" THEN Downloads ELSE {}

Torrs(s) == IF s = "closed torrents" THEN ClosedTorrents ELSE Torrents

Ends(s) == CASE s = "torrents"        -> { "close", "kill" }
             [] s = "closed torrents" -> { "close" }
             [] OTHER                 -> {}

Again(s) == s # "closed torrents"

Count(s) == INSTANCE Stats
  WITH up <- running, last <- seen_last, Downloads <- Downs(s), Transfers <- Torrs(s),
       Restarts <- Ends(s), StartsOver <- Again(s)

RestartsInit ==
  /\ subject \in Subjects
  /\ \E s \in Files : /\ s = IF subject \in Files THEN subject ELSE "checksum"
                      /\ File(s)!Init
  /\ Session!Init
  /\ save_path = CHOOSE p \in [Ids -> Paths] : \A d, e \in Ids : p[d] = p[e] => d = e
  /\ \E s \in Counts : /\ s = IF subject \in Counts THEN subject ELSE "torrents"
                       /\ Count(s)!Init

About(s, others) == subject = s /\ UNCHANGED <<others, subject>>

Transfer(s) == About(s, <<listVars, statsVars>>)
List        == About("list", <<fileVars, statsVars>>)
Counting(s) == About(s, <<fileVars, listVars>>)

RestartsNext == \/ \E s \in Files : Transfer(s) /\ File(s)!Next
                \/ List /\ Session!Next
                \/ \E s \in Counts : Counting(s) /\ Count(s)!Next

RestartsSpec == RestartsInit /\ [][RestartsNext]_allVars
-----------------------------------------------------------------------------
(* The properties of the modules, each for the subjects it is about.        *)

(* A download with a checksum that is COMPLETED is the right file, and ADP  *)
(* takes up its own file again.                                             *)
FilesRight == \A s \in Files : subject = s =>
  /\ File(s)!TypeOK /\ File(s)!VerifiedIsRight
  /\ ~Killable(s) => File(s)!NeverRefusesOwn

(* Of what the sidecar counts nothing is lost without a command, and a run  *)
(* goes on from it.                                                         *)
ProgressKept ==
  [][\A s \in Files : subject = s /\ ~Checked(s) =>
       File(s)!ProgressNotLostStep /\ File(s)!ContinuesStep]_<<fileVars, subject>>

(* What was removed does not come back, and nothing else is missing.        *)
ListRight == subject = "list" =>
  Session!TypeOK /\ Session!RemovedStaysRemoved /\ Session!AllListed

RestartKeepsList == Session!RestartKeepsList

(* The totals never count a byte twice, and with clean ends miss none that  *)
(* was sampled.                                                             *)
TotalsRight == \A s \in Counts : subject = s =>
  /\ Count(s)!TypeOK /\ Count(s)!NeverOvercounts
  /\ ~Again(s) => Count(s)!CountsWhatItSaw
=============================================================================
