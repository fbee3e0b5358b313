---------------------------- MODULE MCDownloads ----------------------------
(* One run for three kinds of download: the one the constants describe      *)
(* (with a checksum, in several chunks, from a server that serves ranges),  *)
(* one without a checksum and in one chunk, from servers that answer in any *)
(* way, and one whose file other programs remove or replace. A behaviour is *)
(* about one of them, its job.                                              *)
EXTENDS DownloadManager

VARIABLE job

Plain == INSTANCE DownloadManager
  WITH NumThreads <- 1, HasChecksum <- FALSE, Replies <- Reply

Meddled == INSTANCE DownloadManager
  WITH TotalSize <- 1, NumThreads <- 1, Replies <- Reply, External <- TRUE

JobInit == \/ job = "checksum" /\ Init
           \/ job = "plain"    /\ Plain!Init
           \/ job = "meddled"  /\ Meddled!Init

JobNext == /\ \/ job = "checksum" /\ Next
              \/ job = "plain"    /\ Plain!Next
              \/ job = "meddled"  /\ Meddled!Next
           /\ UNCHANGED job

JobSpec == JobInit /\ [][JobNext]_<<vars, job>>

(* What is reported complete is whole: with a checksum always, by the byte  *)
(* count as long as no generation was retired.                              *)
RightlyComplete == /\ job = "checksum" => VerifiedIsWhole
                   /\ job = "plain"    => FirstGenerationIsWhole
=============================================================================
