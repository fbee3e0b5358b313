--------------------------- MODULE DownloadsProofs ---------------------------
(***************************************************************************)
(* Theorems about MCDownloads, the run that has several kinds of download  *)
(* side by side: what DownloadManagerProofs proves for every value of the  *)
(* constants, applied to two of its kinds.  The lemmas say that the plain  *)
(* kind of the run is the instance the theorems are about.                 *)
(***************************************************************************)
EXTENDS MCDownloads, DownloadManagerProofs

Proved == INSTANCE DownloadManagerProofs
  WITH NumThreads <- 1, HasChecksum <- FALSE, Replies <- Reply

NewPlain(cp, n) == { Plain!WorkerFor(Plain!ChunkStart(i, n), Plain!ChunkEnd(i, n)) :
                     i \in Plain!Incomplete(cp, n) }

NewProved(cp, n) == { Proved!WorkerFor(Proved!ChunkStart(i, n), Proved!ChunkEnd(i, n)) :
                      i \in Proved!Incomplete(cp, n) }

LEMMA SameNumbers ==
  /\ Plain!FreshFile = Proved!FreshFile /\ Plain!NoProgress = Proved!NoProgress
  /\ \A S : Plain!Cardinality(S) = Proved!Cardinality(S)
  /\ \A cp : Plain!SumOf(cp) = Proved!SumOf(cp)
<1>1. Plain!FreshFile = Proved!FreshFile /\ Plain!NoProgress = Proved!NoProgress
  BY DEF Plain!FreshFile, Proved!FreshFile, Plain!NoProgress, Proved!NoProgress, Plain!Starts,
         Proved!Starts, Plain!ChunkStart, Proved!ChunkStart
<1>2. ASSUME NEW S PROVE Plain!Cardinality(S) = Proved!Cardinality(S)
  BY DEF Plain!Cardinality, Proved!Cardinality
<1>3. ASSUME NEW cp PROVE Plain!SumOf(cp) = Proved!SumOf(cp)
  <2>1. Plain!Starts = Proved!Starts
    BY DEF Plain!Starts, Proved!Starts, Plain!ChunkStart, Proved!ChunkStart
  <2> QED BY <1>2, <2>1 DEF Plain!SumOf, Proved!SumOf
<1> QED BY <1>1, <1>2, <1>3

LEMMA SameFinish ==
  ASSUME NEW d, NEW f, NEW a
  PROVE  Plain!FinishDownload(d, f, a) <=> Proved!FinishDownload(d, f, a)
BY DEF Plain!Conclude, Proved!Conclude, Plain!CountMatches, Proved!CountMatches, Plain!FailWith,
       Proved!FailWith, Plain!FinishDownload, Proved!FinishDownload, Plain!RetireWorkers,
       Proved!RetireWorkers, Plain!Wrong, Proved!Wrong

LEMMA SameStart ==
  ASSUME NEW new, NEW cp, NEW d
  PROVE  Plain!StartWorkers(new, cp, d) <=> Proved!StartWorkers(new, cp, d)
BY SameNumbers DEF Plain!StartWorkers, Proved!StartWorkers

LEMMA SameSpawn ==
  ASSUME NEW cp0, NEW d0, NEW f0, NEW sc
  PROVE  Plain!SpawnWorkers(cp0, d0, f0, sc) <=> Proved!SpawnWorkers(cp0, d0, f0, sc)
<1>1. ASSUME NEW i, NEW m
      PROVE  /\ Plain!ChunkStart(i, m) = Proved!ChunkStart(i, m)
             /\ Plain!ChunkEnd(i, m) = Proved!ChunkEnd(i, m)
  BY DEF Plain!ChunkStart, Proved!ChunkStart, Plain!ChunkEnd, Proved!ChunkEnd
<1>2. ASSUME NEW p, NEW m PROVE Plain!Incomplete(p, m) = Proved!Incomplete(p, m)
  BY <1>1 DEF Plain!Incomplete, Proved!Incomplete
<1>3. ASSUME NEW s, NEW e PROVE Plain!WorkerFor(s, e) = Proved!WorkerFor(s, e)
  BY DEF Plain!WorkerFor, Proved!WorkerFor
<1>4. ASSUME NEW p, NEW m PROVE NewPlain(p, m) = NewProved(p, m)
  BY <1>1, <1>2, <1>3 DEF NewPlain, NewProved
<1> DEFINE reset == ~rangesSupported' /\ d0 # 0
           cp == IF reset THEN Proved!NoProgress ELSE cp0
           d == IF reset THEN 0 ELSE d0
           f == IF reset THEN Proved!FreshFile ELSE f0
           n == numThreads'
<1>5. Plain!SpawnWorkers(cp0, d0, f0, sc) <=>
         /\ spawns' = spawns + 1
         /\ \/ /\ Plain!Incomplete(cp, n) # {} /\ Plain!StartWorkers(NewPlain(cp, n), cp, d)
               /\ file' = f /\ sidecar' = sc
            \/ /\ Plain!Incomplete(cp, n) = {} /\ d < TotalSize
               /\ Plain!StartWorkers({ Plain!WorkerFor(0, TotalSize - 1) }, Plain!NoProgress, 0)
               /\ file' = Plain!FreshFile /\ sidecar' = {}
            \/ /\ Plain!Incomplete(cp, n) = {} /\ d >= TotalSize /\ Plain!FinishDownload(d, f, 0)
               /\ chunkProgress' = cp /\ downloadedSize' = d /\ sidecar' = {cp} /\ UNCHANGED workers
  BY SameNumbers DEF Plain!SpawnWorkers, NewPlain
<1>6. Proved!SpawnWorkers(cp0, d0, f0, sc) <=>
         /\ spawns' = spawns + 1
         /\ \/ /\ Proved!Incomplete(cp, n) # {} /\ Proved!StartWorkers(NewProved(cp, n), cp, d)
               /\ file' = f /\ sidecar' = sc
            \/ /\ Proved!Incomplete(cp, n) = {} /\ d < TotalSize
               /\ Proved!StartWorkers({ Proved!WorkerFor(0, TotalSize - 1) }, Proved!NoProgress, 0)
               /\ file' = Proved!FreshFile /\ sidecar' = {}
            \/ /\ Proved!Incomplete(cp, n) = {} /\ d >= TotalSize /\ Proved!FinishDownload(d, f, 0)
               /\ chunkProgress' = cp /\ downloadedSize' = d /\ sidecar' = {cp} /\ UNCHANGED workers
  BY DEF Proved!SpawnWorkers, NewProved
<1> HIDE DEF reset, cp, d, f, n
<1>7. Plain!Incomplete(cp, n) = Proved!Incomplete(cp, n) /\ NewPlain(cp, n) = NewProved(cp, n)
  BY <1>2, <1>4
<1>8. Plain!StartWorkers(NewPlain(cp, n), cp, d) <=> Proved!StartWorkers(NewProved(cp, n), cp, d)
  BY <1>7, SameStart
<1>9. Plain!StartWorkers({ Plain!WorkerFor(0, TotalSize - 1) }, Plain!NoProgress, 0)
       <=> Proved!StartWorkers({ Proved!WorkerFor(0, TotalSize - 1) }, Proved!NoProgress, 0)
  BY <1>3, SameNumbers, SameStart
<1>10. Plain!FinishDownload(d, f, 0) <=> Proved!FinishDownload(d, f, 0)
  BY SameFinish
<1> QED BY <1>5, <1>6, <1>7, <1>8, <1>9, <1>10, SameNumbers

LEMMA SameFetched == Plain!HandleMetadataFetched <=> Proved!HandleMetadataFetched
<1>1. ASSUME NEW cp, NEW f, NEW sc PROVE Plain!Proceed(cp, f, sc) <=> Proved!Proceed(cp, f, sc)
  BY SameFinish, SameSpawn, SameNumbers DEF Plain!Proceed, Proved!Proceed
<1> QED
    BY <1>1, SameNumbers DEF Plain!HandleMetadataFetched, Proved!HandleMetadataFetched,
                             Plain!Deliver, Proved!Deliver, Plain!ThreadsAfter,
                             Proved!ThreadsAfter, Plain!Adoptable, Proved!Adoptable

LEMMA SameNext == Plain!Next <=> Proved!Next
<1>1. Plain!Resume <=> Proved!Resume
  BY SameSpawn DEF Plain!Resume, Proved!Resume
<1> QED
    BY <1>1, SameFetched DEF Plain!Adoptable, Proved!Adoptable, Plain!Alien, Proved!Alien,
                             Plain!Becomes, Proved!Becomes, Plain!Bytes, Proved!Bytes,
                             Plain!ChecksumDone, Proved!ChecksumDone, Plain!ChunkStart,
                             Proved!ChunkStart, Plain!Cleanup, Proved!Cleanup, Plain!Command,
                             Proved!Command, Plain!Conclude, Proved!Conclude, Plain!CountMatches,
                             Proved!CountMatches, Plain!Deliver, Proved!Deliver, Plain!Dispatch,
                             Proved!Dispatch, Plain!DropMetadata, Proved!DropMetadata,
                             Plain!DropVerdict, Proved!DropVerdict, Plain!Elsewhere,
                             Proved!Elsewhere, Plain!FailWith, Proved!FailWith,
                             Plain!FinishDownload, Proved!FinishDownload, Plain!FromThisGeneration,
                             Proved!FromThisGeneration, Plain!HandleMetadataError,
                             Proved!HandleMetadataError, Plain!NeedsCleanRestart,
                             Proved!NeedsCleanRestart, Plain!Next, Proved!Next, Plain!NoFile,
                             Proved!NoFile, Plain!NoProgress, Proved!NoProgress,
                             Plain!OnChunkDownloaded, Proved!OnChunkDownloaded,
                             Plain!OnUnverifiable, Proved!OnUnverifiable, Plain!OnVerified,
                             Proved!OnVerified, Plain!OnWorkerError, Proved!OnWorkerError,
                             Plain!OnWorkerFinished, Proved!OnWorkerFinished,
                             Plain!OverwriteAfterRetry, Proved!OverwriteAfterRetry, Plain!Pause,
                             Proved!Pause, Plain!Post, Proved!Post, Plain!PrepareRetry,
                             Proved!PrepareRetry, Plain!ProbeAnswer, Proved!ProbeAnswer,
                             Plain!ProbePending, Proved!ProbePending, Plain!RefuseMetadata,
                             Proved!RefuseMetadata, Plain!ResumeRestored, Proved!ResumeRestored,
                             Plain!RetireWorkers, Proved!RetireWorkers, Plain!Saved, Proved!Saved,
                             Plain!Stale, Proved!Stale, Plain!StaleVerdict, Proved!StaleVerdict,
                             Plain!Start, Proved!Start, Plain!Starts, Proved!Starts, Plain!Stop,
                             Proved!Stop, Plain!Stoppable, Proved!Stoppable, Plain!Terminal,
                             Proved!Terminal, Plain!ThreadsAfter, Proved!ThreadsAfter,
                             Plain!Verdict, Proved!Verdict, Plain!Whole, Proved!Whole,
                             Plain!WorkerBegin, Proved!WorkerBegin, Plain!WorkerCheck,
                             Proved!WorkerCheck, Plain!WorkerFail, Proved!WorkerFail,
                             Plain!WorkerFrame, Proved!WorkerFrame, Plain!WorkerRestart,
                             Proved!WorkerRestart, Plain!WorkerShortRead, Proved!WorkerShortRead,
                             Plain!WorkerStep, Proved!WorkerStep, Plain!WorkerStore,
                             Proved!WorkerStore, Plain!WorkerWrite, Proved!WorkerWrite,
                             Plain!Written, Proved!Written, Plain!Wrong, Proved!Wrong,
                             Plain!control, Proved!control, Plain!counters, Proved!counters,
                             Plain!disk, Proved!disk, Plain!history, Proved!history, Plain!policy,
                             Proved!policy, Plain!pool, Proved!pool

LEMMA SameInit == Plain!Init <=> Proved!Init
BY DEF Plain!Added, Proved!Added, Plain!Alien, Proved!Alien, Plain!ChunkEnd, Proved!ChunkEnd,
       Plain!ChunkStart, Proved!ChunkStart, Plain!Done, Proved!Done, Plain!FreshFile,
       Proved!FreshFile, Plain!Init, Proved!Init, Plain!NoFile, Proved!NoFile, Plain!NoProgress,
       Proved!NoProgress, Plain!Restorable, Proved!Restorable, Plain!Restored, Proved!Restored,
       Plain!Starts, Proved!Starts

(* The kind of download a behaviour is about. *)
Checked == job = "checksum"
Bare    == job = "plain"

(* RightlyComplete, for every size, number of chunks and set of replies of  *)
(* the download with a checksum and every size of the one without:          *)
(* COMPLETED means a whole file, with a checksum always, by the byte count  *)
(* as long as no generation was retired (finish_download).                  *)
THEOREM AlwaysRightlyComplete ==
  ASSUME EarlyRetry = FALSE, External = FALSE
  PROVE  JobSpec => []RightlyComplete
<1>1. Spec => []VerifiedIsWhole
  BY ChecksumMeansWhole
<1>2. Proved!Spec => []Proved!FirstGenerationIsWhole
  <2>1. MaxStarts \in Nat /\ MaxEpoch \in Nat
    BY BoundAssumption
  <2>2. /\ FALSE \in BOOLEAN
        /\ ShortReads \in BOOLEAN
        /\ EarlyRetry \in BOOLEAN
        /\ External \in BOOLEAN
    BY FlagAssumption
  <2>3. TotalSize \in Nat \ {0} /\ 1 \in Nat \ {0}
    BY SizeAssumption
  <2>4. Reply \subseteq Proved!Reply
    BY DEF Reply, Proved!Reply
  <2> QED BY <2>1, <2>2, <2>3, <2>4, Proved!CountMeansWhole
<1>3. /\ JobInit /\ Checked => Init
      /\ JobInit /\ Bare => Proved!Init
  BY SameInit DEF JobInit, Checked, Bare
<1>4. [JobNext]_<<vars, job>> => UNCHANGED job
  BY DEF JobNext
<1>5. ASSUME [JobNext]_<<vars, job>>, Checked PROVE [Next]_vars
  BY <1>5 DEF JobNext, Checked
<1>6. ASSUME [JobNext]_<<vars, job>>, Bare PROVE [Proved!Next]_(Proved!vars)
  BY <1>6, SameNext DEF JobNext, Bare, vars, control, counters, policy, disk, pool, history,
       Proved!vars, Proved!control, Proved!counters, Proved!policy, Proved!disk, Proved!pool,
       Proved!history
<1>7. [JobNext]_<<vars, job>> => (Checked <=> Checked') /\ (Bare <=> Bare')
  BY <1>4 DEF Checked, Bare
<1>8. /\ Checked /\ VerifiedIsWhole => RightlyComplete
      /\ Bare /\ Proved!FirstGenerationIsWhole => RightlyComplete
      /\ ~Checked /\ ~Bare => RightlyComplete
  BY DEF RightlyComplete, Checked, Bare, FirstGenerationIsWhole, Proved!FirstGenerationIsWhole,
         Whole, Proved!Whole, Bytes, Proved!Bytes
<1>9. JobSpec => \/ []Checked /\ Spec
                 \/ []Bare /\ Proved!Spec
                 \/ [](~Checked /\ ~Bare)
  BY <1>3, <1>5, <1>6, <1>7, PTL DEF JobSpec, Spec, Proved!Spec
<1> QED BY <1>1, <1>2, <1>8, <1>9, PTL
=============================================================================
