----------------------- MODULE DownloadManagerProofs -----------------------
(***************************************************************************)
(* Theorems about DownloadManager, for every size, thread count and set of *)
(* replies, with and without the optional behaviours.                      *)
(***************************************************************************)
EXTENDS DownloadManager, FiniteSetTheorems, SequenceTheorems, TLAPS

-----------------------------------------------------------------------------
(* The split of the file.                                                   *)

(* Multiplication by a natural number is monotonic. *)
LEMMA TimesMonotonic ==
  ASSUME NEW a \in Nat, NEW b \in Nat, NEW q \in Nat, a <= b
  PROVE  a * q <= b * q
<1>1. PICK c \in Nat : b = a + c
  <2> WITNESS b - a \in Nat
  <2> QED OBVIOUS
<1>2. b * q = a * q + c * q
  BY <1>1
<1>3. c * q \in Nat /\ a * q \in Nat
  OBVIOUS
<1> QED BY <1>2, <1>3

(* The chunks of an n-way split start where n_1-way chunks can, and end     *)
(* inside the file (_spawn_workers).                                        *)
LEMMA ChunkInRange ==
  ASSUME NEW n \in {1, NumThreads}, NEW i \in 0 .. n - 1
  PROVE  /\ ChunkStart(i, n) \in Starts
         /\ ChunkEnd(i, n) \in Int
         /\ ChunkEnd(i, n) <= TotalSize - 1
<1> USE SizeAssumption, ThreadAssumption
<1> DEFINE q == TotalSize \div n
<1>1. q \in Nat /\ n * q <= TotalSize /\ n \in Nat \ {0}
  OBVIOUS
<1>2. ChunkStart(i, n) \in Starts
  <2>1. CASE n = NumThreads
    BY <2>1 DEF Starts
  <2>2. CASE n = 1
    <3>1. i = 0 /\ ChunkStart(i, n) = 0
      BY <2>2, SMT DEF ChunkStart
    <3>2. ChunkStart(0, NumThreads) = 0 /\ 0 \in 0 .. NumThreads - 1
      BY SMT DEF ChunkStart
    <3> QED BY <3>1, <3>2 DEF Starts
  <2> QED BY <2>1, <2>2
<1>3. CASE i < n - 1
  <2>1. ChunkEnd(i, n) = (i + 1) * q - 1
    BY <1>1, <1>3 DEF ChunkEnd, ChunkStart
  <2>2. (i + 1) * q <= n * q
    BY <1>1, <1>3, TimesMonotonic, i + 1 \in Nat, i + 1 <= n
  <2>3. (i + 1) * q \in Int /\ n * q \in Int
    BY <1>1
  <2> QED BY <1>1, <1>2, <2>1, <2>2, <2>3
<1>4. CASE ~(i < n - 1)
  BY <1>2, <1>4 DEF ChunkEnd
<1> QED BY <1>3, <1>4

LEMMA StartsFinite == Starts \subseteq Nat /\ IsFiniteSet(Starts)
<1> DEFINE f == [i \in 0 .. NumThreads - 1 |-> ChunkStart(i, NumThreads)]
<1>1. f \in Surjection(0 .. NumThreads - 1, Starts)
  BY DEF Starts, Surjection
<1>2. IsFiniteSet(0 .. NumThreads - 1)
  BY FS_Interval, ThreadAssumption
<1>3. \A i \in 0 .. NumThreads - 1 : ChunkStart(i, NumThreads) \in Nat
  BY SizeAssumption, ThreadAssumption DEF ChunkStart
<1> QED BY <1>1, <1>2, <1>3, FS_Surjection DEF Starts

(* sum(chunk_progress.values()) is a number. *)
LEMMA SumType ==
  ASSUME NEW cp \in ChunkMap
  PROVE  SumOf(cp) \in Nat
<1> DEFINE part(s) == {s} \X (1 .. cp[s])
           parts == { part(s) : s \in Starts }
           f == [s \in Starts |-> part(s)]
<1>1. \A s \in Starts : IsFiniteSet(part(s))
  <2> TAKE s \in Starts
  <2>1. IsFiniteSet({s})
    BY FS_Singleton
  <2>2. IsFiniteSet(1 .. cp[s])
    BY FS_Interval DEF ChunkMap
  <2> QED BY <2>1, <2>2, FS_Product
<1>2. f \in Surjection(Starts, parts)
  BY DEF Surjection
<1>3. IsFiniteSet(parts)
  BY <1>2, StartsFinite, FS_Surjection
<1>4. IsFiniteSet(UNION parts)
  BY <1>1, <1>3, FS_UNION
<1> QED BY <1>4, FS_CardinalityType DEF SumOf
-----------------------------------------------------------------------------
(* Type correctness.  A worker indexes chunk_progress with its start and    *)
(* the file with its position, so both have to stay in range.               *)

Placed(w) == /\ w.start \in Starts
             /\ w.start <= w.end
             /\ w.end <= TotalSize - 1
             /\ w.pc \in {"reading", "writing", "storing"} => w.pos <= w.end

TypeInv == TypeOK /\ \A w \in workers : Placed(w)

(* Files stay files, whatever is written to them or found out about them. *)
LEMMA FileType ==
  ASSUME NEW f \in File
  PROVE  /\ Wrong(f) \in File
         /\ \A pos \in Bytes : Written(f, pos) \in File
BY DEF File, Wrong, Written

(* finish_download leaves every field it touches well typed. *)
LEMMA FinishType ==
  ASSUME TypeOK, NEW d \in Nat, NEW f \in File, NEW a \in Int, FinishDownload(d, f, a)
  PROVE  /\ status' \in Status /\ restartRequired' \in BOOLEAN
         /\ workerEpoch' \in Nat /\ activeWorkers' \in Int
         /\ verifiers' \in SUBSET Nat /\ cleanups' \in Nat
         /\ file' \in File
<1>1. /\ restartRequired \in BOOLEAN /\ workerEpoch \in Nat /\ activeWorkers \in Int
      /\ verifiers \in SUBSET Nat /\ cleanups \in Nat
  BY DEF TypeOK, FlagsOK, ControlOK, CountOK, DiskOK, PoolOK
<1>2. file' \in File
  BY FileType DEF FinishDownload
<1>3. restartRequired' \in BOOLEAN
  BY <1>1, Zenon DEF FinishDownload, FailWith
<1>4. CASE FailWith(TRUE) \/ FailWith(restartRequired)
  <2>1. workerEpoch' = workerEpoch + 1 /\ activeWorkers' = 0 /\ status' = "ERROR"
    BY <1>4 DEF FailWith, RetireWorkers
  <2>2. verifiers' = verifiers /\ cleanups' = cleanups
    BY <1>4 DEF FailWith
  <2> QED BY <1>1, <1>2, <1>3, <2>1, <2>2 DEF Status
<1>5. CASE Conclude /\ activeWorkers' = a /\ workerEpoch' = workerEpoch
  <2>1. status' = "VERIFYING" \/ status' = "COMPLETED"
    BY <1>5 DEF Conclude
  <2>2. verifiers' = verifiers \/ verifiers' = verifiers \cup {workerEpoch}
    BY <1>5 DEF Conclude
  <2>3. cleanups' = cleanups \/ cleanups' = cleanups + 1
    BY <1>5 DEF Conclude
  <2>4. activeWorkers' = a /\ workerEpoch' = workerEpoch
    BY <1>5
  <2>5. verifiers' \in SUBSET Nat
    BY <1>1, <2>2
  <2>6. cleanups' \in Nat
    BY <1>1, <2>3
  <2> QED BY <1>1, <1>2, <1>3, <2>1, <2>4, <2>5, <2>6 DEF Status
<1> QED BY <1>4, <1>5 DEF FinishDownload

(* A worker is born in range, with the epoch of its manager. *)
LEMMA WorkerType ==
  ASSUME TypeOK, rangesSupported' \in BOOLEAN,
         NEW s \in Starts, NEW e \in Int, s <= e, e <= TotalSize - 1
  PROVE  WorkerFor(s, e) \in Worker /\ Placed(WorkerFor(s, e))
BY StartsFinite DEF TypeOK, FlagsOK, CountOK, WorkerFor, Worker, Placed

LEMMA FreshType == /\ FreshFile \in File /\ NoFile \in File
                   /\ \A sz \in {"exact", "long"} : Alien(sz) \in File
                   /\ NoProgress \in ChunkMap
                   /\ 0 \in Starts
<1>1. 0 \in Starts
  <2>1. ChunkStart(0, 1) = 0 /\ 0 \in 0 .. 1 - 1
    BY SizeAssumption DEF ChunkStart
  <2>2. ChunkStart(0, 1) \in Starts
    BY <2>1, ChunkInRange
  <2> QED BY <2>1, <2>2
<1> QED BY <1>1 DEF FreshFile, NoFile, Alien, File, NoProgress, ChunkMap

(* The workers of a spawn are finitely many, and in range. *)
LEMMA NewWorkersType ==
  ASSUME TypeOK, rangesSupported' \in BOOLEAN,
         NEW n \in {1, NumThreads}, NEW cp \in ChunkMap
  PROVE  LET new == { WorkerFor(ChunkStart(i, n), ChunkEnd(i, n)) : i \in Incomplete(cp, n) }
         IN  /\ new \subseteq Worker
             /\ \A w \in new : Placed(w)
             /\ Cardinality(new) \in Nat
<1> DEFINE W(i) == WorkerFor(ChunkStart(i, n), ChunkEnd(i, n))
           new == { W(i) : i \in Incomplete(cp, n) }
           f == [i \in Incomplete(cp, n) |-> W(i)]
<1>1. \A i \in Incomplete(cp, n) : W(i) \in Worker /\ Placed(W(i))
  <2> TAKE i \in Incomplete(cp, n)
  <2>1. i \in 0 .. n - 1
    BY DEF Incomplete
  <2>2. /\ ChunkStart(i, n) \in Starts /\ ChunkEnd(i, n) \in Int
        /\ ChunkEnd(i, n) <= TotalSize - 1
    BY <2>1, ChunkInRange
  <2>3. ChunkStart(i, n) \in Nat /\ cp[ChunkStart(i, n)] \in Nat
    BY <2>2, StartsFinite DEF ChunkMap
  <2>4. ChunkStart(i, n) <= ChunkEnd(i, n)
    BY <2>2, <2>3 DEF Incomplete
  <2> QED BY <2>2, <2>4, WorkerType
<1>2. IsFiniteSet(Incomplete(cp, n))
  <2>1. IsFiniteSet(0 .. n - 1)
    BY FS_Interval, ThreadAssumption
  <2> QED BY <2>1, FS_Subset DEF Incomplete
<1>3. f \in Surjection(Incomplete(cp, n), new)
  BY DEF Surjection
<1>4. Cardinality(new) \in Nat
  BY <1>2, <1>3, FS_Surjection, FS_CardinalityType
<1> QED BY <1>1, <1>4

(* _spawn_workers, in every one of its three outcomes. *)
LEMMA SpawnType ==
  ASSUME TypeInv, rangesSupported' \in BOOLEAN, numThreads' \in {1, NumThreads},
         NEW cp0 \in ChunkMap, NEW d0 \in Nat, NEW f0 \in File, NEW sc \in SUBSET ChunkMap,
         SpawnWorkers(cp0, d0, f0, sc)
  PROVE  /\ status' \in Status /\ restartRequired' \in BOOLEAN
         /\ workerEpoch' \in Nat /\ activeWorkers' \in Int
         /\ downloadedSize' \in Nat /\ chunkProgress' \in ChunkMap
         /\ verifiers' \in SUBSET Nat /\ cleanups' \in Nat
         /\ file' \in File /\ sidecar' \in SUBSET ChunkMap
         /\ workers' \in SUBSET Worker /\ \A w \in workers' : Placed(w)
         /\ spawns' \in Nat
<1> DEFINE reset == ~rangesSupported' /\ d0 # 0
           cp == IF reset THEN NoProgress ELSE cp0
           d == IF reset THEN 0 ELSE d0
           f == IF reset THEN FreshFile ELSE f0
           n == numThreads'
           todo == Incomplete(cp, n)
           new == { WorkerFor(ChunkStart(i, n), ChunkEnd(i, n)) : i \in todo }
<1>1. cp \in ChunkMap /\ d \in Nat /\ f \in File
  BY FreshType
<1>2. spawns' \in Nat
  BY DEF SpawnWorkers, TypeInv, TypeOK, CountOK
<1>3. CASE todo # {} /\ StartWorkers(new, cp, d) /\ file' = f /\ sidecar' = sc
  <2>1. new \subseteq Worker /\ (\A w \in new : Placed(w)) /\ Cardinality(new) \in Nat
    BY <1>1, NewWorkersType DEF TypeInv
  <2>2. workers' = workers \cup new
    BY <1>3 DEF StartWorkers
  <2> HIDE DEF new
  <2>3. workers' \in SUBSET Worker /\ \A w \in workers' : Placed(w)
    BY <2>1, <2>2 DEF TypeInv, TypeOK, PoolOK
  <2>4. /\ status' = "DOWNLOADING" /\ activeWorkers' = Cardinality(new)
        /\ chunkProgress' = cp /\ downloadedSize' = d
        /\ UNCHANGED <<workerEpoch, restartRequired, verifiers, cleanups>>
    BY <1>3 DEF StartWorkers
  <2>5. restartRequired' \in BOOLEAN
    BY <2>4 DEF TypeInv, TypeOK, FlagsOK
  <2> QED BY <1>1, <1>2, <1>3, <2>1, <2>3, <2>4, <2>5
             DEF TypeInv, TypeOK, CountOK, PoolOK, Status
<1>4. CASE /\ StartWorkers({ WorkerFor(0, TotalSize - 1) }, NoProgress, 0)
           /\ file' = FreshFile /\ sidecar' = {}
  <2>1. WorkerFor(0, TotalSize - 1) \in Worker /\ Placed(WorkerFor(0, TotalSize - 1))
    BY FreshType, WorkerType, SizeAssumption DEF TypeInv
  <2>2. Cardinality({ WorkerFor(0, TotalSize - 1) }) = 1
    BY FS_Singleton
  <2>3. workers' \in SUBSET Worker /\ \A w \in workers' : Placed(w)
    BY <1>4, <2>1 DEF StartWorkers, TypeInv, TypeOK, PoolOK
  <2>4. /\ status' = "DOWNLOADING" /\ activeWorkers' = 1
        /\ chunkProgress' = NoProgress /\ downloadedSize' = 0
        /\ UNCHANGED <<workerEpoch, restartRequired, verifiers, cleanups>>
    BY <1>4, <2>2 DEF StartWorkers
  <2>5. restartRequired' \in BOOLEAN
    BY <2>4 DEF TypeInv, TypeOK, FlagsOK
  <2> QED BY <1>2, <1>4, <2>3, <2>4, <2>5, FreshType
             DEF TypeInv, TypeOK, CountOK, PoolOK, Status
<1>5. CASE /\ FinishDownload(d, f, 0)
           /\ chunkProgress' = cp /\ downloadedSize' = d
           /\ sidecar' = {cp} /\ UNCHANGED workers
  <2>1. workers' \in SUBSET Worker /\ \A w \in workers' : Placed(w)
    BY <1>5 DEF TypeInv, TypeOK, PoolOK
  <2> QED BY <1>1, <1>2, <1>5, <2>1, FinishType DEF TypeInv
<1> QED BY <1>3, <1>4, <1>5 DEF SpawnWorkers

(* The groups of the type invariant, put together again. *)
LEMMA KeepTypes ==
  ASSUME TypeInv,
         status' \in Status, numThreads' \in {1, NumThreads},
         rangesSupported' \in BOOLEAN, restartRequired' \in BOOLEAN,
         metadataInitialized' = metadataInitialized \/ metadataInitialized' = TRUE,
         owned' = owned \/ owned' = TRUE,
         UNCHANGED <<allowOverwrite, granted, starts, probes>>,
         activeWorkers' \in Int, workerEpoch' \in Nat, downloadedSize' \in Nat, spawns' \in Nat,
         chunkProgress' \in ChunkMap, sidecar' \in SUBSET ChunkMap, file' \in File,
         workers' \in SUBSET Worker, \A w \in workers' : Placed(w),
         verifiers' \in SUBSET Nat, cleanups' \in Nat,
         events' \in Seq(Event)
  PROVE  TypeInv'
<1>1. FlagsOK'
  BY Zenon DEF TypeInv, TypeOK, FlagsOK
<1>2. ControlOK' /\ DiskOK' /\ EventsOK'
  BY DEF ControlOK, DiskOK, EventsOK
<1>3. CountOK'
  BY DEF TypeInv, TypeOK, CountOK
<1>4. PoolOK'
  BY DEF TypeInv, TypeOK, PoolOK
<1> QED BY <1>1, <1>2, <1>3, <1>4 DEF TypeInv, TypeOK

(* What the session and the sidecar restore lies inside the file. *)
LEMMA RestoredInRange ==
  ASSUME NEW cp \in Restorable
  PROVE  cp \in ChunkMap /\ Done(cp) \subseteq Bytes
<1>1. cp \in ChunkMap
  BY SizeAssumption DEF Restorable, ChunkMap
<1>2. ASSUME NEW s \in Starts, NEW b \in s .. s + cp[s] - 1 PROVE b \in Bytes
  <2>1. PICK i \in 0 .. NumThreads - 1 : s = ChunkStart(i, NumThreads)
    BY DEF Starts
  <2>2. cp[s] <= ChunkEnd(i, NumThreads) - s + 1
    BY <2>1 DEF Restorable
  <2>3. ChunkEnd(i, NumThreads) \in Int /\ ChunkEnd(i, NumThreads) <= TotalSize - 1
    BY ChunkInRange
  <2>4. s \in Nat /\ cp[s] \in Nat
    BY <1>1, StartsFinite DEF ChunkMap
  <2> QED BY <2>2, <2>3, <2>4, SizeAssumption DEF Bytes
<1> QED BY <1>1, <1>2 DEF Done

(* What a worker thread does to its own record, the file, chunk_progress    *)
(* and the event queue.                                                     *)
LEMMA WorkerStepType ==
  ASSUME TypeInv, NEW w \in workers,
         \/ WorkerBegin(w) \/ WorkerRestart(w) \/ WorkerCheck(w) \/ WorkerWrite(w)
         \/ WorkerStore(w) \/ WorkerShortRead(w) \/ WorkerFail(w)
  PROVE  DiskOK' /\ EventsOK' /\ PoolOK' /\ \A v \in workers' : Placed(v)
<1> USE DEF TypeInv, TypeOK
<1>1. w \in Worker /\ Placed(w) /\ w.start \in Starts /\ w.start \in Nat
  BY StartsFinite DEF PoolOK, Placed
<1>2. chunkProgress[w.start] \in Nat
  BY <1>1 DEF DiskOK, ChunkMap
<1>3. UNCHANGED <<probes, verifiers, cleanups, sidecar>>
  BY DEF WorkerBegin, WorkerRestart, WorkerCheck, WorkerWrite, WorkerStore,
         WorkerShortRead, WorkerFail, WorkerFrame
<1>4. ASSUME NEW v \in Worker, Placed(v), workers' = (workers \ {w}) \cup {v}
      PROVE  PoolOK' /\ \A u \in workers' : Placed(u)
  BY <1>3, <1>4 DEF PoolOK
<1>5. ASSUME workers' = workers \ {w} PROVE PoolOK' /\ \A u \in workers' : Placed(u)
  BY <1>3, <1>5 DEF PoolOK
<1>6. ASSUME UNCHANGED <<chunkProgress, file>> PROVE DiskOK'
  BY <1>3, <1>6 DEF DiskOK
<1>7. ASSUME UNCHANGED file, NEW k \in Nat,
             chunkProgress' = [chunkProgress EXCEPT ![w.start] = k]
      PROVE  DiskOK'
  BY <1>1, <1>3, <1>7 DEF DiskOK, ChunkMap
<1>8. ASSUME NEW e \in Event, Post(e) PROVE EventsOK'
  BY <1>8 DEF EventsOK, Post
<1>9. ASSUME UNCHANGED events PROVE EventsOK'
  BY <1>9 DEF EventsOK
<1>10. /\ [kind |-> "finished", epoch |-> w.epoch] \in Event
       /\ [kind |-> "failed", epoch |-> w.epoch] \in Event
       /\ [kind |-> "chunk"] \in Event
  BY <1>1 DEF Worker, Event
<1>11. CASE WorkerBegin(w)
  <2> DEFINE pos == w.start + chunkProgress[w.start]
             next == IF ~w.ranged /\ pos # 0 THEN "restart" ELSE "reading"
             v == [w EXCEPT !.pos = pos, !.pc = next]
  <2>1. workers' = (workers \ {w}) \cup {v}
    BY <1>11 DEF WorkerBegin, Becomes
  <2>2. v \in Worker
    <3>1. pos \in Nat /\ next \in {"restart", "reading"}
      BY <1>1, <1>2
    <3> HIDE DEF pos, next
    <3> QED BY <1>1, <3>1 DEF Worker
  <2>3. v.start = w.start /\ v.end = w.end /\ v.pos = pos /\ v.pc = next
    BY <1>1 DEF Worker
  <2>4. next = "reading" => pos <= w.end
    BY <1>1, <1>11 DEF WorkerBegin, Placed, Worker
  <2>5. Placed(v)
    BY <1>1, <2>3, <2>4 DEF Placed
  <2>6. UNCHANGED <<chunkProgress, file, events>>
    BY <1>11 DEF WorkerBegin
  <2> QED BY <1>4, <1>6, <1>9, <2>1, <2>2, <2>5, <2>6
<1>12. CASE WorkerRestart(w)
  <2> DEFINE v == [w EXCEPT !.pos = 0, !.pc = "reading"]
  <2>1. workers' = (workers \ {w}) \cup {v}
    BY <1>12 DEF WorkerRestart, Becomes
  <2>2. v \in Worker
    BY <1>1 DEF Worker
  <2>3. v.start = w.start /\ v.end = w.end /\ v.pos = 0
    BY <1>1 DEF Worker
  <2>4. w.start <= w.end /\ w.end \in Int
    BY <1>1 DEF Worker, Placed
  <2>5. Placed(v)
    BY <1>1, <2>3, <2>4 DEF Placed
  <2> HIDE DEF v
  <2> QED BY <1>4, <1>7, <1>9, <1>12, <2>5, <2>1, <2>2 DEF WorkerRestart
<1>13. CASE WorkerCheck(w)
  <2> DEFINE v == [w EXCEPT !.pc = "writing"]
  <2>1. workers' = workers \ {w} \/ workers' = (workers \ {w}) \cup {v}
    BY <1>13 DEF WorkerCheck, Becomes
  <2>2. v \in Worker /\ Placed(v)
    BY <1>1, <1>13 DEF Worker, Placed, WorkerCheck
  <2> QED BY <1>4, <1>5, <1>6, <1>9, <1>13, <2>1, <2>2 DEF WorkerCheck
<1>14. CASE WorkerWrite(w)
  <2> DEFINE v == [w EXCEPT !.pc = "storing", !.seen = chunkProgress[w.start]]
  <2>1. workers' = (workers \ {w}) \cup {v}
    BY <1>14 DEF WorkerWrite, Becomes
  <2>2. v \in Worker /\ Placed(v)
    BY <1>1, <1>2, <1>14 DEF Worker, Placed, WorkerWrite
  <2>3. w.pos \in Bytes
    BY <1>1, <1>14, SizeAssumption DEF WorkerWrite, Placed, Worker, Bytes
  <2>4. DiskOK'
    BY <1>3, <1>14, <2>3, FileType DEF WorkerWrite, DiskOK
  <2> QED BY <1>4, <1>8, <1>10, <1>14, <2>1, <2>2, <2>4 DEF WorkerWrite
<1>15. CASE WorkerStore(w)
  <2> DEFINE v == [w EXCEPT !.pos = @ + 1, !.pc = "reading"]
  <2>1. w.seen + 1 \in Nat
    BY <1>1 DEF Worker
  <2>2. CASE w.pos = w.end
    BY <1>5, <1>7, <1>8, <1>10, <1>15, <2>1, <2>2 DEF WorkerStore
  <2>3. CASE w.pos # w.end
    <3>1. workers' = (workers \ {w}) \cup {v}
      BY <1>15, <2>3 DEF WorkerStore, Becomes
    <3>2. v \in Worker
      <4>1. w.pos + 1 \in Nat /\ v = [w EXCEPT !.pos = w.pos + 1, !.pc = "reading"]
        BY <1>1 DEF Worker
      <4> HIDE DEF v
      <4> QED BY <1>1, <4>1 DEF Worker
    <3>3. v.start = w.start /\ v.end = w.end /\ v.pos = w.pos + 1
      BY <1>1 DEF Worker
    <3>4. w.pos <= w.end /\ w.pos \in Int /\ w.end \in Int
      BY <1>1, <1>15 DEF Worker, Placed, WorkerStore
    <3>5. Placed(v)
      BY <1>1, <2>3, <3>3, <3>4 DEF Placed
    <3> HIDE DEF v
    <3> QED BY <1>4, <1>7, <1>9, <1>15, <2>1, <2>3, <3>1, <3>2, <3>5 DEF WorkerStore
  <2> QED BY <2>2, <2>3
<1>16. CASE WorkerShortRead(w)
  BY <1>5, <1>6, <1>8, <1>10, <1>16 DEF WorkerShortRead
<1>17. CASE WorkerFail(w)
  BY <1>5, <1>6, <1>8, <1>9, <1>10, <1>17 DEF WorkerFail
<1> QED BY <1>11, <1>12, <1>13, <1>14, <1>15, <1>16, <1>17

(* Every step keeps the types. *)
LEMMA TypeStep == TypeInv /\ [Next]_vars => TypeInv'
<1> SUFFICES ASSUME TypeInv, [Next]_vars PROVE TypeInv'
  OBVIOUS
<1> USE DEF control, counters, policy, disk, pool, history, TypeInv, TypeOK
<1>1. CASE Start
  <2>1. FlagsOK'
    BY <1>1 DEF Start, FlagsOK
  <2>2. DiskOK' /\ EventsOK'
    BY <1>1 DEF Start, DiskOK, EventsOK
  <2>3. ControlOK'
    BY <1>1 DEF Start, ControlOK, Status
  <2>4. CountOK'
    BY <1>1 DEF Start, CountOK
  <2>5. PoolOK'
    <3>1. starts + 1 \in Nat
      BY DEF CountOK
    <3>2. probes' = probes \cup {starts + 1}
      BY <1>1 DEF Start
    <3>3. UNCHANGED <<workers, verifiers, cleanups>>
      BY <1>1 DEF Start
    <3> QED BY <3>1, <3>2, <3>3 DEF PoolOK
  <2>6. \A w \in workers' : Placed(w)
    BY <1>1 DEF Start
  <2> QED BY <2>1, <2>2, <2>3, <2>4, <2>5, <2>6
<1>2. CASE Pause
  <2>1. FlagsOK'
    BY <1>2 DEF Pause, FlagsOK
  <2>2. PoolOK' /\ EventsOK'
    BY <1>2 DEF Pause, PoolOK, EventsOK
  <2>3. ControlOK'
    BY <1>2 DEF Pause, RetireWorkers, ControlOK, Status
  <2>4. CountOK'
    BY <1>2 DEF Pause, RetireWorkers, CountOK
  <2>5. DiskOK'
    BY <1>2 DEF Pause, RetireWorkers, DiskOK
  <2>6. \A w \in workers' : Placed(w)
    BY <1>2 DEF Pause
  <2> QED BY <2>1, <2>2, <2>3, <2>4, <2>5, <2>6
<1>3. CASE ResumeRestored
  <2>1. FlagsOK'
    BY <1>3 DEF ResumeRestored, FlagsOK
  <2>2. CountOK' /\ DiskOK' /\ PoolOK' /\ EventsOK'
    BY <1>3 DEF ResumeRestored, CountOK, DiskOK, PoolOK, EventsOK
  <2>3. ControlOK'
    BY <1>3 DEF ResumeRestored, ControlOK, Status
  <2>4. \A w \in workers' : Placed(w)
    BY <1>3 DEF ResumeRestored
  <2> QED BY <2>1, <2>2, <2>3, <2>4
<1>4. CASE Stop
  <2>1. FlagsOK'
    BY <1>4 DEF Stop, FlagsOK
  <2>2. DiskOK' /\ EventsOK'
    BY <1>4 DEF Stop, DiskOK, EventsOK
  <2>3. ControlOK'
    BY <1>4 DEF Stop, RetireWorkers, ControlOK, Status
  <2>4. CountOK'
    BY <1>4 DEF Stop, RetireWorkers, CountOK
  <2>5. PoolOK'
    BY <1>4 DEF Stop, RetireWorkers, PoolOK
  <2>6. \A w \in workers' : Placed(w)
    BY <1>4 DEF Stop
  <2> QED BY <2>1, <2>2, <2>3, <2>4, <2>5, <2>6
<1>5. CASE PrepareRetry
  <2>1. PoolOK' /\ EventsOK'
    BY <1>5 DEF PrepareRetry, PoolOK, EventsOK
  <2>2. FlagsOK'
    <3>1. allowOverwrite' \in BOOLEAN
      BY <1>5, Zenon DEF PrepareRetry, OverwriteAfterRetry, FlagsOK
    <3> QED BY <1>5, <3>1 DEF PrepareRetry, FlagsOK
  <2>3. ControlOK'
    BY <1>5 DEF PrepareRetry, RetireWorkers, ControlOK, Status
  <2>4. CountOK'
    BY <1>5 DEF PrepareRetry, RetireWorkers, CountOK
  <2>5. DiskOK'
    BY <1>5, FreshType DEF PrepareRetry, RetireWorkers, DiskOK
  <2>6. \A w \in workers' : Placed(w)
    BY <1>5 DEF PrepareRetry
  <2> QED BY <2>1, <2>2, <2>3, <2>4, <2>5, <2>6
<1>6. CASE HandleMetadataError
  <2>1. FlagsOK'
    BY <1>6 DEF HandleMetadataError, FlagsOK
  <2>2. CountOK' /\ DiskOK' /\ PoolOK'
    BY <1>6 DEF HandleMetadataError, CountOK, DiskOK, PoolOK
  <2>3. ControlOK'
    BY <1>6 DEF HandleMetadataError, Deliver, ControlOK, Status
  <2>4. EventsOK'
    BY <1>6 DEF HandleMetadataError, Deliver, EventsOK
  <2>5. \A w \in workers' : Placed(w)
    BY <1>6 DEF HandleMetadataError
  <2> QED BY <2>1, <2>2, <2>3, <2>4, <2>5
<1>7. CASE DropMetadata
  <2>1. FlagsOK'
    BY <1>7 DEF DropMetadata, FlagsOK
  <2>2. ControlOK' /\ CountOK' /\ DiskOK' /\ PoolOK'
    BY <1>7 DEF DropMetadata, ControlOK, CountOK, DiskOK, PoolOK
  <2>3. EventsOK'
    BY <1>7 DEF DropMetadata, Deliver, EventsOK
  <2>4. \A w \in workers' : Placed(w)
    BY <1>7 DEF DropMetadata
  <2> QED BY <2>1, <2>2, <2>3, <2>4
<1>8. CASE RefuseMetadata
  <2>1. CountOK' /\ DiskOK' /\ PoolOK'
    BY <1>8 DEF RefuseMetadata, CountOK, DiskOK, PoolOK
  <2>2. FlagsOK'
    BY <1>8 DEF RefuseMetadata, Deliver, FlagsOK
  <2>3. ControlOK'
    BY <1>8, ThreadAssumption DEF RefuseMetadata, Deliver, ControlOK, Status, ThreadsAfter
  <2>4. EventsOK'
    BY <1>8 DEF RefuseMetadata, Deliver, EventsOK
  <2>5. \A w \in workers' : Placed(w)
    BY <1>8 DEF RefuseMetadata
  <2> QED BY <2>1, <2>2, <2>3, <2>4, <2>5
<1>9. CASE OnChunkDownloaded
  <2>1. FlagsOK'
    BY <1>9 DEF OnChunkDownloaded, FlagsOK
  <2>2. ControlOK' /\ PoolOK'
    BY <1>9 DEF OnChunkDownloaded, ControlOK, PoolOK
  <2>3. CountOK'
    BY <1>9 DEF OnChunkDownloaded, Deliver, CountOK
  <2>4. DiskOK'
    BY <1>9 DEF OnChunkDownloaded, Deliver, DiskOK, Saved
  <2>5. EventsOK'
    BY <1>9 DEF OnChunkDownloaded, Deliver, EventsOK
  <2>6. \A w \in workers' : Placed(w)
    BY <1>9 DEF OnChunkDownloaded
  <2> QED BY <2>1, <2>2, <2>3, <2>4, <2>5, <2>6
<1>10. CASE OnVerified
  <2>1. CountOK'
    BY <1>10 DEF OnVerified, CountOK
  <2>2. FlagsOK'
    BY <1>10 DEF OnVerified, Verdict, Deliver, FlagsOK
  <2>3. ControlOK'
    BY <1>10 DEF OnVerified, Verdict, Deliver, ControlOK, Status
  <2>4. DiskOK'
    BY <1>10, FileType DEF OnVerified, Verdict, Deliver, DiskOK
  <2>5. PoolOK'
    BY <1>10 DEF OnVerified, Verdict, Deliver, PoolOK
  <2>6. EventsOK'
    BY <1>10 DEF OnVerified, Verdict, Deliver, EventsOK
  <2>7. \A w \in workers' : Placed(w)
    BY <1>10 DEF OnVerified
  <2> QED BY <2>1, <2>2, <2>3, <2>4, <2>5, <2>6, <2>7
<1>11. CASE OnUnverifiable
  <2>1. FlagsOK'
    BY <1>11 DEF OnUnverifiable, FlagsOK, Verdict, Deliver
  <2>2. CountOK' /\ DiskOK' /\ PoolOK'
    BY <1>11 DEF OnUnverifiable, CountOK, DiskOK, PoolOK
  <2>3. ControlOK'
    BY <1>11 DEF OnUnverifiable, Verdict, Deliver, ControlOK, Status
  <2>4. EventsOK'
    BY <1>11 DEF OnUnverifiable, Verdict, Deliver, EventsOK
  <2>5. \A w \in workers' : Placed(w)
    BY <1>11 DEF OnUnverifiable
  <2> QED BY <2>1, <2>2, <2>3, <2>4, <2>5
<1>12. CASE DropVerdict
  <2>1. FlagsOK'
    BY <1>12 DEF DropVerdict, FlagsOK
  <2>2. ControlOK' /\ CountOK' /\ DiskOK' /\ PoolOK'
    BY <1>12 DEF DropVerdict, ControlOK, CountOK, DiskOK, PoolOK
  <2>3. EventsOK'
    BY <1>12 DEF DropVerdict, Deliver, EventsOK
  <2>4. \A w \in workers' : Placed(w)
    BY <1>12 DEF DropVerdict
  <2> QED BY <2>1, <2>2, <2>3, <2>4
<1>13. CASE ProbeAnswer
  <2>1. FlagsOK'
    BY <1>13 DEF ProbeAnswer, FlagsOK
  <2>2. ControlOK' /\ CountOK' /\ DiskOK'
    BY <1>13 DEF ProbeAnswer, ControlOK, CountOK, DiskOK
  <2>3. PoolOK'
    BY <1>13 DEF ProbeAnswer, PoolOK, Post
  <2>4. EventsOK'
    <3> PICK r \in probes, reply \in Replies :
             Post([kind |-> "metadata", reply |-> reply, run |-> r])
      BY <1>13 DEF ProbeAnswer
    <3>1. [kind |-> "metadata", reply |-> reply, run |-> r] \in Event
      BY ReplyAssumption DEF Event, PoolOK
    <3> QED BY <3>1 DEF Post, EventsOK
  <2>5. \A w \in workers' : Placed(w)
    BY <1>13 DEF ProbeAnswer
  <2> QED BY <2>1, <2>2, <2>3, <2>4, <2>5
<1>14. CASE ChecksumDone
  <2>1. FlagsOK'
    BY <1>14 DEF ChecksumDone, FlagsOK
  <2>2. ControlOK' /\ CountOK' /\ DiskOK'
    BY <1>14 DEF ChecksumDone, ControlOK, CountOK, DiskOK
  <2>3. PoolOK'
    BY <1>14 DEF ChecksumDone, PoolOK
  <2>4. EventsOK'
    <3> PICK e \in verifiers :
             \/ Post([kind |-> "verified", valid |-> Whole(file), epoch |-> e])
             \/ Post([kind |-> "unverifiable", epoch |-> e])
      BY <1>14 DEF ChecksumDone
    <3>1. Whole(file) \in BOOLEAN
      BY DEF Whole
    <3>2. [kind |-> "verified", valid |-> Whole(file), epoch |-> e] \in Event
      BY <3>1 DEF Event, PoolOK
    <3>3. [kind |-> "unverifiable", epoch |-> e] \in Event
      BY DEF Event, PoolOK
    <3> QED BY <3>2, <3>3 DEF Post, EventsOK
  <2>5. \A w \in workers' : Placed(w)
    BY <1>14 DEF ChecksumDone
  <2> QED BY <2>1, <2>2, <2>3, <2>4, <2>5
<1>15. CASE Cleanup
  <2>1. FlagsOK'
    BY <1>15 DEF Cleanup, FlagsOK
  <2>2. ControlOK' /\ CountOK' /\ EventsOK'
    BY <1>15 DEF Cleanup, ControlOK, CountOK, EventsOK
  <2>3. DiskOK'
    BY <1>15 DEF Cleanup, DiskOK
  <2>4. PoolOK'
    BY <1>15 DEF Cleanup, PoolOK
  <2>5. \A w \in workers' : Placed(w)
    BY <1>15 DEF Cleanup
  <2> QED BY <2>1, <2>2, <2>3, <2>4, <2>5
<1>16. CASE Elsewhere
  <2>1. FlagsOK'
    BY <1>16 DEF Elsewhere, FlagsOK
  <2>2. ControlOK' /\ CountOK' /\ PoolOK' /\ EventsOK'
    BY <1>16 DEF Elsewhere, ControlOK, CountOK, PoolOK, EventsOK
  <2>3. DiskOK'
    BY <1>16, FreshType DEF Elsewhere, DiskOK
  <2>4. \A w \in workers' : Placed(w)
    BY <1>16 DEF Elsewhere
  <2> QED BY <2>1, <2>2, <2>3, <2>4
<1>17. CASE Resume
  <2>1. rangesSupported' \in BOOLEAN /\ UNCHANGED <<metadataInitialized, rangesSupported>>
    BY <1>17 DEF Resume, FlagsOK
  <2>2. numThreads' \in {1, NumThreads}
    BY <1>17 DEF Resume, ControlOK
  <2>3. SpawnWorkers(chunkProgress, downloadedSize, file, sidecar)
    BY <1>17 DEF Resume
  <2>4. /\ chunkProgress \in ChunkMap /\ downloadedSize \in Nat
        /\ file \in File /\ sidecar \in SUBSET ChunkMap
    BY DEF CountOK, DiskOK
  <2>5. UNCHANGED <<owned, allowOverwrite, probes, events, starts, granted>>
    BY <1>17 DEF Resume
  <2>6. events' \in Seq(Event) /\ metadataInitialized' = metadataInitialized
    BY <2>1, <2>5 DEF EventsOK
  <2>7. owned' = owned /\ UNCHANGED <<allowOverwrite, granted, starts, probes>>
    BY <2>5
  <2> QED BY <2>1, <2>2, <2>3, <2>4, <2>6, <2>7, SpawnType, KeepTypes
<1>18. CASE HandleMetadataFetched
  <2>1. /\ metadataInitialized' = TRUE /\ owned' = TRUE
        /\ rangesSupported' \in BOOLEAN
        /\ UNCHANGED <<allowOverwrite, probes, starts, granted>>
    BY <1>18 DEF HandleMetadataFetched
  <2>2. numThreads' \in {1, NumThreads}
    BY <1>18 DEF HandleMetadataFetched, ControlOK, ThreadsAfter
  <2>3. events' \in Seq(Event)
    BY <1>18 DEF HandleMetadataFetched, Deliver, EventsOK
  <2>4. ASSUME NEW cp \in ChunkMap, NEW f \in File, NEW sc \in SUBSET ChunkMap,
               Proceed(cp, f, sc)
        PROVE  TypeInv'
    <3>1. SumOf(cp) \in Nat
      BY SumType
    <3>2. CASE SpawnWorkers(cp, SumOf(cp), f, sc)
      BY <2>1, <2>2, <2>3, <3>1, <3>2, SpawnType, KeepTypes
    <3>3. CASE /\ FinishDownload(SumOf(cp), f, activeWorkers)
               /\ chunkProgress' = cp /\ downloadedSize' = SumOf(cp)
               /\ sidecar' \in SUBSET ChunkMap
               /\ UNCHANGED <<workers, spawns>>
      <4>1. activeWorkers \in Int /\ spawns \in Nat
        BY DEF CountOK
      <4>2. workers \in SUBSET Worker
        BY DEF PoolOK
      <4> QED BY <2>1, <2>2, <2>3, <3>1, <3>3, <4>1, <4>2, FinishType, KeepTypes
    <3> QED BY <2>4, <3>2, <3>3 DEF Proceed
  <2>5. \A cp \in sidecar : cp \in ChunkMap
    BY DEF DiskOK
  <2>6. file \in File /\ sidecar \in SUBSET ChunkMap
    BY DEF DiskOK
  <2>7. \/ \E cp \in sidecar : Proceed(cp, file, sidecar)
        \/ Proceed(NoProgress, FreshFile, {NoProgress})
    BY <1>18 DEF HandleMetadataFetched
  <2> QED BY <2>4, <2>5, <2>6, <2>7, FreshType
<1>19. CASE OnWorkerFinished
  <2>1. /\ UNCHANGED <<metadataInitialized, rangesSupported, numThreads, downloadedSize,
                       chunkProgress, owned, allowOverwrite, workers, probes, starts,
                       spawns, granted>>
        /\ events' \in Seq(Event)
    BY <1>19 DEF OnWorkerFinished, Deliver, EventsOK
  <2>2. \/ /\ FinishDownload(downloadedSize, file, activeWorkers - 1)
           /\ sidecar' = {chunkProgress}
        \/ /\ activeWorkers' = activeWorkers \/ activeWorkers' = activeWorkers - 1
           /\ UNCHANGED <<status, workerEpoch, restartRequired, file, sidecar, verifiers,
                          cleanups>>
    BY <1>19 DEF OnWorkerFinished
  <2>3. rangesSupported' \in BOOLEAN /\ metadataInitialized' \in BOOLEAN /\ owned' \in BOOLEAN
    BY <2>1 DEF FlagsOK
  <2>4. /\ downloadedSize \in Nat /\ activeWorkers \in Int /\ spawns \in Nat
        /\ workerEpoch \in Nat /\ numThreads \in {1, NumThreads} /\ status \in Status
    BY DEF CountOK, ControlOK
  <2>5. chunkProgress \in ChunkMap /\ sidecar \in SUBSET ChunkMap /\ file \in File
    BY DEF DiskOK
  <2>6. /\ workers \in SUBSET Worker /\ verifiers \in SUBSET Nat /\ cleanups \in Nat
    BY DEF PoolOK
  <2>7. restartRequired \in BOOLEAN
    BY DEF FlagsOK
  <2>8. CASE /\ FinishDownload(downloadedSize, file, activeWorkers - 1)
             /\ sidecar' = {chunkProgress}
    BY <2>1, <2>3, <2>4, <2>5, <2>6, <2>8, FinishType, KeepTypes
  <2>9. CASE /\ activeWorkers' = activeWorkers \/ activeWorkers' = activeWorkers - 1
             /\ UNCHANGED <<status, workerEpoch, restartRequired, file, sidecar, verifiers,
                            cleanups>>
    <3>1. activeWorkers' \in Int
      BY <2>4, <2>9
    <3> QED BY <2>1, <2>3, <2>4, <2>5, <2>6, <2>7, <2>9, <3>1, KeepTypes
  <2> QED BY <2>2, <2>8, <2>9
<1>20. CASE OnWorkerError
  <2>1. FlagsOK'
    BY <1>20, Zenon DEF OnWorkerError, FailWith, FlagsOK
  <2>2. DiskOK'
    BY <1>20 DEF OnWorkerError, DiskOK
  <2>3. EventsOK'
    BY <1>20 DEF OnWorkerError, Deliver, EventsOK
  <2>4. ControlOK'
    <3>1. numThreads' = numThreads /\ (status' = status \/ status' = "ERROR")
      BY <1>20 DEF OnWorkerError, FailWith
    <3> QED BY <3>1 DEF ControlOK, Status
  <2>5. CountOK'
    <3>1. /\ UNCHANGED <<downloadedSize, starts, spawns>>
          /\ activeWorkers' = activeWorkers \/ activeWorkers' = 0
          /\ workerEpoch' = workerEpoch \/ workerEpoch' = workerEpoch + 1
      BY <1>20 DEF OnWorkerError, FailWith, RetireWorkers
    <3> QED BY <3>1 DEF CountOK
  <2>6. PoolOK' /\ \A w \in workers' : Placed(w)
    <3>1. UNCHANGED <<workers, probes, verifiers, cleanups>>
      BY <1>20 DEF OnWorkerError, FailWith
    <3> QED BY <3>1 DEF PoolOK
  <2> QED BY <2>1, <2>2, <2>3, <2>4, <2>5, <2>6
<1>21. ASSUME NEW w \in workers,
             \/ WorkerBegin(w) \/ WorkerRestart(w) \/ WorkerCheck(w) \/ WorkerWrite(w)
             \/ WorkerStore(w) \/ WorkerShortRead(w) \/ WorkerFail(w)
      PROVE  TypeInv'
  <2>1. FlagsOK' /\ ControlOK' /\ CountOK'
    <3>1. WorkerFrame
      BY <1>21 DEF WorkerBegin, WorkerRestart, WorkerCheck, WorkerWrite, WorkerStore,
                  WorkerShortRead, WorkerFail
    <3>2. FlagsOK'
      BY <3>1 DEF WorkerFrame, FlagsOK
    <3>3. ControlOK' /\ CountOK'
      BY <3>1 DEF WorkerFrame, ControlOK, CountOK
    <3> QED BY <3>2, <3>3
  <2>2. DiskOK' /\ EventsOK' /\ PoolOK' /\ \A v \in workers' : Placed(v)
    BY <1>21, WorkerStepType
  <2> QED BY <2>1, <2>2
<1>22. CASE UNCHANGED vars
  BY <1>22 DEF vars, FlagsOK, ControlOK, CountOK, DiskOK, PoolOK, EventsOK
<1> QED BY <1>1, <1>2, <1>3, <1>4, <1>5, <1>6, <1>7, <1>8,
           <1>9, <1>10, <1>11, <1>12, <1>13, <1>14, <1>15, <1>16,
           <1>17, <1>18, <1>19, <1>20, <1>21, <1>22
        DEF Next, Command, Dispatch, WorkerStep

(* The initial states are well typed. *)
LEMMA TypeInit == Init => TypeInv
<1> SUFFICES ASSUME Init PROVE TypeInv
  OBVIOUS
<1>1. FlagsOK
  BY FlagAssumption DEF Init, FlagsOK, Added, Restored
<1>2. ControlOK
  BY DEF Init, ControlOK, Added, Restored, Status
<1>3. CountOK
  BY DEF Init, CountOK
<1>4. file \in File /\ sidecar \in SUBSET ChunkMap
  <2>1. CASE Added
    BY <2>1, FreshType DEF Added
  <2>2. CASE Restored
    <3>1. PICK cp \in Restorable : sidecar = {cp} /\ file = [FreshFile EXCEPT !.written = Done(cp)]
      BY <2>2 DEF Restored
    <3>2. cp \in ChunkMap /\ Done(cp) \subseteq Bytes
      BY <3>1, RestoredInRange
    <3>3. file \in File
      BY <3>1, <3>2, FreshType DEF File
    <3> QED BY <3>1, <3>2, <3>3
  <2> QED BY <2>1, <2>2 DEF Init
<1>5. DiskOK
  BY <1>4, FreshType DEF Init, DiskOK
<1>6. PoolOK /\ EventsOK /\ \A w \in workers : Placed(w)
  BY DEF Init, PoolOK, EventsOK
<1> QED BY <1>1, <1>2, <1>3, <1>5, <1>6 DEF TypeInv, TypeOK

(* TypeOK holds in every state of every instance. *)
THEOREM TypeCorrect == Spec => []TypeOK
<1>1. Init => TypeInv
  BY TypeInit
<1>2. TypeInv /\ [Next]_vars => TypeInv'
  BY TypeStep
<1>3. TypeInv => TypeOK
  BY DEF TypeInv
<1> QED BY <1>1, <1>2, <1>3, PTL DEF Spec

-----------------------------------------------------------------------------
(* Overwriting.  Whatever can lead to a write presupposes ownership of the  *)
(* destination or the permission given with the download.                   *)

RightsInv == /\ allowOverwrite => granted \/ owned
             /\ sidecar # {} => owned
             /\ workers # {} => owned
             /\ status \in {"DOWNLOADING", "PAUSED"} => owned

(* Ownership is never given up, permission never taken back. *)
LEMMA OwnedStays == [Next]_vars => (owned => owned') /\ granted' = granted
<1> SUFFICES ASSUME [Next]_vars PROVE (owned => owned') /\ granted' = granted
  OBVIOUS
<1> USE DEF control, counters, policy, disk, pool, history
<1>1. CASE Start \/ Pause \/ Resume \/ ResumeRestored \/ Stop \/ PrepareRetry
  BY <1>1 DEF Start, Pause, Resume, ResumeRestored, Stop, PrepareRetry
<1>2. CASE HandleMetadataError \/ DropMetadata \/ RefuseMetadata \/ HandleMetadataFetched
  BY <1>2 DEF HandleMetadataError, DropMetadata, RefuseMetadata, HandleMetadataFetched
<1>3. CASE OnChunkDownloaded \/ OnWorkerFinished \/ OnWorkerError
  BY <1>3 DEF OnChunkDownloaded, OnWorkerFinished, OnWorkerError
<1>4. CASE OnVerified \/ OnUnverifiable \/ DropVerdict
  BY <1>4 DEF OnVerified, OnUnverifiable, DropVerdict
<1>5. CASE ProbeAnswer
  BY <1>5 DEF ProbeAnswer
<1>6. CASE ChecksumDone
  BY <1>6 DEF ChecksumDone
<1>7. CASE Cleanup \/ Elsewhere
  BY <1>7 DEF Cleanup, Elsewhere
<1>8. CASE WorkerStep
  BY <1>8 DEF WorkerStep, WorkerBegin, WorkerRestart, WorkerCheck, WorkerWrite, WorkerStore,
          WorkerShortRead, WorkerFail, WorkerFrame
<1>9. CASE UNCHANGED vars
  BY <1>9 DEF vars
<1> QED BY <1>1, <1>2, <1>3, <1>4, <1>5, <1>6, <1>7, <1>8, <1>9 DEF Next, Command, Dispatch

(* Every step keeps the rights. *)
LEMMA RightsStep == RightsInv /\ [Next]_vars => RightsInv'
<1> SUFFICES ASSUME RightsInv, [Next]_vars PROVE RightsInv'
  OBVIOUS
<1> USE DEF control, counters, policy, disk, pool, history, RightsInv
<1> USE OwnedStays
<1>1. CASE Start
  BY <1>1 DEF Start
<1>2. CASE Pause
  BY <1>2 DEF Pause
<1>3. CASE Resume
  BY <1>3 DEF Resume
<1>4. CASE ResumeRestored
  BY <1>4 DEF ResumeRestored
<1>5. CASE Stop
  BY <1>5 DEF Stop
<1>6. CASE PrepareRetry
  BY <1>6 DEF PrepareRetry, OverwriteAfterRetry
<1>7. CASE HandleMetadataError
  BY <1>7 DEF HandleMetadataError
<1>8. CASE RefuseMetadata
  BY <1>8 DEF RefuseMetadata
<1>9. CASE HandleMetadataFetched
  BY <1>9 DEF HandleMetadataFetched
<1>10. CASE OnChunkDownloaded
  BY <1>10 DEF OnChunkDownloaded, Saved
<1>11. CASE OnWorkerFinished
  <2>1. CASE owned
    <3>1. owned' /\ UNCHANGED <<allowOverwrite, granted>>
      BY <1>11, <2>1 DEF OnWorkerFinished
    <3> QED BY <3>1
  <2>2. CASE ~owned
    BY <1>11, <2>2 DEF OnWorkerFinished
  <2> QED BY <2>1, <2>2
<1>12. CASE OnWorkerError
  BY <1>12 DEF OnWorkerError, FailWith
<1>13. CASE OnVerified
  BY <1>13 DEF OnVerified
<1>14. CASE OnUnverifiable
  BY <1>14 DEF OnUnverifiable
<1>15. CASE DropMetadata \/ DropVerdict
  BY <1>15 DEF DropMetadata, DropVerdict
<1>16. CASE ProbeAnswer
  BY <1>16 DEF ProbeAnswer
<1>17. CASE WorkerStep
  <2>1. owned /\ UNCHANGED <<status, allowOverwrite, granted, owned>>
    BY <1>17 DEF WorkerStep, WorkerBegin, WorkerRestart, WorkerCheck, WorkerWrite, WorkerStore,
            WorkerShortRead, WorkerFail, WorkerFrame
  <2> QED BY <2>1
<1>18. CASE ChecksumDone
  BY <1>18 DEF ChecksumDone
<1>19. CASE Cleanup
  BY <1>19 DEF Cleanup
<1>20. CASE Elsewhere
  BY <1>20 DEF Elsewhere
<1>21. CASE UNCHANGED vars
  BY <1>21 DEF vars
<1> QED BY <1>1, <1>2, <1>3, <1>4, <1>5, <1>6, <1>7, <1>8,
           <1>9, <1>10, <1>11, <1>12, <1>13, <1>14, <1>15, <1>16,
           <1>17, <1>18, <1>19, <1>20, <1>21
        DEF Next, Command, Dispatch

(* A step that turns somebody else's file into ours has the right to.       *)
LEMMA ForeignStep ==
  ASSUME TypeInv, RightsInv, [Next]_vars, file.kind = "foreign", file'.kind = "adp"
  PROVE  owned \/ granted
<1> USE DEF control, counters, policy, disk, pool, history, RightsInv
<1> SUFFICES ASSUME ~owned PROVE granted
  OBVIOUS
<1>1. file' # file
  OBVIOUS
<1>2. CASE Start \/ Pause \/ ResumeRestored \/ Stop \/ PrepareRetry
  BY <1>1, <1>2 DEF Start, Pause, ResumeRestored, Stop, PrepareRetry
<1>3. CASE Resume
  BY <1>3 DEF Resume
<1>4. CASE HandleMetadataError \/ DropMetadata \/ RefuseMetadata \/ DropVerdict
  BY <1>1, <1>4 DEF HandleMetadataError, DropMetadata, RefuseMetadata, DropVerdict
<1>5. CASE HandleMetadataFetched
  BY <1>5 DEF HandleMetadataFetched
<1>6. CASE OnChunkDownloaded \/ OnWorkerError \/ OnUnverifiable
  BY <1>1, <1>6 DEF OnChunkDownloaded, OnWorkerError, OnUnverifiable
<1>7. CASE OnWorkerFinished
  BY <1>1, <1>7 DEF OnWorkerFinished
<1>8. CASE OnVerified
  <2>1. file' = Wrong(file)
    BY <1>1, <1>8 DEF OnVerified
  <2>2. Wrong(file).kind = file.kind
    BY DEF TypeInv, TypeOK, DiskOK, File, Wrong
  <2> QED BY <2>1, <2>2
<1>9. CASE ProbeAnswer \/ ChecksumDone \/ Cleanup
  BY <1>1, <1>9 DEF ProbeAnswer, ChecksumDone, Cleanup
<1>10. CASE WorkerStep
  BY <1>10 DEF WorkerStep
<1>11. CASE Elsewhere
  BY <1>11 DEF Elsewhere, NoFile, Alien
<1>12. CASE UNCHANGED vars
  BY <1>1, <1>12 DEF vars
<1> QED BY <1>2, <1>3, <1>4, <1>5, <1>6, <1>7, <1>8, <1>9, <1>10, <1>11, <1>12
        DEF Next, Command, Dispatch

(* ForeignFileSafe, for every instance: a file that ADP did not make is     *)
(* replaced only with ownership of the path or the user's permission.       *)
THEOREM ForeignFileKept == Spec => ForeignFileSafe
<1>1. Init => TypeInv /\ RightsInv
  <2>1. Init => TypeInv
    BY TypeInit
  <2>2. Init => RightsInv
    BY DEF Init, Added, Restored, RightsInv
  <2> QED BY <2>1, <2>2
<1>2. TypeInv /\ RightsInv /\ [Next]_vars => TypeInv' /\ RightsInv'
  BY TypeStep, RightsStep
<1>3. TypeInv /\ RightsInv /\ [Next]_vars
        => [file.kind = "foreign" /\ file'.kind = "adp" => owned \/ granted]_vars
  BY ForeignStep
<1> QED BY <1>1, <1>2, <1>3, PTL DEF Spec, ForeignFileSafe

-----------------------------------------------------------------------------
(* The generations, the verdicts and the life cycle of a download.  The     *)
(* theorems below need one hypothesis, EarlyRetry = FALSE: the answer of a  *)
(* stopped run's probe is delivered before the download is retried.         *)
(* Without it they fail.                                                    *)

-----------------------------------------------------------------------------
(* The event queue, as the places at which signals of one kind stand.       *)

Fetched(q)     == { i \in DOMAIN q : q[i].kind = "metadata" }
ReportsIn(q, e)  == { i \in DOMAIN q : /\ q[i].kind \in {"finished", "failed"}
                                       /\ q[i].epoch = e }
VerdictsIn(q, e) == { i \in DOMAIN q : /\ q[i].kind \in {"verified", "unverifiable"}
                                       /\ q[i].epoch = e }

(* Delivery moves every other signal one place up. *)
LEMMA TailShifts ==
  ASSUME NEW q \in Seq(Event), q # <<>>
  PROVE  /\ 1 \in DOMAIN q /\ Head(q) = q[1] /\ DOMAIN q = 1 .. Len(q) /\ Len(q) \in Nat
         /\ \A i \in DOMAIN Tail(q) : i + 1 \in DOMAIN q /\ Tail(q)[i] = q[i + 1] /\ i \in Nat \ {0}
         /\ \A i \in DOMAIN q : i # 1 => i - 1 \in DOMAIN Tail(q) /\ Tail(q)[i - 1] = q[i]
<1>1. /\ Tail(q) \in Seq(Event) /\ Len(Tail(q)) = Len(q) - 1
      /\ \A i \in 1 .. Len(Tail(q)) : Tail(q)[i] = q[i + 1]
  BY HeadTailProperties
<1>2. DOMAIN q = 1 .. Len(q) /\ DOMAIN Tail(q) = 1 .. Len(Tail(q)) /\ Len(q) \in Nat /\ Len(q) # 0
  BY <1>1
<1> QED BY <1>1, <1>2

(* Posting leaves every other signal where it is. *)
LEMMA AppendAdds ==
  ASSUME NEW q \in Seq(Event), NEW e \in Event
  PROVE  /\ DOMAIN Append(q, e) = DOMAIN q \cup {Len(q) + 1}
         /\ Len(q) + 1 \notin DOMAIN q
         /\ Append(q, e)[Len(q) + 1] = e
         /\ \A i \in DOMAIN q : Append(q, e)[i] = q[i]
<1>1. /\ Append(q, e) \in Seq(Event) /\ Len(Append(q, e)) = Len(q) + 1
      /\ \A i \in 1 .. Len(q) : Append(q, e)[i] = q[i]
      /\ Append(q, e)[Len(q) + 1] = e
  BY AppendProperties
<1>2. DOMAIN q = 1 .. Len(q) /\ DOMAIN Append(q, e) = 1 .. Len(Append(q, e)) /\ Len(q) \in Nat
  BY <1>1
<1> QED BY <1>1, <1>2

LEMMA FetchedTail ==
  ASSUME NEW q \in Seq(Event), q # <<>>, \A i, j \in Fetched(q) : i = j
  PROVE  /\ Head(q).kind = "metadata" => Fetched(Tail(q)) = {}
         /\ Head(q).kind # "metadata" =>
              /\ Fetched(Tail(q)) = {} <=> Fetched(q) = {}
              /\ \A i, j \in Fetched(Tail(q)) : i = j
<1>1. \A i \in Fetched(Tail(q)) : i + 1 \in Fetched(q) /\ i \in Nat \ {0}
  BY TailShifts DEF Fetched
<1>2. Head(q).kind = "metadata" <=> 1 \in Fetched(q)
  BY TailShifts DEF Fetched
<1>3. \A i \in Fetched(q) : i # 1 => i - 1 \in Fetched(Tail(q))
  BY TailShifts DEF Fetched
<1>4. \A i \in Fetched(Tail(q)) : i + 1 # 1
  BY <1>1
<1>5. ASSUME NEW i \in Fetched(Tail(q)), NEW j \in Fetched(Tail(q)) PROVE i = j
  <2>1. i + 1 = j + 1 /\ i \in Nat /\ j \in Nat
    BY <1>1
  <2> QED BY <2>1
<1> QED BY <1>1, <1>2, <1>3, <1>4, <1>5

LEMMA FetchedAppend ==
  ASSUME NEW q \in Seq(Event), NEW e \in Event
  PROVE  Fetched(Append(q, e)) =
           Fetched(q) \cup (IF e.kind = "metadata" THEN {Len(q) + 1} ELSE {})
BY AppendAdds DEF Fetched

(* The places of the signals of a set K, before and after a delivery and a  *)
(* post.                                                                    *)
Places(q, K) == { i \in DOMAIN q : q[i] \in K }

LEMMA PlacesTail ==
  ASSUME NEW q \in Seq(Event), q # <<>>, NEW K
  PROVE  /\ IsFiniteSet(Places(q, K)) /\ IsFiniteSet(Places(Tail(q), K))
         /\ Cardinality(Places(Tail(q), K)) =
              IF Head(q) \in K
              THEN Cardinality(Places(q, K)) - 1 ELSE Cardinality(Places(q, K))
<1> DEFINE R == Places(q, K)
           T == Places(Tail(q), K)
           f == [i \in T |-> i + 1]
<1>1. IsFiniteSet(R)
  <2>1. R \in SUBSET (1 .. Len(q)) /\ Len(q) \in Nat
    BY TailShifts DEF Places
  <2>2. IsFiniteSet(1 .. Len(q))
    BY <2>1, FS_Interval
  <2> QED BY <2>1, <2>2, FS_Subset
<1>2. \A i \in T : i \in Nat \ {0} /\ i + 1 \in R /\ i + 1 # 1
  BY TailShifts DEF Places
<1>3. \A i \in R : i # 1 => i - 1 \in T /\ i \in Nat
  BY TailShifts DEF Places
<1>4. f \in Bijection(T, R \ {1})
  <2>1. f \in [T -> R \ {1}]
    BY <1>2
  <2>2. \A i, j \in T : f[i] = f[j] => i = j
    BY <1>2
  <2>3. \A k \in R \ {1} : \E i \in T : f[i] = k
    <3> TAKE k \in R \ {1}
    <3>1. k - 1 \in T /\ k \in Nat
      BY <1>3
    <3>2. f[k - 1] = k
      BY <3>1
    <3> QED BY <3>1, <3>2
  <2> HIDE DEF f
  <2> QED BY <2>1, <2>2, <2>3 DEF Bijection, Injection, Surjection, IsInjective
<1>5. IsFiniteSet(R \ {1}) /\ Cardinality(R \ {1}) =
        IF 1 \in R THEN Cardinality(R) - 1 ELSE Cardinality(R)
  BY <1>1, FS_RemoveElement
<1>6. IsFiniteSet(T) /\ Cardinality(T) = Cardinality(R \ {1})
  <2>1. T \in SUBSET T /\ IsFiniteSet(T)
    BY <1>2, <1>4, <1>5, FS_Injection DEF Bijection
  <2>2. ExistsBijection(T, R \ {1})
    BY <1>4 DEF ExistsBijection
  <2> QED BY <2>1, <2>2, FS_Bijection
<1>7. 1 \in R <=> Head(q) \in K
  BY TailShifts DEF Places
<1> QED BY <1>1, <1>5, <1>6, <1>7

LEMMA PlacesAppend ==
  ASSUME NEW q \in Seq(Event), NEW v \in Event, NEW K
  PROVE  /\ IsFiniteSet(Places(q, K)) /\ IsFiniteSet(Places(Append(q, v), K))
         /\ Cardinality(Places(Append(q, v), K)) =
              IF v \in K
              THEN Cardinality(Places(q, K)) + 1 ELSE Cardinality(Places(q, K))
<1> DEFINE R == Places(q, K)
           S == Places(Append(q, v), K)
           n == Len(q) + 1
<1>1. IsFiniteSet(R)
  <2>1. R \in SUBSET (1 .. Len(q)) /\ Len(q) \in Nat
    BY DEF Places
  <2>2. IsFiniteSet(1 .. Len(q))
    BY <2>1, FS_Interval
  <2> QED BY <2>1, <2>2, FS_Subset
<1>2. n \notin R
  BY AppendAdds DEF Places
<1>3. S = IF v \in K THEN R \cup {n} ELSE R
  BY AppendAdds DEF Places
<1>4. IsFiniteSet(R \cup {n}) /\ Cardinality(R \cup {n}) = Cardinality(R) + 1
  BY <1>1, <1>2, FS_AddElement
<1> HIDE DEF R, S, n
<1> QED BY <1>1, <1>3, <1>4 DEF R, S

(* ... of the reports of an epoch. *)
ReportsOf(e) == { v \in Event : v.kind \in {"finished", "failed"} /\ v.epoch = e }

LEMMA ReportsPlaces ==
  ASSUME NEW q \in Seq(Event), NEW e
  PROVE  ReportsIn(q, e) = Places(q, ReportsOf(e))
BY DEF ReportsIn, Places, ReportsOf

LEMMA ReportsTail ==
  ASSUME NEW q \in Seq(Event), q # <<>>, NEW e
  PROVE  /\ IsFiniteSet(ReportsIn(q, e)) /\ IsFiniteSet(ReportsIn(Tail(q), e))
         /\ Cardinality(ReportsIn(Tail(q), e)) =
              IF Head(q).kind \in {"finished", "failed"} /\ Head(q).epoch = e
              THEN Cardinality(ReportsIn(q, e)) - 1 ELSE Cardinality(ReportsIn(q, e))
<1>1. Tail(q) \in Seq(Event) /\ Head(q) \in Event
  BY HeadTailProperties
<1>2. Head(q) \in ReportsOf(e) <=> Head(q).kind \in {"finished", "failed"} /\ Head(q).epoch = e
  BY <1>1 DEF ReportsOf
<1>3. /\ ReportsIn(q, e) = Places(q, ReportsOf(e))
      /\ ReportsIn(Tail(q), e) = Places(Tail(q), ReportsOf(e))
  BY <1>1, ReportsPlaces
<1> QED BY <1>2, <1>3, PlacesTail

LEMMA ReportsAppend ==
  ASSUME NEW q \in Seq(Event), NEW v \in Event, NEW e
  PROVE  /\ IsFiniteSet(ReportsIn(q, e)) /\ IsFiniteSet(ReportsIn(Append(q, v), e))
         /\ Cardinality(ReportsIn(Append(q, v), e)) =
              IF v.kind \in {"finished", "failed"} /\ v.epoch = e
              THEN Cardinality(ReportsIn(q, e)) + 1 ELSE Cardinality(ReportsIn(q, e))
<1>1. Append(q, v) \in Seq(Event)
  BY AppendProperties
<1>2. v \in ReportsOf(e) <=> v.kind \in {"finished", "failed"} /\ v.epoch = e
  BY DEF ReportsOf
<1>3. /\ ReportsIn(q, e) = Places(q, ReportsOf(e))
      /\ ReportsIn(Append(q, v), e) = Places(Append(q, v), ReportsOf(e))
  BY <1>1, ReportsPlaces
<1> QED BY <1>2, <1>3, PlacesAppend

-----------------------------------------------------------------------------
(* What a step amounts to, as far as generations are concerned.             *)

Apart(v, w) == v.end < w.start \/ w.end < v.start

Live == { w \in workers : ~Stale(w) }

(* The workers of one spawn: of the current epoch, each with its own bytes. *)
OneSpawn(new) == /\ new # {} /\ IsFiniteSet(new)
                 /\ \A w \in new : w.epoch = workerEpoch
                 /\ \A v, w \in new : v # w => Apart(v, w)

(* The chunks of a split do not overlap (_spawn_workers). *)
LEMMA ChunksApart ==
  ASSUME NEW n \in {1, NumThreads}, NEW i \in 0 .. n - 1, NEW j \in 0 .. n - 1, i < j
  PROVE  ChunkEnd(i, n) < ChunkStart(j, n)
<1> USE SizeAssumption, ThreadAssumption
<1> DEFINE q == TotalSize \div n
<1>1. q \in Nat /\ n \in Nat \ {0}
  OBVIOUS
<1>2. ChunkEnd(i, n) = i * q + q - 1
  BY <1>1 DEF ChunkEnd, ChunkStart
<1>3. (i + 1) * q <= j * q
  BY <1>1, TimesMonotonic, i + 1 \in Nat, j \in Nat, i + 1 <= j
<1>4. (i + 1) * q = i * q + q /\ i * q \in Int /\ j * q \in Int
  BY <1>1
<1> HIDE DEF q
<1>5. ChunkStart(j, n) = j * q
  BY DEF ChunkStart, q
<1> QED BY <1>1, <1>2, <1>3, <1>4, <1>5

(* finish_download fails and starts a new epoch, or concludes in this one.  *)
Failed(f) == /\ status' = "ERROR" /\ workerEpoch' = workerEpoch + 1
             /\ UNCHANGED verifiers
             /\ \/ file' = f
                \/ file' = Wrong(f) /\ restartRequired' = TRUE

Concluded(f) == /\ \/ status' = "VERIFYING" /\ verifiers' = verifiers \cup {workerEpoch}
                   \/ status' = "COMPLETED" /\ ~HasChecksum /\ UNCHANGED verifiers
                /\ file' = f
                /\ UNCHANGED workerEpoch

LEMMA FinishOutcome ==
  ASSUME NEW d, NEW f, NEW a, FinishDownload(d, f, a)
  PROVE  Failed(f) \/ Concluded(f)
<1>1. CASE FailWith(TRUE) /\ file' = Wrong(f)
  BY <1>1 DEF FailWith, RetireWorkers, Failed
<1>2. CASE FailWith(restartRequired) /\ file' = f
  BY <1>2 DEF FailWith, RetireWorkers, Failed
<1>3. CASE Conclude /\ file' = f /\ UNCHANGED workerEpoch
  BY <1>3 DEF Conclude, Concluded
<1> QED BY <1>1, <1>2, <1>3 DEF FinishDownload

(* _spawn_workers makes workers, or there is nothing left to download.      *)
Spawned == /\ status' = "DOWNLOADING"
           /\ \E new : /\ OneSpawn(new)
                       /\ workers' = workers \cup new
                       /\ activeWorkers' = Cardinality(new)
           /\ UNCHANGED <<workerEpoch, verifiers>>

LEMMA SpawnOutcome ==
  ASSUME TypeInv, rangesSupported' \in BOOLEAN, numThreads' \in {1, NumThreads},
         NEW cp0 \in ChunkMap, NEW d0 \in Nat, NEW f0 \in File, NEW sc \in SUBSET ChunkMap,
         SpawnWorkers(cp0, d0, f0, sc)
  PROVE  \E f \in {f0, FreshFile} :
           \/ Spawned /\ file' = f
           \/ (Failed(f) \/ Concluded(f)) /\ UNCHANGED workers
<1> DEFINE reset == ~rangesSupported' /\ d0 # 0
           cp == IF reset THEN NoProgress ELSE cp0
           d == IF reset THEN 0 ELSE d0
           f == IF reset THEN FreshFile ELSE f0
           n == numThreads'
           todo == Incomplete(cp, n)
           W(i) == WorkerFor(ChunkStart(i, n), ChunkEnd(i, n))
           new == { W(i) : i \in todo }
<1>1. cp \in ChunkMap /\ f \in {f0, FreshFile}
  BY FreshType
<1>2. CASE todo # {} /\ StartWorkers(new, cp, d) /\ file' = f
  <2>1. todo \subseteq 0 .. n - 1 /\ IsFiniteSet(todo)
    <3>1. IsFiniteSet(0 .. n - 1)
      BY FS_Interval, ThreadAssumption
    <3> QED BY <3>1, FS_Subset DEF Incomplete
  <2>2. IsFiniteSet(new)
    <3> DEFINE g == [i \in todo |-> W(i)]
    <3>1. g \in Surjection(todo, new)
      BY DEF Surjection
    <3> QED BY <2>1, <3>1, FS_Surjection
  <2>3. \A w \in new : w.epoch = workerEpoch
    BY DEF WorkerFor
  <2>4. \A v, w \in new : v # w => Apart(v, w)
    <3> TAKE v, w \in new
    <3>1. PICK i \in todo, j \in todo : v = W(i) /\ w = W(j)
      OBVIOUS
    <3>2. i \in 0 .. n - 1 /\ j \in 0 .. n - 1 /\ i \in Int /\ j \in Int
      BY <2>1, ThreadAssumption
    <3>3. i # j => i < j \/ j < i
      BY <3>2
    <3>4. /\ v.start = ChunkStart(i, n) /\ v.end = ChunkEnd(i, n)
          /\ w.start = ChunkStart(j, n) /\ w.end = ChunkEnd(j, n)
      BY <3>1 DEF WorkerFor
    <3>5. v # w => i # j
      BY <3>1
    <3> QED BY <3>2, <3>3, <3>4, <3>5, ChunksApart DEF Apart
  <2>5. new # {}
    BY <1>2
  <2>6. /\ status' = "DOWNLOADING" /\ workers' = workers \cup new
        /\ activeWorkers' = Cardinality(new) /\ UNCHANGED <<workerEpoch, verifiers>>
    BY <1>2 DEF StartWorkers
  <2> HIDE DEF new
  <2>7. OneSpawn(new)
    BY <2>2, <2>3, <2>4, <2>5 DEF OneSpawn
  <2> HIDE DEF f
  <2> QED BY <1>1, <1>2, <2>6, <2>7 DEF Spawned
<1>3. CASE StartWorkers({ WorkerFor(0, TotalSize - 1) }, NoProgress, 0) /\ file' = FreshFile
  <2> DEFINE one == { WorkerFor(0, TotalSize - 1) }
  <2>1. IsFiniteSet(one)
    BY FS_Singleton
  <2>2. \A w \in one : w.epoch = workerEpoch
    BY DEF WorkerFor
  <2>3. OneSpawn(one)
    BY <2>1, <2>2 DEF OneSpawn
  <2>4. /\ status' = "DOWNLOADING" /\ workers' = workers \cup one
        /\ activeWorkers' = Cardinality(one) /\ UNCHANGED <<workerEpoch, verifiers>>
    BY <1>3 DEF StartWorkers
  <2> HIDE DEF one
  <2> QED BY <1>3, <2>3, <2>4 DEF Spawned
<1>4. CASE FinishDownload(d, f, 0) /\ UNCHANGED workers
  <2>1. Failed(f) \/ Concluded(f)
    BY <1>4, FinishOutcome
  <2> HIDE DEF f
  <2> QED BY <1>1, <1>4, <2>1
<1> QED BY <1>2, <1>3, <1>4 DEF SpawnWorkers

(* A probe's answer that leads on makes workers, or ends the download. *)
LEMMA MetadataOutcome ==
  ASSUME TypeInv, HandleMetadataFetched
  PROVE  \E f \in {file, FreshFile} :
           /\ \/ Spawned /\ file' = f
              \/ (Failed(f) \/ Concluded(f)) /\ UNCHANGED workers
           /\ sidecar = {} => f = FreshFile
<1>1. rangesSupported' \in BOOLEAN /\ numThreads' \in {1, NumThreads}
  BY DEF HandleMetadataFetched, ThreadsAfter, TypeInv, TypeOK, ControlOK
<1>2. ASSUME NEW cp \in ChunkMap, NEW f \in File, NEW sc \in SUBSET ChunkMap, Proceed(cp, f, sc)
      PROVE  \E g \in {f, FreshFile} :
               \/ Spawned /\ file' = g
               \/ (Failed(g) \/ Concluded(g)) /\ UNCHANGED workers
  <2>1. CASE SpawnWorkers(cp, SumOf(cp), f, sc)
    BY <1>1, <2>1, SumType, SpawnOutcome
  <2>2. CASE FinishDownload(SumOf(cp), f, activeWorkers) /\ UNCHANGED workers
    BY <2>2, FinishOutcome
  <2> QED BY <1>2, <2>1, <2>2 DEF Proceed
<1>3. file \in File /\ sidecar \in SUBSET ChunkMap
  BY DEF TypeInv, TypeOK, DiskOK
<1>4. CASE \E cp \in sidecar : Proceed(cp, file, sidecar)
  BY <1>2, <1>3, <1>4
<1>5. CASE Proceed(NoProgress, FreshFile, {NoProgress})
  BY <1>2, <1>5, FreshType
<1> QED BY <1>4, <1>5 DEF HandleMetadataFetched

(* A worker goes on, with its bytes and its epoch; or it leaves, with a     *)
(* signal unless it is stale.                                               *)
GoesOn(w) == \E v \in Worker :
  /\ v.epoch = w.epoch /\ v.start = w.start /\ v.end = w.end
  /\ Becomes(w, v)
  /\ UNCHANGED events \/ Post([kind |-> "chunk"])

Leaves(w) == /\ workers' = workers \ {w}
             /\ \/ Stale(w) /\ UNCHANGED events
                \/ Post([kind |-> "finished", epoch |-> w.epoch])
                \/ Post([kind |-> "failed", epoch |-> w.epoch])

AStep(w) == \/ WorkerBegin(w) \/ WorkerRestart(w) \/ WorkerCheck(w) \/ WorkerWrite(w)
            \/ WorkerStore(w) \/ WorkerShortRead(w) \/ WorkerFail(w)

LEMMA WorkerOutcome ==
  ASSUME TypeInv, NEW w \in workers, AStep(w)
  PROVE  /\ GoesOn(w) \/ Leaves(w)
         /\ file' = file \/ file' = Written(file, w.pos)
         /\ WorkerFrame
<1>1. /\ file' = file \/ file' = Written(file, w.pos)
      /\ WorkerFrame
  BY DEF AStep, WorkerBegin, WorkerRestart, WorkerCheck, WorkerWrite, WorkerStore,
         WorkerShortRead, WorkerFail
<1>2. w \in Worker
  BY DEF TypeInv, TypeOK, PoolOK
<1>3. workers' \subseteq Worker
  BY WorkerStepType DEF TypeInv, TypeOK, PoolOK, AStep
<1>4. ASSUME NEW v, Becomes(w, v), v.epoch = w.epoch, v.start = w.start, v.end = w.end,
             UNCHANGED events \/ Post([kind |-> "chunk"])
      PROVE  GoesOn(w)
  <2>1. v \in Worker
    BY <1>3, <1>4 DEF Becomes
  <2> QED BY <1>4, <2>1 DEF GoesOn
<1>5. CASE WorkerBegin(w)
  <2> DEFINE pos == w.start + chunkProgress[w.start]
             next == IF ~w.ranged /\ pos # 0 THEN "restart" ELSE "reading"
             v == [w EXCEPT !.pos = pos, !.pc = next]
  <2>1. Becomes(w, v) /\ UNCHANGED events
    BY <1>5 DEF WorkerBegin
  <2>2. v.epoch = w.epoch /\ v.start = w.start /\ v.end = w.end
    BY <1>2 DEF Worker
  <2> QED BY <1>1, <1>4, <2>1, <2>2
<1>6. CASE WorkerRestart(w)
  <2> DEFINE v == [w EXCEPT !.pos = 0, !.pc = "reading"]
  <2>1. Becomes(w, v) /\ UNCHANGED events
    BY <1>6 DEF WorkerRestart
  <2>2. v.epoch = w.epoch /\ v.start = w.start /\ v.end = w.end
    BY <1>2 DEF Worker
  <2> QED BY <1>1, <1>4, <2>1, <2>2
<1>7. CASE WorkerCheck(w)
  <2> DEFINE v == [w EXCEPT !.pc = "writing"]
  <2>1. CASE Stale(w)
    BY <1>1, <1>7, <2>1 DEF WorkerCheck, Leaves
  <2>2. CASE ~Stale(w)
    <3>1. Becomes(w, v) /\ UNCHANGED events
      BY <1>7, <2>2 DEF WorkerCheck
    <3>2. v.epoch = w.epoch /\ v.start = w.start /\ v.end = w.end
      BY <1>2 DEF Worker
    <3> QED BY <1>1, <1>4, <3>1, <3>2
  <2> QED BY <2>1, <2>2
<1>8. CASE WorkerWrite(w)
  <2> DEFINE v == [w EXCEPT !.pc = "storing", !.seen = chunkProgress[w.start]]
  <2>1. Becomes(w, v) /\ Post([kind |-> "chunk"])
    BY <1>8 DEF WorkerWrite
  <2>2. v.epoch = w.epoch /\ v.start = w.start /\ v.end = w.end
    BY <1>2 DEF Worker
  <2> QED BY <1>1, <1>4, <2>1, <2>2
<1>9. CASE WorkerStore(w)
  <2> DEFINE v == [w EXCEPT !.pos = @ + 1, !.pc = "reading"]
  <2>1. CASE w.pos = w.end
    BY <1>1, <1>9, <2>1 DEF WorkerStore, Leaves
  <2>2. CASE w.pos # w.end
    <3>1. Becomes(w, v) /\ UNCHANGED events
      BY <1>9, <2>2 DEF WorkerStore
    <3>2. v.epoch = w.epoch /\ v.start = w.start /\ v.end = w.end
      BY <1>2 DEF Worker
    <3> QED BY <1>1, <1>4, <3>1, <3>2
  <2> QED BY <2>1, <2>2
<1>10. CASE WorkerShortRead(w)
  BY <1>1, <1>10 DEF WorkerShortRead, Leaves
<1>11. CASE WorkerFail(w)
  BY <1>1, <1>11 DEF WorkerFail, Leaves
<1> QED BY <1>5, <1>6, <1>7, <1>8, <1>9, <1>10, <1>11 DEF AStep

-----------------------------------------------------------------------------
(* The invariant.  Its parts lean on one another: that a report of the      *)
(* current epoch finds the manager DOWNLOADING needs the count, the count   *)
(* needs to know that an answered probe finds it STARTING, and that needs   *)
(* to know that no report ends a STARTING.                                  *)

Asked == probes # {} \/ Fetched(events) # {}

(* At most one probe, of the last start, is unanswered or undelivered; it   *)
(* was made by a start that may have been stopped, but not retried.         *)
ProbesInv == /\ probes \subseteq {starts}
             /\ probes # {} => Fetched(events) = {}
             /\ \A i, j \in Fetched(events) : i = j
             /\ Asked => status \in {"STARTING", "STOPPED"}
             /\ status = "STARTING" => Asked

(* No epoch lies ahead: a new one makes everything before it stale. *)
EpochsInv == /\ \A w \in workers : w.epoch <= workerEpoch
             /\ \A i \in DOMAIN events :
                  events[i].kind \in {"finished", "failed", "verified", "unverifiable"}
                    => events[i].epoch <= workerEpoch
             /\ \A e \in verifiers : e <= workerEpoch

GenerationInv ==
  /\ IsFiniteSet(Live)
  /\ Live # {} \/ Reports # {} => status = "DOWNLOADING"
  /\ \A v, w \in Live : v # w => Apart(v, w)
  /\ status = "DOWNLOADING" =>
       /\ activeWorkers = Cardinality(Live) + Cardinality(Reports)
       /\ activeWorkers > 0

EngineInv == ProbesInv /\ EpochsInv /\ GenerationInv

LEMMA PendingIsAsked == ProbePending <=> Asked
BY DEF ProbePending, Asked, Fetched

LEMMA ReportsAre == Reports = ReportsIn(events, workerEpoch)
BY DEF Reports, ReportsIn

Heard == events' = events \/ (events # <<>> /\ events' = Tail(events))

(* Delivery makes nothing new. *)
LEMMA HeardOnly ==
  ASSUME TypeInv, Heard
  PROVE  \A i \in DOMAIN events' : \E j \in DOMAIN events : events'[i] = events[j]
<1>1. CASE events' = events
  BY <1>1
<1>2. CASE events # <<>> /\ events' = Tail(events)
  <2>1. events \in Seq(Event)
    BY DEF TypeInv, TypeOK, EventsOK
  <2> QED BY <1>2, <2>1, TailShifts
<1> QED BY <1>1, <1>2 DEF Heard

(* When the answer of a probe is delivered, nothing else goes on. *)
LEMMA OnMetadata ==
  ASSUME TypeInv, EngineInv, Deliver("metadata")
  PROVE  /\ status \in {"STARTING", "STOPPED"}
         /\ probes = {} /\ Fetched(events') = {}
         /\ Live = {} /\ Reports = {}
<1>1. events \in Seq(Event) /\ events # <<>> /\ Head(events).kind = "metadata"
      /\ events' = Tail(events)
  BY DEF TypeInv, TypeOK, EventsOK, Deliver
<1>2. 1 \in Fetched(events)
  BY <1>1, TailShifts DEF Fetched
<1>3. Fetched(events') = {}
  BY <1>1, FetchedTail DEF EngineInv, ProbesInv
<1>4. status \in {"STARTING", "STOPPED"} /\ probes = {}
  BY <1>2 DEF EngineInv, ProbesInv, Asked
<1> QED BY <1>3, <1>4 DEF EngineInv, GenerationInv

(* A report of the current generation finds the manager DOWNLOADING. *)
LEMMA OnReport ==
  ASSUME TypeInv, EngineInv, Deliver("finished") \/ Deliver("failed"),
         FromThisGeneration(Head(events))
  PROVE  status = "DOWNLOADING" /\ ~Asked
<1>1. events \in Seq(Event) /\ events # <<>> /\ Head(events).kind \in {"finished", "failed"}
  BY DEF TypeInv, TypeOK, EventsOK, Deliver
<1>2. 1 \in ReportsIn(events, workerEpoch)
  BY <1>1, TailShifts DEF ReportsIn, FromThisGeneration
<1> QED BY <1>2, ReportsAre DEF EngineInv, GenerationInv, ProbesInv

-----------------------------------------------------------------------------
(* Probes.                                                                  *)

LEMMA ProbesKept ==
  ASSUME TypeInv, ProbesInv, UNCHANGED <<probes, starts>>,
         \/ UNCHANGED events
         \/ events # <<>> /\ Head(events).kind # "metadata" /\ events' = Tail(events)
         \/ \E e \in Event : e.kind # "metadata" /\ Post(e),
         \/ UNCHANGED status
         \/ status' # "STARTING" /\ (Asked => status' = "STOPPED")
  PROVE  ProbesInv'
<1>1. events \in Seq(Event)
  BY DEF TypeInv, TypeOK, EventsOK
<1>2. (Fetched(events') = {} <=> Fetched(events) = {}) /\ \A i, j \in Fetched(events') : i = j
  <2>1. CASE UNCHANGED events
    BY <2>1 DEF ProbesInv
  <2>2. CASE events # <<>> /\ Head(events).kind # "metadata" /\ events' = Tail(events)
    BY <1>1, <2>2, FetchedTail DEF ProbesInv
  <2>3. CASE \E e \in Event : e.kind # "metadata" /\ Post(e)
    <3>1. PICK e \in Event : e.kind # "metadata" /\ Post(e)
      BY <2>3
    <3>2. Fetched(events') = Fetched(events)
      BY <1>1, <3>1, FetchedAppend DEF Post
    <3> QED BY <3>2 DEF ProbesInv
  <2> QED BY <2>1, <2>2, <2>3
<1>3. Asked' <=> Asked
  BY <1>2 DEF Asked
<1> QED BY <1>2, <1>3 DEF ProbesInv

LEMMA ProbesStep ==
  ASSUME EarlyRetry = FALSE, TypeInv, EngineInv, [Next]_vars
  PROVE  ProbesInv'
<1> USE DEF control, counters, policy, disk, pool, history
<1>1. CASE Start
  <2>1. ~Asked /\ events' = events /\ probes' = probes \cup {starts + 1} /\ starts' = starts + 1
        /\ status' = "STARTING"
    BY <1>1 DEF Start, EngineInv, ProbesInv
  <2> QED BY <2>1 DEF Asked, ProbesInv, EngineInv
<1>2. CASE Pause \/ ResumeRestored
  BY <1>2, ProbesKept DEF Pause, ResumeRestored, EngineInv, ProbesInv
<1>3. CASE Stop
  BY <1>3, ProbesKept DEF Stop, EngineInv
<1>4. CASE PrepareRetry
  BY <1>4, PendingIsAsked, ProbesKept DEF PrepareRetry, EngineInv
<1>5. CASE Resume
  <2>1. /\ status = "PAUSED" /\ UNCHANGED <<probes, starts, events>>
        /\ rangesSupported' \in BOOLEAN /\ numThreads' \in {1, NumThreads}
        /\ SpawnWorkers(chunkProgress, downloadedSize, file, sidecar)
    BY <1>5 DEF Resume, TypeInv, TypeOK, FlagsOK, ControlOK
  <2>2. status' # "STARTING"
    BY <2>1, SpawnOutcome DEF TypeInv, TypeOK, CountOK, DiskOK, Spawned, Failed, Concluded
  <2> QED BY <2>1, <2>2, ProbesKept DEF EngineInv, ProbesInv
<1>6. CASE HandleMetadataError \/ DropMetadata \/ RefuseMetadata
  <2>1. Deliver("metadata") /\ UNCHANGED <<probes, starts>>
    BY <1>6 DEF HandleMetadataError, DropMetadata, RefuseMetadata
  <2>2. status \in {"STARTING", "STOPPED"} /\ probes = {} /\ Fetched(events') = {}
    BY <2>1, OnMetadata
  <2>3. status' # "STARTING"
    BY <1>6, <2>2 DEF HandleMetadataError, DropMetadata, RefuseMetadata
  <2> QED BY <2>1, <2>2, <2>3 DEF ProbesInv, Asked
<1>7. CASE HandleMetadataFetched
  <2>1. Deliver("metadata") /\ UNCHANGED <<probes, starts>>
    BY <1>7 DEF HandleMetadataFetched
  <2>2. probes = {} /\ Fetched(events') = {}
    BY <2>1, OnMetadata
  <2>3. status' # "STARTING"
    BY <1>7, MetadataOutcome DEF Spawned, Failed, Concluded
  <2> QED BY <2>1, <2>2, <2>3 DEF ProbesInv, Asked
<1>8. CASE OnChunkDownloaded
  BY <1>8, ProbesKept DEF OnChunkDownloaded, Deliver, EngineInv
<1>9. CASE OnWorkerFinished
  <2>1. /\ Deliver("finished") /\ UNCHANGED <<probes, starts>>
        /\ events # <<>> /\ Head(events).kind # "metadata" /\ events' = Tail(events)
    BY <1>9 DEF OnWorkerFinished, Deliver
  <2>2. CASE UNCHANGED status
    BY <2>1, <2>2, ProbesKept DEF EngineInv
  <2>3. CASE status' # status
    <3>1. FromThisGeneration(Head(events))
          /\ FinishDownload(downloadedSize, file, activeWorkers - 1)
      BY <1>9, <2>3 DEF OnWorkerFinished
    <3>2. ~Asked /\ status' # "STARTING"
      BY <2>1, <3>1, OnReport, FinishOutcome DEF Failed, Concluded
    <3> QED BY <2>1, <3>2, ProbesKept DEF EngineInv
  <2> QED BY <2>2, <2>3
<1>10. CASE OnWorkerError
  <2>1. /\ Deliver("failed") /\ UNCHANGED <<probes, starts>>
        /\ events # <<>> /\ Head(events).kind # "metadata" /\ events' = Tail(events)
    BY <1>10 DEF OnWorkerError, Deliver
  <2>2. CASE UNCHANGED status
    BY <2>1, <2>2, ProbesKept DEF EngineInv
  <2>3. CASE status' # status
    <3>1. FromThisGeneration(Head(events)) /\ status' = "ERROR"
      BY <1>10, <2>3 DEF OnWorkerError, FailWith
    <3> QED BY <2>1, <3>1, OnReport, ProbesKept DEF EngineInv
  <2> QED BY <2>2, <2>3
<1>11. CASE OnVerified \/ OnUnverifiable
  <2>1. /\ status = "VERIFYING" /\ status' \in {"COMPLETED", "ERROR"}
        /\ UNCHANGED <<probes, starts>>
        /\ events # <<>> /\ Head(events).kind # "metadata" /\ events' = Tail(events)
    BY <1>11 DEF OnVerified, OnUnverifiable, Verdict, Deliver
  <2> QED BY <2>1, ProbesKept DEF EngineInv, ProbesInv
<1>12. CASE DropVerdict
  BY <1>12, ProbesKept DEF DropVerdict, Deliver, EngineInv
<1>13. CASE ProbeAnswer
  <2>1. PICK r \in probes, reply \in Replies :
          /\ probes' = probes \ {r}
          /\ Post([kind |-> "metadata", reply |-> reply, run |-> r])
          /\ UNCHANGED <<status, starts>>
    BY <1>13 DEF ProbeAnswer
  <2> DEFINE e == [kind |-> "metadata", reply |-> reply, run |-> r]
  <2>2. e \in Event /\ events \in Seq(Event)
    BY ReplyAssumption DEF Event, TypeInv, TypeOK, PoolOK, EventsOK
  <2>3. Fetched(events') = {Len(events) + 1}
    BY <2>1, <2>2, FetchedAppend DEF Post, EngineInv, ProbesInv
  <2>4. probes' = {} /\ status \in {"STARTING", "STOPPED"}
    BY <2>1 DEF EngineInv, ProbesInv, Asked
  <2> QED BY <2>1, <2>3, <2>4 DEF ProbesInv, Asked
<1>14. CASE ChecksumDone
  <2>1. PICK e \in verifiers :
          \/ Post([kind |-> "verified", valid |-> Whole(file), epoch |-> e])
          \/ Post([kind |-> "unverifiable", epoch |-> e])
    BY <1>14 DEF ChecksumDone
  <2>2. e \in Nat /\ Whole(file) \in BOOLEAN
    BY DEF TypeInv, TypeOK, PoolOK, Whole
  <2>3. \E v \in Event : v.kind # "metadata" /\ Post(v)
    BY <2>1, <2>2 DEF Event
  <2> QED BY <1>14, <2>3, ProbesKept DEF ChecksumDone, EngineInv
<1>15. CASE Cleanup \/ Elsewhere
  BY <1>15, ProbesKept DEF Cleanup, Elsewhere, EngineInv
<1>16. CASE WorkerStep
  <2>1. PICK w \in workers : AStep(w)
    BY <1>16 DEF WorkerStep, AStep
  <2>2. UNCHANGED <<probes, starts, status>>
    BY <2>1, WorkerOutcome DEF WorkerFrame
  <2>3. w.epoch \in Nat
    BY DEF TypeInv, TypeOK, PoolOK, Worker
  <2>4. UNCHANGED events \/ \E v \in Event : v.kind # "metadata" /\ Post(v)
    BY <2>1, <2>3, WorkerOutcome DEF GoesOn, Leaves, Event
  <2> QED BY <2>2, <2>4, ProbesKept DEF EngineInv
<1>17. CASE UNCHANGED vars
  BY <1>17, ProbesKept DEF vars, EngineInv
<1> QED BY <1>1, <1>2, <1>3, <1>4, <1>5, <1>6, <1>7, <1>8, <1>9, <1>10, <1>11, <1>12, <1>13,
           <1>14, <1>15, <1>16, <1>17
        DEF Next, Command, Dispatch

-----------------------------------------------------------------------------
(* Epochs.                                                                  *)

LEMMA EpochsKept ==
  ASSUME TypeInv, TypeInv', EpochsInv,
         workerEpoch' = workerEpoch \/ workerEpoch' = workerEpoch + 1,
         \A w \in workers' : w \in workers \/ w.epoch <= workerEpoch,
         \A e \in verifiers' : e \in verifiers \/ e = workerEpoch,
         \/ Heard
         \/ \E e \in Event : /\ Post(e)
                             /\ e.kind \in {"finished", "failed", "verified", "unverifiable"}
                                  => e.epoch <= workerEpoch
  PROVE  EpochsInv'
<1>1. workerEpoch \in Nat /\ workerEpoch <= workerEpoch' /\ workerEpoch' \in Nat
  BY DEF TypeInv, TypeOK, CountOK
<1>2. \A w \in workers' : w.epoch <= workerEpoch'
  <2> TAKE w \in workers'
  <2>1. w.epoch <= workerEpoch
    BY DEF EpochsInv
  <2>2. w.epoch \in Nat
    BY DEF TypeInv, TypeOK, PoolOK, Worker
  <2> QED BY <1>1, <2>1, <2>2
<1>3. \A e \in verifiers' : e <= workerEpoch'
  <2> TAKE e \in verifiers'
  <2>1. e <= workerEpoch
    BY <1>1 DEF EpochsInv
  <2>2. e \in Nat
    BY DEF TypeInv, TypeOK, PoolOK
  <2> QED BY <1>1, <2>1, <2>2
<1>4. ASSUME NEW i \in DOMAIN events',
             events'[i].kind \in {"finished", "failed", "verified", "unverifiable"}
      PROVE  events'[i].epoch <= workerEpoch'
  <2>1. events'[i] \in Event /\ events \in Seq(Event)
    BY DEF TypeInv, TypeOK, EventsOK
  <2>2. events'[i].epoch \in Nat
    BY <1>4, <2>1 DEF Event
  <2>3. events'[i].epoch <= workerEpoch
    <3>1. CASE Heard
      BY <1>4, <3>1, HeardOnly DEF EpochsInv
    <3>2. CASE \E e \in Event : /\ Post(e)
                                /\ e.kind \in {"finished", "failed", "verified", "unverifiable"}
                                     => e.epoch <= workerEpoch
      BY <1>4, <2>1, <3>2, AppendAdds DEF EpochsInv, Post
    <3> QED BY <3>1, <3>2
  <2> QED BY <1>1, <2>2, <2>3
<1> QED BY <1>2, <1>3, <1>4 DEF EpochsInv

LEMMA EpochsStep ==
  ASSUME TypeInv, TypeInv', EngineInv, [Next]_vars
  PROVE  EpochsInv'
<1> USE DEF control, counters, policy, disk, pool, history
<1>1. workerEpoch \in Nat /\ workerEpoch <= workerEpoch
  BY DEF TypeInv, TypeOK, CountOK
<1>2. CASE Start \/ Pause \/ Stop \/ PrepareRetry \/ ResumeRestored \/ Cleanup \/ Elsewhere
  <2>1. /\ workerEpoch' = workerEpoch \/ workerEpoch' = workerEpoch + 1
        /\ workers' = workers /\ verifiers' = verifiers /\ events' = events
    BY <1>2 DEF Start, Pause, Stop, PrepareRetry, ResumeRestored, Cleanup, Elsewhere,
                RetireWorkers
  <2> QED BY <2>1, EpochsKept DEF Heard, EngineInv
<1>3. ASSUME Heard,
             \/ Spawned
             \/ \E f : (Failed(f) \/ Concluded(f)) /\ UNCHANGED workers
      PROVE  EpochsInv'
  <2>1. CASE Spawned
    <3>1. PICK new : OneSpawn(new) /\ workers' = workers \cup new
      BY <2>1 DEF Spawned
    <3>2. \A w \in workers' : w \in workers \/ w.epoch <= workerEpoch
      BY <1>1, <3>1 DEF OneSpawn
    <3> QED BY <1>3, <2>1, <3>2, EpochsKept DEF Spawned, EngineInv
  <2>2. CASE \E f : (Failed(f) \/ Concluded(f)) /\ UNCHANGED workers
    <3>1. /\ workerEpoch' = workerEpoch \/ workerEpoch' = workerEpoch + 1
          /\ workers' = workers
          /\ verifiers' = verifiers \/ verifiers' = verifiers \cup {workerEpoch}
      BY <2>2 DEF Failed, Concluded
    <3> QED BY <1>3, <3>1, EpochsKept DEF EngineInv
  <2> QED BY <1>3, <2>1, <2>2
<1>4. CASE Resume
  <2>1. /\ events' = events /\ rangesSupported' \in BOOLEAN /\ numThreads' \in {1, NumThreads}
        /\ SpawnWorkers(chunkProgress, downloadedSize, file, sidecar)
    BY <1>4 DEF Resume, TypeInv, TypeOK, FlagsOK, ControlOK
  <2>2. \/ Spawned
        \/ \E f : (Failed(f) \/ Concluded(f)) /\ UNCHANGED workers
    BY <2>1, SpawnOutcome DEF TypeInv, TypeOK, CountOK, DiskOK
  <2> QED BY <1>3, <2>1, <2>2 DEF Heard
<1>5. CASE HandleMetadataFetched
  <2>1. Heard
    BY <1>5 DEF HandleMetadataFetched, Deliver, Heard
  <2>2. \/ Spawned
        \/ \E f : (Failed(f) \/ Concluded(f)) /\ UNCHANGED workers
    BY <1>5, MetadataOutcome
  <2> QED BY <1>3, <2>1, <2>2
<1>6. CASE HandleMetadataError \/ DropMetadata \/ RefuseMetadata \/ OnChunkDownloaded
           \/ OnVerified \/ OnUnverifiable \/ DropVerdict
  <2>1. Heard /\ UNCHANGED <<workerEpoch, workers, verifiers>>
    BY <1>6 DEF HandleMetadataError, DropMetadata, RefuseMetadata, OnChunkDownloaded,
                OnVerified, OnUnverifiable, DropVerdict, Verdict, Deliver, Heard
  <2> QED BY <2>1, EpochsKept DEF EngineInv
<1>7. CASE OnWorkerFinished
  <2>1. Heard /\ UNCHANGED workers
    BY <1>7 DEF OnWorkerFinished, Deliver, Heard
  <2>2. \/ FinishDownload(downloadedSize, file, activeWorkers - 1)
        \/ UNCHANGED <<workerEpoch, verifiers>>
    BY <1>7 DEF OnWorkerFinished
  <2> QED BY <1>3, <2>1, <2>2, FinishOutcome, EpochsKept DEF EngineInv
<1>8. CASE OnWorkerError
  <2>1. /\ Heard /\ UNCHANGED <<workers, verifiers>>
        /\ workerEpoch' = workerEpoch \/ workerEpoch' = workerEpoch + 1
    BY <1>8 DEF OnWorkerError, FailWith, RetireWorkers, Deliver, Heard
  <2> QED BY <2>1, EpochsKept DEF EngineInv
<1>9. CASE ProbeAnswer
  <2>1. PICK r \in probes, reply \in Replies :
          Post([kind |-> "metadata", reply |-> reply, run |-> r])
    BY <1>9 DEF ProbeAnswer
  <2>2. [kind |-> "metadata", reply |-> reply, run |-> r] \in Event
    BY ReplyAssumption DEF Event, TypeInv, TypeOK, PoolOK
  <2> QED BY <1>9, <2>1, <2>2, EpochsKept DEF ProbeAnswer, EngineInv
<1>10. CASE ChecksumDone
  <2>1. PICK e \in verifiers :
          /\ verifiers' = verifiers \ {e}
          /\ \/ Post([kind |-> "verified", valid |-> Whole(file), epoch |-> e])
             \/ Post([kind |-> "unverifiable", epoch |-> e])
    BY <1>10 DEF ChecksumDone
  <2>2. e \in Nat /\ Whole(file) \in BOOLEAN /\ e <= workerEpoch
    BY DEF TypeInv, TypeOK, PoolOK, Whole, EngineInv, EpochsInv
  <2>3. \E v \in Event : Post(v) /\ v.epoch <= workerEpoch
    BY <2>1, <2>2 DEF Event
  <2> QED BY <1>10, <2>1, <2>3, EpochsKept DEF ChecksumDone, EngineInv
<1>11. CASE WorkerStep
  <2>1. PICK w \in workers : AStep(w)
    BY <1>11 DEF WorkerStep, AStep
  <2>2. UNCHANGED <<workerEpoch, verifiers>>
    BY <2>1, WorkerOutcome DEF WorkerFrame
  <2>3. w.epoch \in Nat /\ w.epoch <= workerEpoch
    BY DEF TypeInv, TypeOK, PoolOK, Worker, EngineInv, EpochsInv
  <2>4. \/ UNCHANGED events
        \/ \E v \in Event : Post(v) /\ (v.kind = "chunk" \/ v.epoch <= workerEpoch)
    <3>1. [kind |-> "chunk"] \in Event
      BY DEF Event
    <3>2. ASSUME NEW k \in {"finished", "failed"}
          PROVE  [kind |-> k, epoch |-> w.epoch] \in Event
      BY <2>3 DEF Event
    <3>3. \/ UNCHANGED events \/ Post([kind |-> "chunk"])
          \/ \E k \in {"finished", "failed"} : Post([kind |-> k, epoch |-> w.epoch])
      BY <2>1, WorkerOutcome DEF GoesOn, Leaves
    <3> QED BY <2>3, <3>1, <3>2, <3>3
  <2>5. \A v \in workers' : v \in workers \/ v.epoch <= workerEpoch
    BY <2>1, <2>3, WorkerOutcome DEF GoesOn, Leaves, Becomes
  <2> QED BY <2>2, <2>4, <2>5, EpochsKept DEF Heard, EngineInv
<1>12. CASE UNCHANGED vars
  BY <1>12, EpochsKept DEF vars, Heard, EngineInv
<1> QED BY <1>2, <1>4, <1>5, <1>6, <1>7, <1>8, <1>9, <1>10, <1>11, <1>12
        DEF Next, Command, Dispatch

-----------------------------------------------------------------------------
(* Generations.                                                             *)

LEMMA ReportsFinite ==
  ASSUME TypeInv
  PROVE  IsFiniteSet(Reports) /\ Cardinality(Reports) \in Nat
<1>1. events \in Seq(Event) /\ [kind |-> "chunk"] \in Event
  BY DEF TypeInv, TypeOK, EventsOK, Event
<1> QED BY <1>1, ReportsAppend, ReportsAre, FS_CardinalityType

LEMMA LiveNumber ==
  ASSUME GenerationInv
  PROVE  Cardinality(Live) \in Nat /\ (Cardinality(Live) = 0 <=> Live = {})
BY FS_CardinalityType, FS_EmptySet DEF GenerationInv

LEMMA ReportsHeard ==
  ASSUME TypeInv, Heard, NEW e, ReportsIn(events, e) = {}
  PROVE  ReportsIn(events', e) = {}
BY HeardOnly DEF ReportsIn

(* A new epoch: everybody is stale. *)
LEMMA GenerationRetired ==
  ASSUME TypeInv, EngineInv, Heard, workerEpoch' = workerEpoch + 1, UNCHANGED workers,
         status' # "DOWNLOADING"
  PROVE  GenerationInv'
<1>1. workerEpoch \in Nat
  BY DEF TypeInv, TypeOK, CountOK
<1>2. ReportsIn(events, workerEpoch + 1) = {}
  BY <1>1 DEF ReportsIn, EngineInv, EpochsInv
<1>3. Reports' = {}
  BY <1>2, ReportsHeard DEF Reports, ReportsIn
<1>4. Live' = {}
  BY <1>1 DEF Live, Stale, EngineInv, EpochsInv
<1>5. IsFiniteSet(Live')
  BY <1>4, FS_EmptySet
<1> QED BY <1>3, <1>4, <1>5 DEF GenerationInv

(* Nobody works, and nobody starts to. *)
LEMMA GenerationIdle ==
  ASSUME TypeInv, Live = {}, Reports = {}, Heard, UNCHANGED <<workers, workerEpoch>>,
         status' # "DOWNLOADING"
  PROVE  GenerationInv'
<1>1. Reports' = {}
  BY ReportsHeard, ReportsAre DEF Reports, ReportsIn
<1>2. Live' = {}
  BY DEF Live, Stale
<1>3. IsFiniteSet(Live')
  BY <1>2, FS_EmptySet
<1> QED BY <1>1, <1>2, <1>3 DEF GenerationInv

(* A spawn where nobody works. *)
LEMMA GenerationBegins ==
  ASSUME TypeInv, Live = {}, Reports = {}, Heard, Spawned
  PROVE  GenerationInv'
<1>1. PICK new : /\ OneSpawn(new) /\ workers' = workers \cup new
                 /\ activeWorkers' = Cardinality(new)
  BY DEF Spawned
<1>2. workerEpoch' = workerEpoch /\ status' = "DOWNLOADING"
  BY DEF Spawned
<1>3. Reports' = {}
  BY <1>2, ReportsHeard, ReportsAre DEF Reports, ReportsIn
<1>4. Live' = new
  BY <1>1, <1>2 DEF Live, Stale, OneSpawn
<1>5. IsFiniteSet(new) /\ Cardinality(new) \in Nat /\ Cardinality(new) # 0
  BY <1>1, FS_CardinalityType, FS_EmptySet DEF OneSpawn
<1>6. Cardinality(Reports') = 0
  BY <1>3, FS_EmptySet
<1>7. \A v, w \in new : v # w => Apart(v, w)
  BY <1>1 DEF OneSpawn
<1>8. \A v, w \in Live' : v # w => Apart(v, w)'
  BY <1>4, <1>7 DEF Apart
<1> QED BY <1>1, <1>2, <1>3, <1>4, <1>5, <1>6, <1>8 DEF GenerationInv

(* Neither workers nor reports of this generation change in number. *)
LEMMA GenerationSame ==
  ASSUME EngineInv, UNCHANGED <<status, activeWorkers, workerEpoch, workers>>,
         Cardinality(Reports') = Cardinality(Reports), Reports' # {} => Reports # {}
  PROVE  GenerationInv'
<1>1. Live' = Live
  BY DEF Live, Stale
<1>2. \A v, w \in Live : Apart(v, w)' <=> Apart(v, w)
  BY DEF Apart
<1> QED BY <1>1, <1>2 DEF EngineInv, GenerationInv

(* A signal that is no report of this generation is delivered. *)
LEMMA GenerationHears ==
  ASSUME TypeInv, EngineInv, UNCHANGED <<status, activeWorkers, workerEpoch, workers>>,
         events # <<>>, events' = Tail(events),
         ~(Head(events).kind \in {"finished", "failed"} /\ Head(events).epoch = workerEpoch)
  PROVE  GenerationInv'
<1>1. events \in Seq(Event)
  BY DEF TypeInv, TypeOK, EventsOK
<1>2. Reports' = ReportsIn(Tail(events), workerEpoch)
  BY DEF Reports, ReportsIn
<1>3. Cardinality(Reports') = Cardinality(Reports)
  BY <1>1, <1>2, ReportsTail, ReportsAre
<1>4. Reports' # {} => Reports # {}
  BY ReportsHeard, ReportsAre, <1>2 DEF Heard
<1> QED BY <1>3, <1>4, GenerationSame

(* A signal that is no report of this generation is posted. *)
LEMMA OtherPosted ==
  ASSUME TypeInv, NEW v \in Event, Post(v), UNCHANGED workerEpoch,
         ~(v.kind \in {"finished", "failed"} /\ v.epoch = workerEpoch)
  PROVE  Cardinality(Reports') = Cardinality(Reports) /\ (Reports' # {} => Reports # {})
<1>1. events \in Seq(Event)
  BY DEF TypeInv, TypeOK, EventsOK
<1>2. Reports' = ReportsIn(Append(events, v), workerEpoch)
  BY DEF Reports, ReportsIn, Post
<1>3. Cardinality(Reports') = Cardinality(Reports)
  BY <1>1, <1>2, ReportsAppend, ReportsAre
<1>4. Reports' # {} => Reports # {}
  BY <1>1, <1>2, AppendAdds, ReportsAre DEF ReportsIn
<1> QED BY <1>3, <1>4

(* One worker's step. *)
LEMMA GenerationWorks ==
  ASSUME TypeInv, EngineInv, NEW w \in workers, AStep(w)
  PROVE  GenerationInv'
<1>1. UNCHANGED <<status, activeWorkers, workerEpoch>>
  BY WorkerOutcome DEF WorkerFrame, control
<1>2. /\ w.epoch \in Nat /\ w.start \in Int /\ w.end \in Int /\ w.start <= w.end
      /\ [kind |-> "chunk"] \in Event
      /\ \A k \in {"finished", "failed"} : [kind |-> k, epoch |-> w.epoch] \in Event
  BY DEF TypeInv, TypeOK, PoolOK, Worker, Placed, Event
<1>3. IsFiniteSet(Live) /\ Cardinality(Live) \in Nat /\ Cardinality(Reports) \in Nat
  BY LiveNumber, ReportsFinite DEF EngineInv, GenerationInv
<1>4. \A u, v \in Live : u # v => Apart(u, v)
  BY DEF EngineInv, GenerationInv
<1>5. ASSUME ~Stale(w) PROVE w \in Live /\ status = "DOWNLOADING"
  BY <1>5 DEF Live, EngineInv, GenerationInv
<1>6. CASE GoesOn(w)
  <2>1. PICK v \in Worker : /\ v.epoch = w.epoch /\ v.start = w.start /\ v.end = w.end
                            /\ Becomes(w, v)
                            /\ UNCHANGED events \/ Post([kind |-> "chunk"])
    BY <1>6 DEF GoesOn
  <2>2. Cardinality(Reports') = Cardinality(Reports) /\ (Reports' # {} => Reports # {})
    <3>1. CASE UNCHANGED events
      BY <1>1, <3>1, ReportsAre DEF Reports, ReportsIn
    <3>2. CASE Post([kind |-> "chunk"])
      BY <1>1, <1>2, <3>2, OtherPosted
    <3> QED BY <2>1, <3>1, <3>2
  <2>3. CASE Stale(w)
    <3>1. Live' = Live
      BY <1>1, <2>1, <2>3 DEF Live, Stale, Becomes
    <3>2. \A u, x \in Live' : u # x => Apart(u, x)'
      BY <1>4, <3>1 DEF Apart
    <3> QED BY <1>1, <2>2, <3>1, <3>2 DEF EngineInv, GenerationInv
  <2>4. CASE ~Stale(w)
    <3>1. Live' = (Live \ {w}) \cup {v}
      BY <1>1, <2>1, <2>4 DEF Live, Stale, Becomes
    <3>2. v \notin Live \ {w}
      BY <1>2, <1>4, <1>5, <2>1, <2>4 DEF Apart
    <3>3. IsFiniteSet(Live') /\ Cardinality(Live') = Cardinality(Live)
      <4>1. IsFiniteSet(Live \ {w}) /\ Cardinality(Live \ {w}) = Cardinality(Live) - 1
        BY <1>3, <1>5, <2>4, FS_RemoveElement
      <4> QED BY <1>3, <3>1, <3>2, <4>1, FS_AddElement
    <3>4. \A u, x \in Live' : u # x => Apart(u, x)'
      BY <1>4, <1>5, <2>1, <2>4, <3>1 DEF Apart
    <3> QED BY <1>1, <1>5, <2>2, <2>4, <3>3, <3>4 DEF EngineInv, GenerationInv
  <2> QED BY <2>3, <2>4
<1>7. CASE Leaves(w)
  <2>1. Live' = Live \ {w}
    BY <1>1, <1>7 DEF Leaves, Live, Stale
  <2>2. IsFiniteSet(Live')
    BY <1>3, <2>1, FS_RemoveElement
  <2>3. \A u, x \in Live' : u # x => Apart(u, x)'
    BY <1>4, <2>1 DEF Apart
  <2>4. CASE Stale(w)
    <3>1. Live' = Live
      BY <2>1, <2>4 DEF Live
    <3>2. Cardinality(Reports') = Cardinality(Reports) /\ (Reports' # {} => Reports # {})
      <4>1. CASE UNCHANGED events
        BY <1>1, <4>1, ReportsAre DEF Reports, ReportsIn
      <4>2. ASSUME NEW k \in {"finished", "failed"}, Post([kind |-> k, epoch |-> w.epoch])
            PROVE  Cardinality(Reports') = Cardinality(Reports) /\ (Reports' # {} => Reports # {})
        BY <1>1, <1>2, <2>4, <4>2, OtherPosted DEF Stale
      <4> QED BY <1>7, <4>1, <4>2 DEF Leaves
    <3> QED BY <1>1, <2>2, <2>3, <3>1, <3>2 DEF EngineInv, GenerationInv
  <2>5. CASE ~Stale(w)
    <3>1. PICK k \in {"finished", "failed"} : Post([kind |-> k, epoch |-> w.epoch])
      BY <1>7, <2>5 DEF Leaves
    <3>2. Reports' = ReportsIn(Append(events, [kind |-> k, epoch |-> w.epoch]), workerEpoch)
      BY <1>1, <3>1 DEF Reports, ReportsIn, Post
    <3>3. Cardinality(Reports') = Cardinality(Reports) + 1
      <4>1. events \in Seq(Event)
        BY DEF TypeInv, TypeOK, EventsOK
      <4> QED BY <1>2, <2>5, <3>2, <4>1, ReportsAppend, ReportsAre DEF Stale
    <3>4. Cardinality(Live') = Cardinality(Live) - 1
      BY <1>3, <1>5, <2>1, <2>5, FS_RemoveElement
    <3> QED BY <1>1, <1>3, <1>5, <2>2, <2>3, <2>5, <3>3, <3>4 DEF EngineInv, GenerationInv
  <2> QED BY <2>4, <2>5
<1> QED BY <1>6, <1>7, WorkerOutcome

(* A worker's finished signal of this generation: the last one finishes.    *)
LEMMA GenerationReports ==
  ASSUME TypeInv, EngineInv, OnWorkerFinished, FromThisGeneration(Head(events))
  PROVE  GenerationInv'
<1>1. /\ events \in Seq(Event) /\ events # <<>> /\ events' = Tail(events)
      /\ Head(events).kind = "finished" /\ Deliver("finished")
  BY DEF TypeInv, TypeOK, EventsOK, OnWorkerFinished, Deliver
<1>2. UNCHANGED workers /\ Heard
  BY <1>1 DEF OnWorkerFinished, Heard
<1>3. status = "DOWNLOADING"
  BY <1>1, OnReport
<1>4. /\ activeWorkers = Cardinality(Live) + Cardinality(Reports)
      /\ Cardinality(Live) \in Nat /\ Cardinality(Reports) \in Nat
  BY <1>3, LiveNumber, ReportsFinite DEF EngineInv, GenerationInv
<1>5. /\ IsFiniteSet(ReportsIn(Tail(events), workerEpoch))
      /\ Cardinality(ReportsIn(Tail(events), workerEpoch)) = Cardinality(Reports) - 1
  BY <1>1, ReportsTail, ReportsAre DEF FromThisGeneration
<1>6. /\ Cardinality(ReportsIn(Tail(events), workerEpoch)) \in Nat
      /\ Cardinality(ReportsIn(Tail(events), workerEpoch)) = 0
           => ReportsIn(Tail(events), workerEpoch) = {}
  BY <1>5, FS_CardinalityType, FS_EmptySet
<1>7. CASE activeWorkers - 1 <= 0
  <2>1. FinishDownload(downloadedSize, file, activeWorkers - 1)
    BY <1>3, <1>7 DEF OnWorkerFinished
  <2>2. Live = {} /\ ReportsIn(Tail(events), workerEpoch) = {}
    BY <1>4, <1>5, <1>6, <1>7, LiveNumber DEF EngineInv
  <2>3. CASE Failed(file)
    BY <1>2, <2>3, GenerationRetired DEF Failed
  <2>4. CASE Concluded(file)
    <3>1. Reports' = {}
      BY <1>1, <2>2, <2>4 DEF Concluded, Reports, ReportsIn
    <3>2. Live' = {}
      BY <1>2, <2>2, <2>4 DEF Concluded, Live, Stale
    <3>3. IsFiniteSet(Live') /\ status' # "DOWNLOADING"
      BY <3>2, <2>4, FS_EmptySet DEF Concluded
    <3> QED BY <3>1, <3>2, <3>3 DEF GenerationInv
  <2> QED BY <2>1, <2>3, <2>4, FinishOutcome
<1>8. CASE ~(activeWorkers - 1 <= 0)
  <2>1. activeWorkers' = activeWorkers - 1 /\ UNCHANGED <<status, workerEpoch>>
    BY <1>8 DEF OnWorkerFinished
  <2>2. Reports' = ReportsIn(Tail(events), workerEpoch)
    BY <1>1, <2>1 DEF Reports, ReportsIn
  <2>3. Live' = Live
    BY <1>2, <2>1 DEF Live, Stale
  <2>4. \A u, v \in Live' : u # v => Apart(u, v)'
    BY <2>3 DEF EngineInv, GenerationInv, Apart
  <2>5. activeWorkers \in Int
    BY DEF TypeInv, TypeOK, CountOK
  <2> QED BY <1>3, <1>4, <1>5, <1>8, <2>1, <2>2, <2>3, <2>4, <2>5 DEF EngineInv, GenerationInv
<1> QED BY <1>7, <1>8

LEMMA GenerationStep ==
  ASSUME EarlyRetry = FALSE, TypeInv, EngineInv, [Next]_vars
  PROVE  GenerationInv'
<1> USE DEF control, counters, policy, disk, pool, history
<1>1. ASSUME status # "DOWNLOADING" PROVE Live = {} /\ Reports = {}
  BY <1>1 DEF EngineInv, GenerationInv
<1>2. CASE Start \/ ResumeRestored
  <2>1. /\ status # "DOWNLOADING" /\ status' # "DOWNLOADING"
        /\ Heard /\ UNCHANGED <<workers, workerEpoch>>
    BY <1>2 DEF Start, ResumeRestored, Heard
  <2> QED BY <1>1, <2>1, GenerationIdle
<1>3. CASE Pause \/ Stop \/ PrepareRetry
  <2>1. /\ status' # "DOWNLOADING" /\ Heard /\ UNCHANGED workers
        /\ workerEpoch' = workerEpoch + 1
    BY <1>3 DEF Pause, Stop, PrepareRetry, RetireWorkers, Heard
  <2> QED BY <2>1, GenerationRetired
<1>4. ASSUME status # "DOWNLOADING", Heard,
             Spawned \/ \E f : (Failed(f) \/ Concluded(f)) /\ UNCHANGED workers
      PROVE  GenerationInv'
  <2>1. CASE Spawned
    BY <1>1, <1>4, <2>1, GenerationBegins
  <2>2. CASE \E f : Failed(f) /\ UNCHANGED workers
    BY <1>4, <2>2, GenerationRetired DEF Failed
  <2>3. CASE \E f : Concluded(f) /\ UNCHANGED workers
    <3>1. status' # "DOWNLOADING" /\ UNCHANGED <<workers, workerEpoch>>
      BY <2>3 DEF Concluded
    <3> QED BY <1>1, <1>4, <3>1, GenerationIdle
  <2> QED BY <1>4, <2>1, <2>2, <2>3
<1>5. CASE Resume
  <2>1. /\ events' = events /\ rangesSupported' \in BOOLEAN /\ numThreads' \in {1, NumThreads}
        /\ SpawnWorkers(chunkProgress, downloadedSize, file, sidecar)
        /\ status # "DOWNLOADING"
    BY <1>5 DEF Resume, TypeInv, TypeOK, FlagsOK, ControlOK
  <2>2. Spawned \/ \E f : (Failed(f) \/ Concluded(f)) /\ UNCHANGED workers
    BY <2>1, SpawnOutcome DEF TypeInv, TypeOK, CountOK, DiskOK
  <2> QED BY <1>4, <2>1, <2>2 DEF Heard
<1>6. CASE HandleMetadataFetched
  <2>1. Heard /\ Deliver("metadata")
    BY <1>6 DEF HandleMetadataFetched, Deliver, Heard
  <2>2. Spawned \/ \E f : (Failed(f) \/ Concluded(f)) /\ UNCHANGED workers
    BY <1>6, MetadataOutcome
  <2> QED BY <1>4, <2>1, <2>2, OnMetadata
<1>7. CASE HandleMetadataError \/ DropMetadata \/ RefuseMetadata
  <2>1. /\ Heard /\ Deliver("metadata") /\ UNCHANGED <<workers, workerEpoch>>
        /\ status' = status \/ status' = "ERROR"
    BY <1>7 DEF HandleMetadataError, DropMetadata, RefuseMetadata, Deliver, Heard
  <2>2. Live = {} /\ Reports = {} /\ status # "DOWNLOADING"
    BY <2>1, OnMetadata
  <2> QED BY <2>1, <2>2, GenerationIdle
<1>8. CASE OnChunkDownloaded \/ DropVerdict
  <2>1. /\ events # <<>> /\ events' = Tail(events)
        /\ Head(events).kind \in {"chunk", "verified", "unverifiable"}
        /\ UNCHANGED <<status, activeWorkers, workerEpoch, workers>>
    BY <1>8 DEF OnChunkDownloaded, DropVerdict, Deliver
  <2> QED BY <2>1, GenerationHears
<1>9. CASE OnVerified \/ OnUnverifiable
  <2>1. /\ status # "DOWNLOADING" /\ status' # "DOWNLOADING" /\ Heard
        /\ UNCHANGED <<workers, workerEpoch>>
    BY <1>9 DEF OnVerified, OnUnverifiable, Verdict, Deliver, Heard
  <2> QED BY <1>1, <2>1, GenerationIdle
<1>10. CASE OnWorkerFinished
  <2>1. CASE FromThisGeneration(Head(events))
    BY <1>10, <2>1, GenerationReports
  <2>2. CASE ~FromThisGeneration(Head(events))
    <3>1. /\ events # <<>> /\ events' = Tail(events)
          /\ UNCHANGED <<status, activeWorkers, workerEpoch, workers>>
      BY <1>10, <2>2 DEF OnWorkerFinished, Deliver
    <3> QED BY <2>2, <3>1, GenerationHears DEF FromThisGeneration
  <2> QED BY <2>1, <2>2
<1>11. CASE OnWorkerError
  <2>1. CASE FromThisGeneration(Head(events))
    <3>1. /\ Heard /\ UNCHANGED workers /\ status' # "DOWNLOADING"
          /\ workerEpoch' = workerEpoch + 1
      BY <1>11, <2>1 DEF OnWorkerError, FailWith, RetireWorkers, Deliver, Heard
    <3> QED BY <3>1, GenerationRetired
  <2>2. CASE ~FromThisGeneration(Head(events))
    <3>1. /\ events # <<>> /\ events' = Tail(events)
          /\ UNCHANGED <<status, activeWorkers, workerEpoch, workers>>
      BY <1>11, <2>2 DEF OnWorkerError, Deliver
    <3> QED BY <2>2, <3>1, GenerationHears DEF FromThisGeneration
  <2> QED BY <2>1, <2>2
<1>12. ASSUME NEW v \in Event, Post(v), v.kind \notin {"finished", "failed"},
              UNCHANGED <<status, activeWorkers, workerEpoch, workers>>
       PROVE  GenerationInv'
  BY <1>12, OtherPosted, GenerationSame
<1>13. CASE ProbeAnswer
  <2>1. PICK r \in probes, reply \in Replies :
          Post([kind |-> "metadata", reply |-> reply, run |-> r])
    BY <1>13 DEF ProbeAnswer
  <2>2. [kind |-> "metadata", reply |-> reply, run |-> r] \in Event
    BY ReplyAssumption DEF Event, TypeInv, TypeOK, PoolOK
  <2>3. UNCHANGED <<status, activeWorkers, workerEpoch, workers>>
    BY <1>13 DEF ProbeAnswer
  <2> QED BY <1>12, <2>1, <2>2, <2>3
<1>14. CASE ChecksumDone
  <2>1. PICK e \in verifiers :
          \/ Post([kind |-> "verified", valid |-> Whole(file), epoch |-> e])
          \/ Post([kind |-> "unverifiable", epoch |-> e])
    BY <1>14 DEF ChecksumDone
  <2>2. e \in Nat /\ Whole(file) \in BOOLEAN
    BY DEF TypeInv, TypeOK, PoolOK, Whole
  <2>3. \E v \in Event : Post(v) /\ v.kind \notin {"finished", "failed"}
    BY <2>1, <2>2 DEF Event
  <2>4. UNCHANGED <<status, activeWorkers, workerEpoch, workers>>
    BY <1>14 DEF ChecksumDone
  <2> QED BY <1>12, <2>3, <2>4
<1>15. ASSUME UNCHANGED <<status, activeWorkers, workerEpoch, workers, events>>
       PROVE  GenerationInv'
  <2>1. Reports' = Reports
    BY <1>15 DEF Reports
  <2> QED BY <1>15, <2>1, GenerationSame
<1>16. CASE Cleanup \/ Elsewhere \/ UNCHANGED vars
  BY <1>15, <1>16 DEF Cleanup, Elsewhere, vars
<1>17. CASE WorkerStep
  BY <1>17, GenerationWorks DEF WorkerStep, AStep
<1> QED BY <1>2, <1>3, <1>5, <1>6, <1>7, <1>8, <1>9, <1>10, <1>11, <1>13, <1>14, <1>16, <1>17
        DEF Next, Command, Dispatch

LEMMA EngineInit == Init => EngineInv
<1> SUFFICES ASSUME Init PROVE EngineInv
  OBVIOUS
<1>1. /\ status \in {"PENDING", "PAUSED"} /\ probes = {} /\ events = <<>> /\ workers = {}
      /\ verifiers = {}
  BY DEF Init, Added, Restored
<1>2. Fetched(events) = {} /\ Reports = {} /\ Live = {} /\ DOMAIN events = {}
  BY <1>1 DEF Fetched, Reports, Live
<1>3. IsFiniteSet(Live)
  BY <1>2, FS_EmptySet
<1> QED BY <1>1, <1>2, <1>3 DEF EngineInv, ProbesInv, EpochsInv, GenerationInv, Asked

LEMMA EngineStep ==
  ASSUME EarlyRetry = FALSE, TypeInv, EngineInv, [Next]_vars
  PROVE  TypeInv' /\ EngineInv'
<1>1. TypeInv'
  BY TypeStep
<1> QED BY <1>1, ProbesStep, EpochsStep, GenerationStep DEF EngineInv

(* WorkersApart, for every instance: workers of different generations never *)
(* meet in the counts, nor two of one generation in the file.               *)
THEOREM GenerationsApart ==
  ASSUME EarlyRetry = FALSE
  PROVE  Spec => []WorkersApart
<1>1. Init => TypeInv /\ EngineInv
  BY TypeInit, EngineInit
<1>2. TypeInv /\ EngineInv /\ [Next]_vars => TypeInv' /\ EngineInv'
  BY EngineStep
<1>3. TypeInv /\ EngineInv => WorkersApart
  <2> SUFFICES ASSUME EngineInv PROVE WorkersApart
    OBVIOUS
  <2>1. LiveOnlyWhileDownloading
    BY DEF LiveOnlyWhileDownloading, EngineInv, GenerationInv, Live, Stale
  <2>2. GenerationCounted
    BY DEF GenerationCounted, EngineInv, GenerationInv, Live
  <2>3. OneWriterPerByte
    BY DEF OneWriterPerByte, EngineInv, GenerationInv, Live, Apart
  <2> QED BY <2>1, <2>2, <2>3 DEF WorkersApart
<1> QED BY <1>1, <1>2, <1>3, PTL DEF Spec

-----------------------------------------------------------------------------
(* Verdicts: a download that verifies has its checksum worker, or the       *)
(* verdict of that worker is on its way, and nothing stale is mistaken for  *)
(* it.                                                                      *)

VerdictInv ==
  status = "VERIFYING" => workerEpoch \in verifiers \/ VerdictsIn(events, workerEpoch) # {}

(* A verdict stays in the queue until it is delivered. *)
LEMMA VerdictsStay ==
  ASSUME TypeInv, NEW e, VerdictsIn(events, e) # {},
         \/ UNCHANGED events
         \/ \E v \in Event : Post(v)
         \/ /\ events # <<>> /\ events' = Tail(events)
            /\ ~(Head(events).kind \in {"verified", "unverifiable"} /\ Head(events).epoch = e)
  PROVE  VerdictsIn(events', e) # {}
<1>1. events \in Seq(Event)
  BY DEF TypeInv, TypeOK, EventsOK
<1>2. PICK i \in DOMAIN events : events[i].kind \in {"verified", "unverifiable"}
                                 /\ events[i].epoch = e
  BY DEF VerdictsIn
<1>3. CASE UNCHANGED events
  BY <1>3
<1>4. CASE \E v \in Event : Post(v)
  <2>1. i \in DOMAIN events' /\ events'[i] = events[i]
    BY <1>1, <1>4, AppendAdds DEF Post
  <2> QED BY <1>2, <2>1 DEF VerdictsIn
<1>5. CASE /\ events # <<>> /\ events' = Tail(events)
           /\ ~(Head(events).kind \in {"verified", "unverifiable"} /\ Head(events).epoch = e)
  <2>1. i # 1
    BY <1>1, <1>2, <1>5, TailShifts
  <2>2. i - 1 \in DOMAIN events' /\ events'[i - 1] = events[i]
    BY <1>1, <1>5, <2>1, TailShifts
  <2> QED BY <1>2, <2>2 DEF VerdictsIn
<1> QED BY <1>3, <1>4, <1>5

LEMMA VerdictStep ==
  ASSUME TypeInv, EngineInv, VerdictInv, [Next]_vars
  PROVE  VerdictInv'
<1> USE DEF control, counters, policy, disk, pool, history
<1>1. ASSUME UNCHANGED <<status, workerEpoch, verifiers>>,
             \/ UNCHANGED events
             \/ \E v \in Event : Post(v)
             \/ /\ events # <<>> /\ events' = Tail(events)
                /\ ~(Head(events).kind \in {"verified", "unverifiable"}
                     /\ Head(events).epoch = workerEpoch)
      PROVE  VerdictInv'
  BY <1>1, VerdictsStay DEF VerdictInv
<1>2. ASSUME Spawned \/ \E f : Failed(f) \/ Concluded(f) PROVE VerdictInv'
  BY <1>2 DEF Spawned, Failed, Concluded, VerdictInv
<1>3. CASE Start \/ ResumeRestored \/ Pause \/ Stop \/ PrepareRetry
  <2>1. status' # "VERIFYING"
    BY <1>3 DEF Start, ResumeRestored, Pause, Stop, PrepareRetry
  <2> QED BY <2>1 DEF VerdictInv
<1>4. CASE Resume
  <2>1. /\ rangesSupported' \in BOOLEAN /\ numThreads' \in {1, NumThreads}
        /\ SpawnWorkers(chunkProgress, downloadedSize, file, sidecar)
    BY <1>4 DEF Resume, TypeInv, TypeOK, FlagsOK, ControlOK
  <2>2. Spawned \/ \E f : Failed(f) \/ Concluded(f)
    BY <2>1, SpawnOutcome DEF TypeInv, TypeOK, CountOK, DiskOK
  <2> QED BY <1>2, <2>2
<1>5. CASE HandleMetadataFetched
  BY <1>2, <1>5, MetadataOutcome
<1>6. CASE HandleMetadataError \/ DropMetadata \/ RefuseMetadata
  <2>1. Deliver("metadata") /\ (status' = status \/ status' = "ERROR")
    BY <1>6 DEF HandleMetadataError, DropMetadata, RefuseMetadata
  <2>2. status \in {"STARTING", "STOPPED"}
    BY <2>1, OnMetadata
  <2> QED BY <2>1, <2>2 DEF VerdictInv
<1>7. CASE OnChunkDownloaded
  BY <1>1, <1>7 DEF OnChunkDownloaded, Deliver
<1>8. CASE OnWorkerFinished
  <2>1. \/ FinishDownload(downloadedSize, file, activeWorkers - 1)
        \/ /\ UNCHANGED <<status, workerEpoch, verifiers>>
           /\ events # <<>> /\ events' = Tail(events) /\ Head(events).kind = "finished"
    BY <1>8 DEF OnWorkerFinished, Deliver
  <2> QED BY <1>1, <1>2, <2>1, FinishOutcome
<1>9. CASE OnWorkerError
  <2>1. \/ status' = "ERROR"
        \/ /\ UNCHANGED <<status, workerEpoch, verifiers>>
           /\ events # <<>> /\ events' = Tail(events) /\ Head(events).kind = "failed"
    BY <1>9 DEF OnWorkerError, FailWith, Deliver
  <2>2. CASE status' = "ERROR"
    BY <2>2 DEF VerdictInv
  <2> QED BY <1>1, <2>1, <2>2
<1>10. CASE OnVerified \/ OnUnverifiable
  <2>1. status' # "VERIFYING"
    BY <1>10 DEF OnVerified, OnUnverifiable
  <2> QED BY <2>1 DEF VerdictInv
<1>11. CASE DropVerdict
  <2>1. /\ UNCHANGED <<status, workerEpoch, verifiers>>
        /\ events # <<>> /\ events' = Tail(events)
        /\ status # "VERIFYING" \/ Head(events).epoch # workerEpoch
    BY <1>11 DEF DropVerdict, Deliver, StaleVerdict
  <2>2. CASE status # "VERIFYING"
    BY <2>1, <2>2 DEF VerdictInv
  <2>3. CASE Head(events).epoch # workerEpoch
    BY <1>1, <2>1, <2>3
  <2> QED BY <2>1, <2>2, <2>3
<1>12. CASE ProbeAnswer
  <2>1. PICK r \in probes, reply \in Replies :
          Post([kind |-> "metadata", reply |-> reply, run |-> r])
    BY <1>12 DEF ProbeAnswer
  <2>2. [kind |-> "metadata", reply |-> reply, run |-> r] \in Event
    BY ReplyAssumption DEF Event, TypeInv, TypeOK, PoolOK
  <2>3. UNCHANGED <<status, workerEpoch, verifiers>>
    BY <1>12 DEF ProbeAnswer
  <2> QED BY <1>1, <2>1, <2>2, <2>3
<1>13. CASE ChecksumDone
  <2>1. PICK e \in verifiers :
          /\ verifiers' = verifiers \ {e}
          /\ \/ Post([kind |-> "verified", valid |-> Whole(file), epoch |-> e])
             \/ Post([kind |-> "unverifiable", epoch |-> e])
          /\ UNCHANGED <<status, workerEpoch>>
    BY <1>13 DEF ChecksumDone
  <2>2. PICK v \in Event : /\ Post(v) /\ v.epoch = e
                           /\ v.kind \in {"verified", "unverifiable"}
    <3>1. e \in Nat /\ Whole(file) \in BOOLEAN
      BY DEF TypeInv, TypeOK, PoolOK, Whole
    <3> QED BY <2>1, <3>1 DEF Event
  <2>3. events \in Seq(Event)
    BY DEF TypeInv, TypeOK, EventsOK
  <2>4. CASE e = workerEpoch
    <3>1. Len(events) + 1 \in VerdictsIn(events', workerEpoch)
      BY <2>2, <2>3, <2>4, AppendAdds DEF VerdictsIn, Post
    <3> QED BY <2>1, <3>1 DEF VerdictInv
  <2>5. CASE e # workerEpoch
    BY <2>1, <2>2, <2>5, VerdictsStay DEF VerdictInv
  <2> QED BY <2>4, <2>5
<1>14. CASE Cleanup \/ Elsewhere \/ UNCHANGED vars
  BY <1>1, <1>14 DEF Cleanup, Elsewhere, vars
<1>15. CASE WorkerStep
  <2>1. PICK w \in workers : AStep(w)
    BY <1>15 DEF WorkerStep, AStep
  <2>2. UNCHANGED <<status, workerEpoch, verifiers>>
    BY <2>1, WorkerOutcome DEF WorkerFrame
  <2>3. UNCHANGED events \/ \E v \in Event : Post(v)
    <3>1. w.epoch \in Nat
      BY DEF TypeInv, TypeOK, PoolOK, Worker
    <3>2. [kind |-> "chunk"] \in Event
      BY DEF Event
    <3>3. ASSUME NEW k \in {"finished", "failed"}
          PROVE  [kind |-> k, epoch |-> w.epoch] \in Event
      BY <3>1 DEF Event
    <3>4. \/ UNCHANGED events \/ Post([kind |-> "chunk"])
          \/ \E k \in {"finished", "failed"} : Post([kind |-> k, epoch |-> w.epoch])
      BY <2>1, WorkerOutcome DEF GoesOn, Leaves
    <3> QED BY <3>2, <3>3, <3>4
  <2> QED BY <1>1, <2>2, <2>3
<1> QED BY <1>3, <1>4, <1>5, <1>6, <1>7, <1>8, <1>9, <1>10, <1>11, <1>12, <1>13, <1>14, <1>15
        DEF Next, Command, Dispatch

(* NeverStranded, for every instance: an active download has something      *)
(* under way that will report.                                              *)
THEOREM NobodyStranded ==
  ASSUME EarlyRetry = FALSE
  PROVE  Spec => []NeverStranded
<1>1. Init => TypeInv /\ EngineInv /\ VerdictInv
  <2>1. Init => status # "VERIFYING"
    BY DEF Init, Added, Restored
  <2> QED BY <2>1, TypeInit, EngineInit DEF VerdictInv
<1>2. TypeInv /\ EngineInv /\ VerdictInv /\ [Next]_vars => TypeInv' /\ EngineInv' /\ VerdictInv'
  BY EngineStep, VerdictStep
<1>3. TypeInv /\ EngineInv /\ VerdictInv => NeverStranded
  <2> SUFFICES ASSUME TypeInv, EngineInv, VerdictInv, status \in Active, events = <<>>
               PROVE  \/ status = "STARTING" /\ starts \in probes
                      \/ status = "DOWNLOADING" /\ \E w \in workers : ~Stale(w)
                      \/ status = "VERIFYING" /\ workerEpoch \in verifiers
    BY DEF NeverStranded
  <2>1. DOMAIN events = {}
    OBVIOUS
  <2>2. Fetched(events) = {} /\ Reports = {} /\ VerdictsIn(events, workerEpoch) = {}
    BY <2>1 DEF Fetched, Reports, VerdictsIn
  <2>3. CASE status = "STARTING"
    BY <2>2, <2>3 DEF EngineInv, ProbesInv, Asked
  <2>4. CASE status = "DOWNLOADING"
    <3>1. Cardinality(Reports) = 0 /\ Cardinality(Live) \in Nat
      BY <2>2, FS_EmptySet, LiveNumber DEF EngineInv
    <3>2. Cardinality(Live) # 0
      BY <2>4, <3>1 DEF EngineInv, GenerationInv
    <3> QED BY <2>4, <3>2, LiveNumber DEF EngineInv, Live
  <2>5. CASE status = "VERIFYING"
    BY <2>2, <2>5 DEF VerdictInv
  <2> QED BY <2>3, <2>4, <2>5 DEF Active
<1> QED BY <1>1, <1>2, <1>3, PTL DEF Spec

-----------------------------------------------------------------------------
(* Files found wrong.  Until it is fetched from scratch, such a file waits  *)
(* in a status from which only a clean restart leads on: an error keeps the *)
(* order to restart or no progress at all, and a queued one no progress.    *)

WrongInv ==
  file.wrong => /\ status \in {"ERROR", "STOPPED", "PENDING", "STARTING"}
                /\ status \in {"PENDING", "STARTING"} => sidecar = {}
                /\ status = "ERROR" => restartRequired \/ sidecar = {}

(* What follows a spawn or the end of a download, on a file that is right. *)
LEMMA RightBefore ==
  ASSUME NEW f, f.wrong = FALSE,
         \/ Spawned /\ file' = f
         \/ Failed(f) \/ Concluded(f)
  PROVE  WrongInv'
BY DEF Failed, Concluded, WrongInv

LEMMA WrongStep ==
  ASSUME TypeInv, EngineInv, WrongInv, [Next]_vars
  PROVE  WrongInv'
<1> USE DEF control, counters, policy, disk, pool, history
<1>1. file \in File /\ FreshFile.wrong = FALSE /\ file.wrong \in BOOLEAN
  BY DEF TypeInv, TypeOK, DiskOK, File, FreshFile
<1>2. CASE Start \/ Stop
  BY <1>2 DEF Start, Stop, RetireWorkers, WrongInv
<1>3. CASE Pause \/ ResumeRestored
  <2>1. status \in {"DOWNLOADING", "PAUSED"} /\ file' = file
    BY <1>3 DEF Pause, ResumeRestored
  <2> QED BY <2>1 DEF WrongInv
<1>4. CASE Resume
  <2>1. /\ rangesSupported' \in BOOLEAN /\ numThreads' \in {1, NumThreads}
        /\ SpawnWorkers(chunkProgress, downloadedSize, file, sidecar)
    BY <1>4 DEF Resume, TypeInv, TypeOK, FlagsOK, ControlOK
  <2>2. PICK f \in {file, FreshFile} : \/ Spawned /\ file' = f
                                       \/ Failed(f) \/ Concluded(f)
    BY <2>1, SpawnOutcome DEF TypeInv, TypeOK, CountOK, DiskOK
  <2>3. f.wrong = FALSE
    BY <1>1, <1>4 DEF Resume, WrongInv
  <2> QED BY <2>2, <2>3, RightBefore
<1>5. CASE PrepareRetry
  <2>1. status \in Terminal /\ status' = "PENDING" /\ file' = file
        /\ (IF NeedsCleanRestart THEN sidecar' = {} ELSE sidecar' = sidecar)
    BY <1>5 DEF PrepareRetry
  <2>2. file.wrong => sidecar' = {}
    BY <2>1 DEF WrongInv, NeedsCleanRestart, Terminal
  <2> QED BY <2>1, <2>2 DEF WrongInv
<1>6. CASE HandleMetadataFetched
  <2>1. status = "STARTING"
    <3>1. Deliver("metadata") /\ status # "STOPPED"
      BY <1>6 DEF HandleMetadataFetched
    <3> QED BY <3>1, OnMetadata
  <2>2. PICK f \in {file, FreshFile} :
          /\ (Spawned /\ file' = f) \/ Failed(f) \/ Concluded(f)
          /\ sidecar = {} => f = FreshFile
    BY <1>6, MetadataOutcome
  <2>3. f.wrong = FALSE
    BY <1>1, <2>1, <2>2 DEF WrongInv
  <2> QED BY <2>2, <2>3, RightBefore
<1>7. CASE HandleMetadataError \/ DropMetadata \/ RefuseMetadata
  <2>1. /\ Deliver("metadata") /\ (status' = status \/ status' = "ERROR")
        /\ status = "STOPPED" => status' = status
        /\ UNCHANGED <<file, sidecar, restartRequired>>
    BY <1>7 DEF HandleMetadataError, DropMetadata, RefuseMetadata
  <2>2. status \in {"STARTING", "STOPPED"}
    BY <2>1, OnMetadata
  <2> QED BY <2>1, <2>2 DEF WrongInv
<1>8. CASE OnChunkDownloaded
  <2>1. /\ UNCHANGED <<status, file, restartRequired>>
        /\ sidecar' = sidecar \/ status \in {"DOWNLOADING", "PAUSED"}
    BY <1>8 DEF OnChunkDownloaded, Saved
  <2> QED BY <2>1 DEF WrongInv
<1>9. CASE OnWorkerFinished
  <2>1. CASE UNCHANGED <<status, restartRequired, file, sidecar>>
    BY <2>1 DEF WrongInv
  <2>2. CASE status = "DOWNLOADING" /\ FinishDownload(downloadedSize, file, activeWorkers - 1)
    <3>1. Failed(file) \/ Concluded(file)
      BY <2>2, FinishOutcome
    <3>2. file.wrong = FALSE
      BY <1>1, <2>2 DEF WrongInv
    <3> QED BY <3>1, <3>2, RightBefore
  <2> QED BY <1>9, <2>1, <2>2 DEF OnWorkerFinished
<1>10. CASE OnWorkerError
  <2>1. CASE FromThisGeneration(Head(events))
    <3>1. status = "DOWNLOADING"
      BY <1>10, <2>1, OnReport DEF OnWorkerError
    <3>2. file' = file
      BY <1>10 DEF OnWorkerError
    <3> QED BY <3>1, <3>2 DEF WrongInv
  <2>2. CASE ~FromThisGeneration(Head(events))
    BY <1>10, <2>2 DEF OnWorkerError, WrongInv
  <2> QED BY <2>1, <2>2
<1>11. CASE OnVerified \/ OnUnverifiable
  <2>1. status = "VERIFYING"
    BY <1>11 DEF OnVerified, OnUnverifiable, Verdict
  <2>2. file' = file \/ (status' = "ERROR" /\ restartRequired' = TRUE)
    BY <1>11 DEF OnVerified, OnUnverifiable
  <2> QED BY <2>1, <2>2 DEF WrongInv
<1>12. CASE DropVerdict \/ ProbeAnswer \/ ChecksumDone \/ Cleanup \/ UNCHANGED vars
  BY <1>12 DEF DropVerdict, ProbeAnswer, ChecksumDone, Cleanup, vars, WrongInv
<1>13. CASE Elsewhere
  <2>1. file' \in {NoFile, Alien("exact"), Alien("long")}
    BY <1>13 DEF Elsewhere
  <2> QED BY <2>1 DEF NoFile, Alien, WrongInv
<1>14. CASE WorkerStep
  <2>1. PICK w \in workers : AStep(w)
    BY <1>14 DEF WorkerStep, AStep
  <2>2. UNCHANGED <<status, restartRequired, sidecar>>
    BY <2>1, WorkerOutcome DEF WorkerFrame
  <2>3. file' = file \/ file' = Written(file, w.pos)
    BY <2>1, WorkerOutcome
  <2>4. file'.wrong = file.wrong
    BY <1>1, <2>3 DEF Written, File
  <2> QED BY <2>2, <2>4 DEF WrongInv
<1> QED BY <1>2, <1>3, <1>4, <1>5, <1>6, <1>7, <1>8, <1>9, <1>10, <1>11, <1>12, <1>13, <1>14
        DEF Next, Command, Dispatch

(* NotReverified, for every instance: a file whose bytes were found wrong   *)
(* is fetched from scratch before it is verified or reported again          *)
(* (restart_required, prepare_retry).                                       *)
THEOREM WrongIsFetchedAgain ==
  ASSUME EarlyRetry = FALSE
  PROVE  Spec => []NotReverified
<1>1. Init => TypeInv /\ EngineInv /\ WrongInv
  <2>1. Init => file.wrong = FALSE
    BY DEF Init, Added, Restored, NoFile, Alien, FreshFile
  <2> QED BY <2>1, TypeInit, EngineInit DEF WrongInv
<1>2. TypeInv /\ EngineInv /\ WrongInv /\ [Next]_vars => TypeInv' /\ EngineInv' /\ WrongInv'
  BY EngineStep, WrongStep
<1>3. WrongInv => NotReverified
  BY DEF WrongInv, NotReverified
<1> QED BY <1>1, <1>2, <1>3, PTL DEF Spec

-----------------------------------------------------------------------------
(* The engine implements DownloadLifecycle.                                 *)

LEMMA LifeInit == Init => Life!Init
BY DEF Init, Added, Restored, Life!Init, Life!Created, Life!Terminal

(* What a spawn or the end of a download leaves as the status. *)
LEMMA AfterSpawn ==
  ASSUME NEW f, Spawned \/ Failed(f) \/ Concluded(f)
  PROVE  status' \in {"DOWNLOADING", "VERIFYING", "COMPLETED", "ERROR"}
BY DEF Spawned, Failed, Concluded

(* Every step of the engine is a transition of the life cycle, or leaves    *)
(* status and metadata_initialized alone.                                   *)
LEMMA LifeStep ==
  ASSUME TypeInv, EngineInv, [Next]_vars
  PROVE  [Life!Next]_(Life!vars)
<1> USE DEF control, counters, policy, disk, pool, history
<1>1. ASSUME UNCHANGED <<status, metadataInitialized>>
      PROVE  [Life!Next]_(Life!vars)
  BY <1>1 DEF Life!vars
<1>2. CASE Start
  BY <1>2 DEF Start, Life!Next, Life!Start
<1>3. CASE Pause
  BY <1>3 DEF Pause, Life!Next, Life!Pause
<1>4. CASE Resume
  <2>1. /\ rangesSupported' \in BOOLEAN /\ numThreads' \in {1, NumThreads}
        /\ SpawnWorkers(chunkProgress, downloadedSize, file, sidecar)
    BY <1>4 DEF Resume, TypeInv, TypeOK, FlagsOK, ControlOK
  <2>2. \E f : Spawned \/ Failed(f) \/ Concluded(f)
    BY <2>1, SpawnOutcome DEF TypeInv, TypeOK, CountOK, DiskOK
  <2>3. Life!Resume
    BY <1>4, <2>2, AfterSpawn DEF Resume, Life!Resume
  <2> QED BY <2>3 DEF Life!Next
<1>5. CASE ResumeRestored
  BY <1>5 DEF ResumeRestored, Life!Next, Life!Requeue, Life!Enqueued
<1>6. CASE Stop
  BY <1>6 DEF Stop, Stoppable, Life!Next, Life!Stop
<1>7. CASE PrepareRetry
  BY <1>7 DEF PrepareRetry, Terminal, Life!Next, Life!Retry, Life!Terminal, Life!Enqueued
<1>8. CASE HandleMetadataFetched
  <2>1. status = "STARTING"
    <3>1. Deliver("metadata") /\ status # "STOPPED"
      BY <1>8 DEF HandleMetadataFetched
    <3> QED BY <3>1, OnMetadata
  <2>2. \E f : Spawned \/ Failed(f) \/ Concluded(f)
    BY <1>8, MetadataOutcome
  <2>3. Life!Answer
    BY <1>8, <2>1, <2>2, AfterSpawn DEF HandleMetadataFetched, Life!Answer
  <2> QED BY <2>3 DEF Life!Next
<1>9. CASE HandleMetadataError \/ RefuseMetadata
  <2>1. Deliver("metadata")
    BY <1>9 DEF HandleMetadataError, RefuseMetadata
  <2>2. status \in {"STARTING", "STOPPED"}
    BY <2>1, OnMetadata
  <2>3. \/ UNCHANGED <<status, metadataInitialized>>
        \/ /\ status = "STARTING" /\ status' = "ERROR"
           /\ metadataInitialized' = TRUE \/ UNCHANGED metadataInitialized
    BY <1>9, <2>2 DEF HandleMetadataError, RefuseMetadata
  <2>4. CASE status = "STARTING" /\ status' = "ERROR"
    BY <2>3, <2>4 DEF Life!Next, Life!Answer
  <2> QED BY <1>1, <2>3, <2>4
<1>10. CASE OnWorkerFinished
  <2>1. UNCHANGED metadataInitialized
    BY <1>10 DEF OnWorkerFinished
  <2>2. CASE UNCHANGED status
    BY <1>1, <2>1, <2>2
  <2>3. CASE status = "DOWNLOADING" /\ FinishDownload(downloadedSize, file, activeWorkers - 1)
    <3>1. status' \in {"VERIFYING", "COMPLETED", "ERROR"}
      BY <2>3, FinishOutcome DEF Failed, Concluded
    <3> QED BY <2>1, <2>3, <3>1 DEF Life!Next, Life!Finish
  <2> QED BY <1>10, <2>2, <2>3 DEF OnWorkerFinished
<1>11. CASE OnWorkerError
  <2>1. UNCHANGED metadataInitialized
    BY <1>11 DEF OnWorkerError
  <2>2. CASE FromThisGeneration(Head(events))
    <3>1. status = "DOWNLOADING"
      BY <1>11, <2>2, OnReport DEF OnWorkerError
    <3>2. status' = "ERROR"
      BY <1>11, <2>2 DEF OnWorkerError, FailWith
    <3> QED BY <2>1, <3>1, <3>2 DEF Life!Next, Life!Finish
  <2>3. CASE ~FromThisGeneration(Head(events))
    BY <1>1, <1>11, <2>1, <2>3 DEF OnWorkerError
  <2> QED BY <2>2, <2>3
<1>12. CASE OnVerified \/ OnUnverifiable
  <2>1. /\ status = "VERIFYING" /\ status' \in {"COMPLETED", "ERROR"}
        /\ UNCHANGED metadataInitialized
    BY <1>12 DEF OnVerified, OnUnverifiable, Verdict
  <2> QED BY <2>1 DEF Life!Next, Life!Verdict
<1>13. CASE DropMetadata \/ OnChunkDownloaded \/ DropVerdict \/ ProbeAnswer \/ ChecksumDone
            \/ Cleanup \/ Elsewhere \/ UNCHANGED vars
  BY <1>1, <1>13 DEF DropMetadata, OnChunkDownloaded, DropVerdict, ProbeAnswer, ChecksumDone,
                     Cleanup, Elsewhere, vars
<1>14. CASE WorkerStep
  <2>1. PICK w \in workers : AStep(w)
    BY <1>14 DEF WorkerStep, AStep
  <2>2. UNCHANGED <<status, metadataInitialized>>
    BY <2>1, WorkerOutcome DEF WorkerFrame
  <2> QED BY <1>1, <2>2
<1> QED BY <1>2, <1>3, <1>4, <1>5, <1>6, <1>7, <1>8, <1>9, <1>10, <1>11, <1>12, <1>13, <1>14
        DEF Next, Command, Dispatch

(* LivesAsPromised, for every instance: whatever probes, workers and        *)
(* verdicts of earlier runs still deliver, the engine keeps the life cycle  *)
(* its panel relies on.                                                     *)
THEOREM LifeKept ==
  ASSUME EarlyRetry = FALSE
  PROVE  Spec => LivesAsPromised
<1>1. Init => TypeInv /\ EngineInv /\ Life!Init
  BY TypeInit, EngineInit, LifeInit
<1>2. TypeInv /\ EngineInv /\ [Next]_vars
        => TypeInv' /\ EngineInv' /\ [Life!Next]_(Life!vars)
  BY EngineStep, LifeStep
<1> QED BY <1>1, <1>2, PTL DEF Spec, LivesAsPromised, Life!Spec

-----------------------------------------------------------------------------
(* Checksums.  A verdict of the current epoch that says the file is right   *)
(* stays true until it is heard: only the workers of this generation could  *)
(* have emptied the file since, and they are gone.                          *)

Hashed == { "VERIFYING", "COMPLETED", "ERROR" }

WholeInv ==
  /\ workerEpoch \in verifiers \/ VerdictsIn(events, workerEpoch) # {} => status \in Hashed
  /\ \A i \in VerdictsIn(events, workerEpoch) :
       events[i].kind = "verified" /\ events[i].valid => Whole(file)
  /\ status = "COMPLETED" => Whole(file)

(* A new epoch has no verdicts yet. *)
LEMMA WholeRetired ==
  ASSUME TypeInv, EngineInv, Heard, UNCHANGED verifiers,
         workerEpoch' = workerEpoch + 1, status' # "COMPLETED"
  PROVE  WholeInv'
<1>1. workerEpoch \in Nat /\ verifiers \subseteq Nat
  BY DEF TypeInv, TypeOK, CountOK, PoolOK
<1>2. workerEpoch' \notin verifiers'
  <2>1. \A e \in verifiers : e \in Nat /\ e <= workerEpoch
    BY <1>1 DEF EngineInv, EpochsInv
  <2> QED BY <1>1, <2>1
<1>3. VerdictsIn(events', workerEpoch') = {}
  <2> SUFFICES ASSUME NEW i \in VerdictsIn(events', workerEpoch') PROVE FALSE
    OBVIOUS
  <2>1. i \in DOMAIN events' /\ events'[i].kind \in {"verified", "unverifiable"}
        /\ events'[i].epoch = workerEpoch + 1
    BY DEF VerdictsIn
  <2>2. PICK j \in DOMAIN events : events'[i] = events[j]
    BY <2>1, HeardOnly
  <2>3. events[j].epoch <= workerEpoch
    BY <2>1, <2>2 DEF EngineInv, EpochsInv
  <2> QED BY <1>1, <2>1, <2>2, <2>3
<1> QED BY <1>2, <1>3 DEF WholeInv

(* Nothing but deliveries happened in this epoch. *)
LEMMA WholeSame ==
  ASSUME TypeInv, WholeInv, Heard, UNCHANGED <<workerEpoch, verifiers>>,
         Whole(file) => Whole(file'), status' = status \/ status' \in {"VERIFYING", "ERROR"}
  PROVE  WholeInv'
<1>1. ASSUME NEW i \in VerdictsIn(events', workerEpoch)
      PROVE  \E j \in VerdictsIn(events, workerEpoch) : events'[i] = events[j]
  <2>1. PICK j \in DOMAIN events : events'[i] = events[j]
    BY HeardOnly DEF VerdictsIn
  <2> QED BY <2>1 DEF VerdictsIn
<1>2. VerdictsIn(events', workerEpoch) # {} => VerdictsIn(events, workerEpoch) # {}
  BY <1>1
<1>3. workerEpoch' \in verifiers' \/ VerdictsIn(events', workerEpoch') # {} => status' \in Hashed
  BY <1>2 DEF WholeInv, Hashed
<1>4. ASSUME NEW i \in VerdictsIn(events', workerEpoch'),
             events'[i].kind = "verified", events'[i].valid
      PROVE  Whole(file')
  BY <1>1, <1>4 DEF WholeInv
<1>5. status' = "COMPLETED" => Whole(file')
  BY DEF WholeInv
<1> QED BY <1>3, <1>4, <1>5 DEF WholeInv

(* Before the file is hashed there is no verdict to hear.                   *)
LEMMA WholeBefore ==
  ASSUME TypeInv, WholeInv, Heard, UNCHANGED workerEpoch, status \notin Hashed,
         \/ UNCHANGED verifiers
         \/ status' = "VERIFYING" /\ verifiers' = verifiers \cup {workerEpoch},
         status' # "COMPLETED"
  PROVE  WholeInv'
<1>1. workerEpoch \notin verifiers /\ VerdictsIn(events, workerEpoch) = {}
  BY DEF WholeInv
<1>2. VerdictsIn(events', workerEpoch') = {}
  BY <1>1, HeardOnly DEF VerdictsIn
<1>3. workerEpoch' \in verifiers' => status' \in Hashed
  BY <1>1 DEF Hashed
<1> QED BY <1>2, <1>3 DEF WholeInv

LEMMA WholeOutcome ==
  ASSUME HasChecksum, TypeInv, EngineInv, WholeInv, Heard, status \notin Hashed,
         NEW f, Spawned \/ Failed(f) \/ Concluded(f)
  PROVE  WholeInv'
<1>1. CASE Spawned
  BY <1>1, WholeBefore DEF Spawned
<1>2. CASE Failed(f)
  BY <1>2, WholeRetired DEF Failed
<1>3. CASE Concluded(f)
  BY <1>3, WholeBefore DEF Concluded
<1> QED BY <1>1, <1>2, <1>3

(* A signal that is no verdict of this epoch, or a true one, changes nothing. *)
LEMMA WholePosted ==
  ASSUME TypeInv, WholeInv, UNCHANGED <<status, workerEpoch>>, Whole(file) => Whole(file'),
         verifiers' \subseteq verifiers,
         NEW v \in Event, Post(v),
         v.kind \in {"verified", "unverifiable"} /\ v.epoch = workerEpoch
           => /\ workerEpoch \in verifiers
              /\ v.kind = "verified" /\ v.valid => Whole(file')
  PROVE  WholeInv'
<1>1. events \in Seq(Event)
  BY DEF TypeInv, TypeOK, EventsOK
<1>2. ASSUME NEW i \in VerdictsIn(events', workerEpoch)
      PROVE  \/ i \in VerdictsIn(events, workerEpoch) /\ events'[i] = events[i]
             \/ events'[i] = v /\ v.kind \in {"verified", "unverifiable"} /\ v.epoch = workerEpoch
  <2>1. i \in DOMAIN events \cup {Len(events) + 1}
    BY <1>1, AppendAdds DEF VerdictsIn, Post
  <2>2. CASE i \in DOMAIN events
    <3>1. events'[i] = events[i]
      BY <1>1, <2>2, AppendAdds DEF Post
    <3> QED BY <2>2, <3>1 DEF VerdictsIn
  <2>3. CASE i = Len(events) + 1
    <3>1. events'[i] = v
      BY <1>1, <2>3, AppendAdds DEF Post
    <3> QED BY <3>1 DEF VerdictsIn
  <2> QED BY <2>1, <2>2, <2>3
<1>3. workerEpoch' \in verifiers' \/ VerdictsIn(events', workerEpoch') # {} => status' \in Hashed
  <2>1. VerdictsIn(events', workerEpoch) # {}
          => VerdictsIn(events, workerEpoch) # {} \/ workerEpoch \in verifiers
    BY <1>2
  <2> QED BY <2>1 DEF WholeInv
<1>4. ASSUME NEW i \in VerdictsIn(events', workerEpoch'),
             events'[i].kind = "verified", events'[i].valid
      PROVE  Whole(file')
  BY <1>2, <1>4 DEF WholeInv
<1>5. status' = "COMPLETED" => Whole(file')
  BY DEF WholeInv
<1> QED BY <1>3, <1>4, <1>5 DEF WholeInv

(* What a worker writes leaves a whole file whole. *)
LEMMA WholeStays ==
  ASSUME TypeInv, TypeInv', NEW pos, file' = file \/ file' = Written(file, pos), Whole(file)
  PROVE  Whole(file')
<1>1. file'.written \subseteq Bytes /\ file \in File
  BY DEF TypeInv, TypeOK, DiskOK, File
<1>2. file.written \subseteq file'.written
  BY <1>1 DEF Written, File
<1> QED BY <1>1, <1>2 DEF Whole

LEMMA WholeStep ==
  ASSUME HasChecksum, External = FALSE, TypeInv, TypeInv', EngineInv, WholeInv, [Next]_vars
  PROVE  WholeInv'
<1> USE DEF control, counters, policy, disk, pool, history
<1>1. CASE Start \/ ResumeRestored
  <2>1. /\ status \in {"PENDING", "PAUSED"} /\ status' \in {"PENDING", "STARTING"}
        /\ UNCHANGED <<workerEpoch, verifiers, events>>
    BY <1>1 DEF Start, ResumeRestored
  <2> QED BY <2>1, WholeBefore DEF Heard, Hashed
<1>2. CASE Pause \/ Stop \/ PrepareRetry
  <2>1. /\ status' # "COMPLETED" /\ workerEpoch' = workerEpoch + 1
        /\ UNCHANGED <<verifiers, events>>
    BY <1>2 DEF Pause, Stop, PrepareRetry, RetireWorkers
  <2> QED BY <2>1, WholeRetired DEF Heard
<1>3. CASE Resume
  <2>1. /\ rangesSupported' \in BOOLEAN /\ numThreads' \in {1, NumThreads}
        /\ SpawnWorkers(chunkProgress, downloadedSize, file, sidecar)
    BY <1>3 DEF Resume, TypeInv, TypeOK, FlagsOK, ControlOK
  <2>2. \E f : Spawned \/ Failed(f) \/ Concluded(f)
    BY <2>1, SpawnOutcome DEF TypeInv, TypeOK, CountOK, DiskOK
  <2>3. status \notin Hashed /\ Heard
    BY <1>3 DEF Resume, Hashed, Heard
  <2> QED BY <2>2, <2>3, WholeOutcome
<1>4. CASE HandleMetadataFetched
  <2>1. Deliver("metadata")
    BY <1>4 DEF HandleMetadataFetched
  <2>2. status \notin Hashed /\ Heard
    BY <2>1, OnMetadata DEF Hashed, Heard, Deliver
  <2>3. \E f : Spawned \/ Failed(f) \/ Concluded(f)
    BY <1>4, MetadataOutcome
  <2> QED BY <2>2, <2>3, WholeOutcome
<1>5. CASE HandleMetadataError \/ DropMetadata \/ RefuseMetadata \/ OnChunkDownloaded
           \/ OnUnverifiable \/ DropVerdict
  <2>1. /\ UNCHANGED <<workerEpoch, verifiers, file>>
        /\ status' = status \/ status' = "ERROR"
        /\ Heard
    BY <1>5 DEF HandleMetadataError, DropMetadata, RefuseMetadata, OnChunkDownloaded,
                OnUnverifiable, DropVerdict, Verdict, Deliver, Heard
  <2> QED BY <2>1, WholeSame
<1>6. CASE OnWorkerFinished
  <2>1. Heard
    BY <1>6 DEF OnWorkerFinished, Deliver, Heard
  <2>2. CASE UNCHANGED <<status, workerEpoch, verifiers, file>>
    BY <2>1, <2>2, WholeSame
  <2>3. CASE status = "DOWNLOADING" /\ FinishDownload(downloadedSize, file, activeWorkers - 1)
    <3>1. Failed(file) \/ Concluded(file)
      BY <2>3, FinishOutcome
    <3> QED BY <2>1, <2>3, <3>1, WholeOutcome DEF Hashed
  <2> QED BY <1>6, <2>2, <2>3 DEF OnWorkerFinished
<1>7. CASE OnWorkerError
  <2>1. Heard
    BY <1>7 DEF OnWorkerError, Deliver, Heard
  <2>2. \/ UNCHANGED <<status, workerEpoch, verifiers, file>>
        \/ /\ status' = "ERROR" /\ workerEpoch' = workerEpoch + 1
           /\ UNCHANGED verifiers
    BY <1>7 DEF OnWorkerError, FailWith, RetireWorkers
  <2> QED BY <2>1, <2>2, WholeSame, WholeRetired
<1>8. CASE OnVerified
  <2>1. /\ Heard /\ UNCHANGED <<workerEpoch, verifiers>>
    BY <1>8 DEF OnVerified, Verdict, Deliver, Heard
  <2>2. events # <<>> /\ Head(events).kind = "verified" /\ Head(events).epoch = workerEpoch
    BY <1>8 DEF OnVerified, Verdict, Deliver
  <2>3. CASE Head(events).valid
    <3>1. status' = "COMPLETED" /\ file' = file
      BY <1>8, <2>3 DEF OnVerified
    <3>2. events \in Seq(Event)
      BY DEF TypeInv, TypeOK, EventsOK
    <3>3. 1 \in VerdictsIn(events, workerEpoch) /\ events[1] = Head(events)
      BY <2>2, <3>2, TailShifts DEF VerdictsIn
    <3>4. Whole(file')
      BY <2>2, <2>3, <3>1, <3>3 DEF WholeInv
    <3> QED BY <2>1, <3>1, <3>4 DEF WholeInv, Hashed
  <2>4. CASE ~Head(events).valid
    <3>1. status' = "ERROR" /\ file' = Wrong(file)
      BY <1>8, <2>4 DEF OnVerified
    <3>2. file \in File
      BY DEF TypeInv, TypeOK, DiskOK
    <3>3. Whole(file) => Whole(file')
      BY <3>1, <3>2 DEF Whole, Wrong, File
    <3> QED BY <2>1, <3>1, <3>3, WholeSame
  <2> QED BY <2>3, <2>4
<1>9. CASE ProbeAnswer
  <2>1. PICK r \in probes, reply \in Replies :
          Post([kind |-> "metadata", reply |-> reply, run |-> r])
    BY <1>9 DEF ProbeAnswer
  <2>2. [kind |-> "metadata", reply |-> reply, run |-> r] \in Event
    BY ReplyAssumption DEF Event, TypeInv, TypeOK, PoolOK
  <2>3. UNCHANGED <<status, workerEpoch, verifiers, file>>
    BY <1>9 DEF ProbeAnswer
  <2> QED BY <2>1, <2>2, <2>3, WholePosted
<1>10. CASE ChecksumDone
  <2>1. PICK e \in verifiers :
          /\ verifiers' = verifiers \ {e}
          /\ Post([kind |-> "verified", valid |-> Whole(file), epoch |-> e])
          /\ UNCHANGED <<status, workerEpoch, file>>
    BY <1>10 DEF ChecksumDone
  <2> DEFINE v == [kind |-> "verified", valid |-> Whole(file), epoch |-> e]
  <2>2. v \in Event
    BY DEF TypeInv, TypeOK, PoolOK, Event, Whole
  <2>3. v.kind = "verified" /\ v.valid = Whole(file) /\ v.epoch = e
    OBVIOUS
  <2> HIDE DEF v
  <2>4. Post(v)
    BY <2>1 DEF v
  <2> QED BY <2>1, <2>2, <2>3, <2>4, WholePosted
<1>11. CASE Cleanup \/ UNCHANGED vars
  <2>1. UNCHANGED <<status, workerEpoch, verifiers, events, file>>
    BY <1>11 DEF Cleanup, vars
  <2> QED BY <2>1, WholeSame DEF Heard
<1>12. CASE Elsewhere
  BY <1>12 DEF Elsewhere
<1>13. CASE WorkerStep
  <2>1. PICK w \in workers : AStep(w)
    BY <1>13 DEF WorkerStep, AStep
  <2>2. UNCHANGED <<status, workerEpoch, verifiers>>
    BY <2>1, WorkerOutcome DEF WorkerFrame
  <2>3. Whole(file) => Whole(file')
    BY <2>1, WorkerOutcome, WholeStays
  <2>4. UNCHANGED events \/ \E v \in Event : Post(v) /\ v.kind \notin {"verified", "unverifiable"}
    <3>1. w.epoch \in Nat
      BY DEF TypeInv, TypeOK, PoolOK, Worker
    <3>2. [kind |-> "chunk"] \in Event
      BY DEF Event
    <3>3. ASSUME NEW k \in {"finished", "failed"}
          PROVE  [kind |-> k, epoch |-> w.epoch] \in Event
      BY <3>1 DEF Event
    <3>4. \/ UNCHANGED events \/ Post([kind |-> "chunk"])
          \/ \E k \in {"finished", "failed"} : Post([kind |-> k, epoch |-> w.epoch])
      BY <2>1, WorkerOutcome DEF GoesOn, Leaves
    <3> QED BY <3>2, <3>3, <3>4
  <2>5. CASE UNCHANGED events
    BY <2>2, <2>3, <2>5, WholeSame DEF Heard
  <2> QED BY <2>2, <2>3, <2>4, <2>5, WholePosted
<1> QED BY <1>1, <1>2, <1>3, <1>4, <1>5, <1>6, <1>7, <1>8, <1>9, <1>10, <1>11, <1>12, <1>13
        DEF Next, Command, Dispatch

(* VerifiedIsWhole, for every instance without other programs: whatever     *)
(* stale workers, short bodies and retries did to the counters, a download  *)
(* with a checksum is reported complete only when every byte of the file    *)
(* holds downloaded content.                                                *)
THEOREM ChecksumMeansWhole ==
  ASSUME EarlyRetry = FALSE, External = FALSE
  PROVE  Spec => []VerifiedIsWhole
<1>1. CASE HasChecksum
  <2>1. Init => TypeInv /\ EngineInv /\ WholeInv
    <3>1. Init => /\ status \in {"PENDING", "PAUSED"} /\ events = <<>> /\ verifiers = {}
      BY DEF Init, Added, Restored
    <3>2. Init => WholeInv
      BY <3>1 DEF WholeInv, VerdictsIn
    <3> QED BY <3>2, TypeInit, EngineInit
  <2>2. TypeInv /\ EngineInv /\ WholeInv /\ [Next]_vars => TypeInv' /\ EngineInv' /\ WholeInv'
    BY <1>1, EngineStep, WholeStep
  <2>3. WholeInv => VerifiedIsWhole
    BY DEF WholeInv, VerifiedIsWhole
  <2> QED BY <2>1, <2>2, <2>3, PTL DEF Spec
<1>2. CASE ~HasChecksum
  <2>1. VerifiedIsWhole
    BY <1>2 DEF VerifiedIsWhole
  <2> QED BY <2>1, PTL
<1> QED BY <1>1, <1>2

-----------------------------------------------------------------------------
(* The byte count.  As long as no generation was retired, the bytes counted *)
(* and the chunks still to be counted are bytes of the file that hold       *)
(* content, each once: no worker writes what another has written or what    *)
(* the sidecar already counts.                                              *)

ChunksIn(q) == { i \in DOMAIN q : q[i].kind = "chunk" }

(* A chunk is never longer than what it was cut from. *)
LEMMA ChunkLength ==
  ASSUME NEW n \in {1, NumThreads}, NEW i \in 0 .. n - 1
  PROVE  ChunkStart(i, n) \in Nat /\ ChunkEnd(i, n) \in Int /\ ChunkStart(i, n) <= ChunkEnd(i, n) + 1
<1> USE SizeAssumption, ThreadAssumption
<1> DEFINE q == TotalSize \div n
<1>1. q \in Nat /\ n * q <= TotalSize /\ n \in Nat \ {0} /\ i \in Nat /\ i <= n
  OBVIOUS
<1>2. i * q <= n * q /\ i * q \in Nat /\ n * q \in Nat
  BY <1>1, TimesMonotonic
<1>3. ChunkStart(i, n) = i * q
  BY DEF ChunkStart
<1>4. ChunkEnd(i, n) \in Int /\ i * q <= ChunkEnd(i, n) + 1
  <2>1. CASE i < n - 1
    <3>1. ChunkEnd(i, n) = i * q + q - 1
      BY <1>3, <2>1 DEF ChunkEnd
    <3> HIDE DEF q
    <3> QED BY <1>1, <1>2, <3>1
  <2>2. CASE ~(i < n - 1)
    <3>1. ChunkEnd(i, n) = TotalSize - 1
      BY <2>2 DEF ChunkEnd
    <3> HIDE DEF q
    <3> QED BY <1>1, <1>2, <3>1
  <2> QED BY <2>1, <2>2
<1> QED BY <1>2, <1>3, <1>4

(* The bytes done of different chunks are different bytes. *)
LEMMA DoneApart ==
  ASSUME NEW cp \in Restorable, NEW i \in 0 .. NumThreads - 1, NEW s \in Starts,
         NEW b \in s .. s + cp[s] - 1,
         ChunkStart(i, NumThreads) <= b, b <= ChunkEnd(i, NumThreads)
  PROVE  s = ChunkStart(i, NumThreads)
<1> DEFINE n == NumThreads
<1>1. PICK j \in 0 .. n - 1 : s = ChunkStart(j, n)
  BY DEF Starts
<1>2. /\ i \in Int /\ j \in Int /\ b \in Int /\ s \in Nat /\ cp[s] \in Nat
      /\ ChunkEnd(j, n) \in Int /\ ChunkEnd(i, n) \in Int /\ ChunkStart(i, n) \in Nat
  BY ThreadAssumption, ChunkLength, RestoredInRange, StartsFinite DEF ChunkMap
<1>3. b <= ChunkEnd(j, n)
  <2>1. cp[s] <= ChunkEnd(j, n) - s + 1
    BY <1>1 DEF Restorable
  <2> QED BY <1>2, <2>1
<1>4. CASE i < j
  <2>1. ChunkEnd(i, n) < s
    BY <1>1, <1>4, ChunksApart
  <2> QED BY <1>2, <2>1
<1>5. CASE j < i
  <2>1. ChunkEnd(j, n) < ChunkStart(i, n)
    BY <1>5, ChunksApart
  <2> QED BY <1>2, <1>3, <2>1
<1>6. CASE i = j
  BY <1>1, <1>6
<1> QED BY <1>2, <1>4, <1>5, <1>6

(* sum(chunk_progress.values()) is the number of bytes on disk. *)
LEMMA SumIsDone ==
  ASSUME NEW cp \in Restorable
  PROVE  SumOf(cp) = Cardinality(Done(cp)) /\ IsFiniteSet(Done(cp))
<1> DEFINE P == UNION { {s} \X (1 .. cp[s]) : s \in Starts }
           g == [p \in P |-> p[1] + p[2] - 1]
<1>1. /\ Done(cp) \subseteq Bytes /\ cp \in ChunkMap /\ Starts \subseteq Nat
  BY RestoredInRange, StartsFinite
<1>2. ASSUME NEW p \in P
      PROVE  /\ p = <<p[1], p[2]>> /\ p[1] \in Starts /\ p[2] \in 1 .. cp[p[1]]
             /\ p[1] \in Nat /\ p[2] \in Nat
             /\ g[p] \in p[1] .. p[1] + cp[p[1]] - 1
  <2>1. PICK s \in Starts : p \in {s} \X (1 .. cp[s])
    OBVIOUS
  <2>2. p = <<s, p[2]>> /\ p[2] \in 1 .. cp[s] /\ p[1] = s /\ s \in Nat /\ cp[s] \in Nat
    BY <1>1, <2>1 DEF ChunkMap
  <2> QED BY <2>2
<1>3. g \in [P -> Done(cp)]
  BY <1>2 DEF Done
<1>4. ASSUME NEW p \in P, NEW r \in P, g[p] = g[r] PROVE p = r
  <2>1. PICK i \in 0 .. NumThreads - 1 : p[1] = ChunkStart(i, NumThreads)
    BY <1>2 DEF Starts
  <2>2. /\ p[1] <= g[p] /\ g[p] <= ChunkEnd(i, NumThreads)
    <3>1. cp[p[1]] <= ChunkEnd(i, NumThreads) - p[1] + 1
      BY <2>1 DEF Restorable
    <3>2. ChunkEnd(i, NumThreads) \in Int /\ cp[p[1]] \in Nat
      BY <1>1, <1>2, ChunkLength DEF ChunkMap
    <3> HIDE DEF g
    <3> QED BY <1>2, <3>1, <3>2
  <2>3. r[1] \in Starts /\ g[r] \in r[1] .. r[1] + cp[r[1]] - 1
    BY <1>2
  <2>4. r[1] = p[1]
    <3> HIDE DEF g, P
    <3> QED BY <1>4, <2>1, <2>2, <2>3, DoneApart
  <2>5. p[1] + p[2] - 1 = r[1] + r[2] - 1
    BY <1>4
  <2>6. p[2] = r[2]
    <3> HIDE DEF g, P
    <3> QED BY <1>2, <2>4, <2>5
  <2> QED BY <1>2, <2>4, <2>6
<1>5. ASSUME NEW b \in Done(cp) PROVE \E p \in P : g[p] = b
  <2>1. PICK s \in Starts : b \in s .. s + cp[s] - 1
    BY DEF Done
  <2>2. s \in Nat /\ cp[s] \in Nat /\ b \in Int
    BY <1>1, <2>1 DEF ChunkMap
  <2>3. b - s + 1 \in 1 .. cp[s]
    BY <2>1, <2>2
  <2>4. <<s, b - s + 1>> \in P
    BY <2>3
  <2>5. g[<<s, b - s + 1>>] = b
    <3>1. g[<<s, b - s + 1>>] = s + (b - s + 1) - 1
      BY <2>4
    <3> HIDE DEF g, P
    <3> QED BY <2>2, <3>1
  <2> QED BY <2>4, <2>5
<1>6. g \in Bijection(P, Done(cp))
  <2> HIDE DEF g, P
  <2> QED BY <1>3, <1>4, <1>5 DEF Bijection, Injection, Surjection, IsInjective
<1>7. IsFiniteSet(Done(cp))
  <2>1. IsFiniteSet(Bytes)
    BY SizeAssumption, FS_Interval DEF Bytes
  <2> QED BY <1>1, <2>1, FS_Subset
<1>8. IsFiniteSet(P) /\ Cardinality(P) = Cardinality(Done(cp))
  <2> HIDE DEF g, P
  <2>1. IsFiniteSet(P)
    BY <1>6, <1>7, FS_Injection DEF Bijection
  <2> QED BY <1>6, <2>1, FS_Bijection DEF ExistsBijection
<1> QED BY <1>7, <1>8 DEF SumOf

(* As many bytes written as the file has: all of them. *)
LEMMA AllWritten ==
  ASSUME NEW f \in File, Cardinality(f.written) >= TotalSize
  PROVE  Whole(f)
<1>1. IsFiniteSet(Bytes) /\ Cardinality(Bytes) = TotalSize
  <2>1. 0 \in Int /\ TotalSize - 1 \in Int /\ ~(0 > TotalSize - 1) /\ TotalSize - 1 - 0 + 1 = TotalSize
    BY SizeAssumption
  <2> QED BY <2>1, FS_Interval DEF Bytes
<1>2. f.written \in SUBSET Bytes
  BY DEF File
<1>3. Cardinality(f.written) <= TotalSize /\ Cardinality(f.written) \in Nat
  BY <1>1, <1>2, FS_Subset, FS_CardinalityType
<1>4. Cardinality(f.written) = Cardinality(Bytes)
  BY <1>1, <1>3, SizeAssumption
<1> QED BY <1>1, <1>2, <1>4, FS_Subset DEF Whole

(* The next byte a worker writes; it has written none of those ahead of it, *)
(* and nobody else has.                                                     *)
Upcoming(w) == IF w.pc = "queued" THEN w.start + chunkProgress[w.start]
               ELSE IF w.pc = "storing" THEN w.pos + 1 ELSE w.pos

Careful(w) == /\ w.pc # "restart" /\ w.start <= Upcoming(w)
              /\ \A b \in Upcoming(w) .. w.end : b \notin file.written
              /\ w.pc = "queued" => w.ranged \/ Upcoming(w) = 0

CountInv == downloadedSize + Cardinality(ChunksIn(events)) <= Cardinality(file.written)

(* Before the first probe has answered. *)
BeforeInv == /\ workers = {} /\ ChunksIn(events) = {}
             /\ ~metadataInitialized /\ numThreads = NumThreads
             /\ sidecar # {} => \E cp \in Restorable : sidecar = {cp} /\ file.written = Done(cp)

FirstInv ==
  workerEpoch = 0 =>
    /\ status \in {"PENDING", "PAUSED", "STARTING"} => BeforeInv
    /\ status = "DOWNLOADING" => CountInv /\ \A w \in workers : Careful(w)
    /\ status = "COMPLETED" => Whole(file)
    /\ status # "VERIFYING"

(* An empty chunk map counts nothing. *)
LEMMA NothingDone ==
  /\ NoProgress \in Restorable /\ Done(NoProgress) = {} /\ SumOf(NoProgress) = 0
  /\ \A cp \in Restorable : SumOf(cp) = 0 => Done(cp) = {} /\ \A s \in Starts : cp[s] = 0
<1>1. NoProgress \in Restorable
  <2>1. ASSUME NEW i \in 0 .. NumThreads - 1
        PROVE  NoProgress[ChunkStart(i, NumThreads)] <= ChunkEnd(i, NumThreads) - ChunkStart(i, NumThreads) + 1
    <3>1. ChunkStart(i, NumThreads) \in Starts
      BY DEF Starts
    <3>2. NoProgress[ChunkStart(i, NumThreads)] = 0
      BY <3>1 DEF NoProgress
    <3> QED BY <3>2, ChunkLength
  <2>2. NoProgress \in [Starts -> 0 .. TotalSize]
    BY SizeAssumption DEF NoProgress
  <2> QED BY <2>1, <2>2 DEF Restorable
<1>2. Done(NoProgress) = {}
  <2>1. ASSUME NEW s \in Starts, NEW b \in s .. s + NoProgress[s] - 1 PROVE FALSE
    <3>1. s \in Nat /\ NoProgress[s] = 0
      BY StartsFinite DEF NoProgress
    <3> QED BY <3>1
  <2> QED BY <2>1 DEF Done
<1>3. SumOf(NoProgress) = 0
  BY <1>1, <1>2, SumIsDone, FS_EmptySet
<1>4. ASSUME NEW cp \in Restorable, SumOf(cp) = 0 PROVE Done(cp) = {} /\ \A s \in Starts : cp[s] = 0
  <2>1. Done(cp) = {}
    BY <1>4, SumIsDone, FS_EmptySet
  <2>2. ASSUME NEW s \in Starts, cp[s] # 0 PROVE FALSE
    <3>1. s \in Nat /\ cp[s] \in Nat
      BY StartsFinite, RestoredInRange DEF ChunkMap
    <3>2. s \in s .. s + cp[s] - 1
      BY <2>2, <3>1
    <3> QED BY <2>1, <3>2 DEF Done
  <2> QED BY <2>1, <2>2
<1> QED BY <1>1, <1>2, <1>3, <1>4

(* A spawn on top of what the sidecar counts, with every byte it counts on  *)
(* disk and no other.                                                       *)
LEMMA FirstFinish ==
  ASSUME ~HasChecksum, workerEpoch = 0, NEW f \in File, NEW d \in Nat, d <= Cardinality(f.written),
         NEW a, FinishDownload(d, f, a)
  PROVE  FirstInv'
<1>1. CASE FailWith(TRUE) \/ FailWith(restartRequired)
  BY <1>1 DEF FailWith, RetireWorkers, FirstInv
<1>2. CASE CountMatches(d) /\ Conclude /\ file' = f
  <2>1. Cardinality(f.written) \in Nat
    <3>1. f.written \in SUBSET Bytes /\ IsFiniteSet(Bytes)
      BY SizeAssumption, FS_Interval DEF File, Bytes
    <3> QED BY <3>1, FS_Subset, FS_CardinalityType
  <2>2. Whole(f)
    BY <1>2, <2>1, SizeAssumption, AllWritten DEF CountMatches
  <2>3. status' = "COMPLETED" /\ file' = f
    BY <1>2 DEF Conclude
  <2> QED BY <2>2, <2>3 DEF FirstInv, Whole
<1> QED BY <1>1, <1>2 DEF FinishDownload

LEMMA FirstSpawn ==
  ASSUME TypeInv, ~HasChecksum, workerEpoch = 0, workers = {}, ChunksIn(events') = {},
         rangesSupported' \in BOOLEAN, numThreads' = IF rangesSupported' THEN NumThreads ELSE 1,
         NEW cp0 \in Restorable, NEW f0 \in File, f0.written = Done(cp0),
         NEW sc, SpawnWorkers(cp0, SumOf(cp0), f0, sc)
  PROVE  FirstInv'
<1> DEFINE reset == ~rangesSupported' /\ SumOf(cp0) # 0
           cp == IF reset THEN NoProgress ELSE cp0
           d == IF reset THEN 0 ELSE SumOf(cp0)
           f == IF reset THEN FreshFile ELSE f0
           n == numThreads'
           todo == Incomplete(cp, n)
           W(i) == WorkerFor(ChunkStart(i, n), ChunkEnd(i, n))
           new == { W(i) : i \in todo }
<1>1. /\ cp \in Restorable /\ f \in File /\ f.written = Done(cp) /\ d = Cardinality(f.written)
      /\ ~rangesSupported' => f.written = {} /\ \A s \in Starts : cp[s] = 0
  <2>1. FreshFile.written = {} /\ FreshFile \in File /\ Cardinality({}) = 0
    BY FreshType, FS_EmptySet DEF FreshFile
  <2>2. SumOf(cp0) = Cardinality(Done(cp0))
    BY SumIsDone
  <2>3. \A s \in Starts : NoProgress[s] = 0
    BY DEF NoProgress
  <2> QED BY <2>1, <2>2, <2>3, NothingDone
<1>2. d \in Nat /\ cp \in ChunkMap
  BY <1>1, SumIsDone, FS_CardinalityType, RestoredInRange
<1>3. Cardinality(ChunksIn(events')) = 0
  BY FS_EmptySet
<1>4. ASSUME NEW g \in File, NEW p \in ChunkMap, NEW k \in Nat,
             status' = "DOWNLOADING", file' = g, chunkProgress' = p, downloadedSize' = k,
             k <= Cardinality(g.written), \A w \in workers' : Careful(w)'
      PROVE  FirstInv'
  <2>1. CountInv'
    BY <1>3, <1>4 DEF CountInv
  <2> QED BY <1>4, <2>1 DEF FirstInv
<1>5. CASE todo # {} /\ StartWorkers(new, cp, d) /\ file' = f
  <2>1. /\ status' = "DOWNLOADING" /\ workers' = new /\ chunkProgress' = cp /\ downloadedSize' = d
    BY <1>5 DEF StartWorkers
  <2>2. ASSUME NEW w \in new PROVE Careful(w)'
    <3>1. PICK i \in 0 .. n - 1 : w = W(i) /\ i \in todo
      BY DEF Incomplete
    <3> DEFINE s == ChunkStart(i, n)
    <3>2. /\ n \in {1, NumThreads} /\ i \in 0 .. n - 1
      BY <3>1
    <3>3. /\ s \in Starts /\ s \in Nat /\ ChunkEnd(i, n) \in Int /\ cp[s] \in Nat
      BY <1>2, <3>2, ChunkInRange, ChunkLength DEF ChunkMap
    <3>4. /\ w.pc = "queued" /\ w.start = s /\ w.end = ChunkEnd(i, n) /\ w.ranged = rangesSupported'
      BY <3>1 DEF WorkerFor
    <3>5. Upcoming(w)' = s + cp[s]
      BY <2>1, <3>4 DEF Upcoming
    <3>6. CASE rangesSupported'
      <4>1. n = NumThreads
        BY <3>6
      <4>2. ASSUME NEW b \in s + cp[s] .. ChunkEnd(i, n), b \in f.written PROVE FALSE
        <5>1. PICK t \in Starts : b \in t .. t + cp[t] - 1
          BY <1>1, <4>2 DEF Done
        <5>2. b \in Int /\ s <= b /\ b <= ChunkEnd(i, n)
          BY <3>3, <4>2
        <5>3. t = s
          BY <1>1, <3>2, <4>1, <5>1, <5>2, DoneApart
        <5> QED BY <3>3, <4>2, <5>1, <5>3
      <4> HIDE DEF s, cp, f
      <4> QED BY <1>5, <3>3, <3>4, <3>5, <3>6, <4>2 DEF Careful
    <3>7. CASE ~rangesSupported'
      <4>1. i = 0 /\ n = 1
        BY <3>2, <3>7
      <4>2. s = 0
        BY <4>1, SizeAssumption DEF ChunkStart
      <4>3. cp[s] = 0 /\ f.written = {}
        BY <1>1, <3>3, <3>7
      <4> HIDE DEF s, cp, f
      <4> QED BY <1>5, <3>4, <3>5, <4>2, <4>3 DEF Careful
    <3> QED BY <3>6, <3>7
  <2>3. d <= Cardinality(f.written)
    BY <1>1, <1>2
  <2> HIDE DEF new, cp, d, f
  <2> QED BY <1>1, <1>2, <1>4, <1>5, <2>1, <2>2, <2>3
<1>6. CASE StartWorkers({ WorkerFor(0, TotalSize - 1) }, NoProgress, 0) /\ file' = FreshFile
  <2>1. /\ status' = "DOWNLOADING" /\ workers' = { WorkerFor(0, TotalSize - 1) }
        /\ chunkProgress' = NoProgress /\ downloadedSize' = 0
    BY <1>6 DEF StartWorkers
  <2>2. /\ FreshFile.written = {} /\ FreshFile \in File /\ NoProgress \in ChunkMap /\ NoProgress[0] = 0
        /\ Cardinality({}) = 0
    BY FreshType, FS_EmptySet DEF FreshFile, NoProgress
  <2>3. ASSUME NEW w \in workers' PROVE Careful(w)'
    <3>1. w.pc = "queued" /\ w.start = 0
      BY <2>1 DEF WorkerFor
    <3> QED BY <1>6, <2>1, <2>2, <3>1 DEF Careful, Upcoming
  <2>4. 0 <= Cardinality(FreshFile.written)
    BY <2>2
  <2> QED BY <1>4, <1>6, <2>1, <2>2, <2>3, <2>4
<1>7. CASE FinishDownload(d, f, 0)
  <2>1. d <= Cardinality(f.written)
    BY <1>1, <1>2
  <2> HIDE DEF d, f
  <2> QED BY <1>1, <1>2, <1>7, <2>1, FirstFinish
<1> QED BY <1>5, <1>6, <1>7 DEF SpawnWorkers

(* The chunks still to be counted, after a delivery and a post. *)
LEMMA ChunksPlaces ==
  ASSUME NEW q \in Seq(Event)
  PROVE  ChunksIn(q) = Places(q, { v \in Event : v.kind = "chunk" })
BY DEF ChunksIn, Places

LEMMA ChunksTail ==
  ASSUME NEW q \in Seq(Event), q # <<>>
  PROVE  /\ Cardinality(ChunksIn(q)) \in Nat /\ Cardinality(ChunksIn(Tail(q))) \in Nat
         /\ Cardinality(ChunksIn(Tail(q))) =
              IF Head(q).kind = "chunk" THEN Cardinality(ChunksIn(q)) - 1 ELSE Cardinality(ChunksIn(q))
         /\ ChunksIn(q) = {} => ChunksIn(Tail(q)) = {} /\ Head(q).kind # "chunk"
<1> DEFINE K == { v \in Event : v.kind = "chunk" }
<1>1. Tail(q) \in Seq(Event) /\ Head(q) \in Event
  BY HeadTailProperties
<1>2. ChunksIn(q) = Places(q, K) /\ ChunksIn(Tail(q)) = Places(Tail(q), K)
  BY <1>1, ChunksPlaces
<1>3. Head(q) \in K <=> Head(q).kind = "chunk"
  BY <1>1
<1> HIDE DEF K
<1>4. /\ IsFiniteSet(ChunksIn(q)) /\ IsFiniteSet(ChunksIn(Tail(q)))
      /\ Cardinality(ChunksIn(Tail(q))) =
           IF Head(q) \in K THEN Cardinality(ChunksIn(q)) - 1 ELSE Cardinality(ChunksIn(q))
  BY <1>2, PlacesTail
<1>5. ChunksIn(q) = {} => ChunksIn(Tail(q)) = {} /\ Head(q).kind # "chunk"
  BY TailShifts DEF ChunksIn
<1> QED BY <1>3, <1>4, <1>5, FS_CardinalityType

LEMMA ChunksAppend ==
  ASSUME NEW q \in Seq(Event), NEW v \in Event
  PROVE  /\ Cardinality(ChunksIn(q)) \in Nat /\ Cardinality(ChunksIn(Append(q, v))) \in Nat
         /\ Cardinality(ChunksIn(Append(q, v))) =
              IF v.kind = "chunk" THEN Cardinality(ChunksIn(q)) + 1 ELSE Cardinality(ChunksIn(q))
         /\ ChunksIn(q) = {} /\ v.kind # "chunk" => ChunksIn(Append(q, v)) = {}
<1> DEFINE K == { u \in Event : u.kind = "chunk" }
<1>1. Append(q, v) \in Seq(Event)
  BY AppendProperties
<1>2. ChunksIn(q) = Places(q, K) /\ ChunksIn(Append(q, v)) = Places(Append(q, v), K)
  BY <1>1, ChunksPlaces
<1>3. v \in K <=> v.kind = "chunk"
  OBVIOUS
<1> HIDE DEF K
<1>4. /\ IsFiniteSet(ChunksIn(q)) /\ IsFiniteSet(ChunksIn(Append(q, v)))
      /\ Cardinality(ChunksIn(Append(q, v))) =
           IF v \in K THEN Cardinality(ChunksIn(q)) + 1 ELSE Cardinality(ChunksIn(q))
  BY <1>2, PlacesAppend
<1>5. ChunksIn(q) = {} /\ v.kind # "chunk" => ChunksIn(Append(q, v)) = {}
  BY AppendAdds DEF ChunksIn
<1> QED BY <1>3, <1>4, <1>5, FS_CardinalityType

(* Nothing is written and nothing counted. *)
LEMMA FirstSame ==
  ASSUME TypeInv, FirstInv, sidecar' \in {sidecar, {}},
         UNCHANGED <<status, workerEpoch, workers, chunkProgress, file, metadataInitialized,
                     numThreads, downloadedSize>>,
         \/ UNCHANGED events
         \/ events # <<>> /\ Head(events).kind # "chunk" /\ events' = Tail(events)
         \/ \E v \in Event : v.kind # "chunk" /\ Post(v)
  PROVE  FirstInv'
<1>1. events \in Seq(Event)
  BY DEF TypeInv, TypeOK, EventsOK
<1>2. /\ Cardinality(ChunksIn(events')) = Cardinality(ChunksIn(events))
      /\ ChunksIn(events) = {} => ChunksIn(events') = {}
  <2>1. CASE events # <<>> /\ Head(events).kind # "chunk" /\ events' = Tail(events)
    BY <1>1, <2>1, ChunksTail
  <2>2. CASE \E v \in Event : v.kind # "chunk" /\ Post(v)
    BY <1>1, <2>2, ChunksAppend DEF Post
  <2> QED BY <2>1, <2>2
<1>3. CountInv => CountInv'
  BY <1>2 DEF CountInv
<1>4. \A w \in workers : Careful(w) => Careful(w)'
  BY DEF Careful, Upcoming
<1>5. BeforeInv => BeforeInv'
  BY <1>2 DEF BeforeInv
<1>6. Whole(file) => Whole(file')
  OBVIOUS
<1> QED BY <1>3, <1>4, <1>5, <1>6 DEF FirstInv

(* One worker of the first generation.                                      *)
LEMMA FirstWork ==
  ASSUME TypeInv, TypeInv', EngineInv, FirstInv, workerEpoch = 0, NEW w \in workers, AStep(w)
  PROVE  FirstInv'
<1>1. ~Stale(w) /\ status = "DOWNLOADING"
  <2>1. w.epoch = workerEpoch
    BY DEF EngineInv, EpochsInv, TypeInv, TypeOK, PoolOK, Worker
  <2> QED BY <2>1 DEF Live, Stale, EngineInv, GenerationInv
<1>2. /\ UNCHANGED <<status, workerEpoch, downloadedSize>>
      /\ CountInv /\ \A u \in workers : Careful(u)
  BY <1>1, WorkerOutcome DEF WorkerFrame, control, FirstInv
<1>3. ASSUME NEW u \in workers
      PROVE  /\ u \in Worker /\ u.start \in Nat /\ u.end \in Int /\ u.start <= u.end /\ u.start \in Starts
             /\ u.pos \in Nat /\ u.end <= TotalSize - 1 /\ chunkProgress[u.start] \in Nat
             /\ u.pc \in {"reading", "writing", "storing"} => u.pos <= u.end
  BY StartsFinite DEF TypeInv, TypeOK, PoolOK, DiskOK, ChunkMap, Worker, Placed
<1>4. ASSUME NEW u \in workers, u # w PROVE Apart(u, w) /\ u.start # w.start
  <2>1. u \in Live /\ w \in Live
    BY <1>1, <1>3 DEF Live, Stale, EngineInv, EpochsInv, Worker
  <2>2. Apart(u, w)
    BY <1>4, <2>1 DEF EngineInv, GenerationInv
  <2> QED BY <1>3, <2>2 DEF Apart
<1>5. ASSUME NEW u \in workers, u # w,
             \/ UNCHANGED chunkProgress
             \/ \E k : chunkProgress' = [chunkProgress EXCEPT ![w.start] = k],
             \/ UNCHANGED file
             \/ w.start <= w.pos /\ w.pos <= w.end /\ file'.written = file.written \cup {w.pos}
      PROVE  Careful(u)'
  <2>1. chunkProgress'[u.start] = chunkProgress[u.start]
    BY <1>3, <1>4, <1>5 DEF TypeInv, TypeOK, DiskOK, ChunkMap
  <2>2. Upcoming(u)' = Upcoming(u) /\ Careful(u)
    BY <1>2, <2>1 DEF Upcoming
  <2>3. Upcoming(u) \in Int
    BY <1>3 DEF Upcoming
  <2>4. ASSUME NEW b \in Upcoming(u) .. u.end PROVE b \notin file'.written
    <3>1. b \notin file.written /\ u.start <= b /\ b <= u.end /\ b \in Int
      BY <1>3, <2>2, <2>3 DEF Careful
    <3> QED BY <1>3, <1>4, <1>5, <3>1 DEF Apart
  <2> QED BY <2>2, <2>4 DEF Careful
<1>6. ASSUME UNCHANGED file, UNCHANGED events \/ \E v \in Event : v.kind # "chunk" /\ Post(v)
      PROVE  CountInv'
  <2>1. events \in Seq(Event)
    BY DEF TypeInv, TypeOK, EventsOK
  <2>2. Cardinality(ChunksIn(events')) = Cardinality(ChunksIn(events))
    BY <1>6, <2>1, ChunksAppend DEF Post
  <2> QED BY <1>2, <1>6, <2>2 DEF CountInv
<1>7. ASSUME CountInv', \A u \in workers' : Careful(u)' PROVE FirstInv'
  BY <1>1, <1>2, <1>7 DEF FirstInv
<1>8. w.epoch \in Nat /\ \A k \in {"finished", "failed"} : [kind |-> k, epoch |-> w.epoch] \in Event
  BY <1>3 DEF Event, Worker
<1>9. Careful(w) /\ Upcoming(w) \in Int
  BY <1>2, <1>3 DEF Upcoming
<1>10. CASE WorkerBegin(w)
  <2>0. PICK v : v = [w EXCEPT !.pos = w.start + chunkProgress[w.start], !.pc = "reading"]
    OBVIOUS
  <2>1. w.pc = "queued" /\ Upcoming(w) = w.start + chunkProgress[w.start]
    BY <1>10 DEF WorkerBegin, Upcoming
  <2>2. ~(~w.ranged /\ w.start + chunkProgress[w.start] # 0)
    BY <1>9, <2>1 DEF Careful
  <2>3. workers' = (workers \ {w}) \cup {v} /\ UNCHANGED <<chunkProgress, file, events>>
    <3>1. workers' = (workers \ {w}) \cup
                     {[w EXCEPT !.pos = w.start + chunkProgress[w.start], !.pc = "reading"]}
      BY <1>10, <2>2, Zenon DEF WorkerBegin, Becomes
    <3> QED BY <1>10, <2>0, <3>1 DEF WorkerBegin
  <2>4. v.pc = "reading" /\ v.pos = Upcoming(w) /\ v.start = w.start /\ v.end = w.end
    BY <1>3, <2>0, <2>1 DEF Worker
  <2>5. Careful(v)'
    BY <1>9, <2>3, <2>4 DEF Careful, Upcoming
  <2> QED BY <1>5, <1>6, <1>7, <2>3, <2>5
<1>11. CASE WorkerRestart(w)
  BY <1>9, <1>11 DEF WorkerRestart, Careful
<1>12. CASE WorkerCheck(w)
  <2> DEFINE v == [w EXCEPT !.pc = "writing"]
  <2>1. /\ w.pc = "reading" /\ workers' = (workers \ {w}) \cup {v}
        /\ UNCHANGED <<chunkProgress, file, events>>
    BY <1>1, <1>12 DEF WorkerCheck, Becomes
  <2>2. v.pc = "writing" /\ v.pos = w.pos /\ v.start = w.start /\ v.end = w.end
    BY <1>3 DEF Worker
  <2> HIDE DEF v
  <2>3. Careful(v)'
    BY <1>9, <2>1, <2>2 DEF Careful, Upcoming
  <2> QED BY <1>5, <1>6, <1>7, <2>1, <2>3
<1>13. CASE WorkerWrite(w)
  <2>0. PICK v : v = [w EXCEPT !.pc = "storing", !.seen = chunkProgress[w.start]]
    OBVIOUS
  <2> DEFINE e == [kind |-> "chunk"]
  <2>1. /\ w.pc = "writing" /\ workers' = (workers \ {w}) \cup {v} /\ UNCHANGED chunkProgress
        /\ file' = Written(file, w.pos) /\ Post(e)
    BY <1>13, <2>0 DEF WorkerWrite, Becomes
  <2>2. v.pc = "storing" /\ v.pos = w.pos /\ v.start = w.start /\ v.end = w.end
    BY <1>3, <2>0 DEF Worker
  <2>3. w.start <= w.pos /\ w.pos <= w.end /\ w.pos \notin file.written /\ Upcoming(w) = w.pos
    BY <1>3, <1>9, <2>1 DEF Careful, Upcoming
  <2>4. file'.written = file.written \cup {w.pos}
    BY <2>1 DEF Written, TypeInv, TypeOK, DiskOK, File
  <2>5. e \in Event /\ e.kind = "chunk"
    BY DEF Event
  <2> HIDE DEF e
  <2>6. Careful(v)'
    <3>1. \A b \in w.pos + 1 .. w.end : b \notin file'.written
      BY <1>3, <1>9, <2>3, <2>4 DEF Careful
    <3> QED BY <1>3, <2>2, <2>3, <3>1 DEF Careful, Upcoming
  <2>7. CountInv'
    <3>1. events \in Seq(Event) /\ events' = Append(events, e)
      BY <2>1 DEF TypeInv, TypeOK, EventsOK, Post
    <3>2. Cardinality(ChunksIn(events')) = Cardinality(ChunksIn(events)) + 1 /\ Cardinality(ChunksIn(events)) \in Nat
      BY <2>5, <3>1, ChunksAppend
    <3>3. IsFiniteSet(file.written)
      <4>1. file.written \in SUBSET Bytes
        BY DEF TypeInv, TypeOK, DiskOK, File
      <4>2. IsFiniteSet(Bytes)
        BY SizeAssumption, FS_Interval DEF Bytes
      <4> QED BY <4>1, <4>2, FS_Subset
    <3>4. Cardinality(file'.written) = Cardinality(file.written) + 1 /\ Cardinality(file.written) \in Nat
      BY <2>3, <2>4, <3>3, FS_AddElement, FS_CardinalityType
    <3>5. downloadedSize' = downloadedSize /\ downloadedSize \in Nat
      BY <1>2 DEF TypeInv, TypeOK, CountOK
    <3> QED BY <1>2, <3>2, <3>4, <3>5 DEF CountInv
  <2> QED BY <1>5, <1>7, <2>1, <2>3, <2>4, <2>6, <2>7
<1>14. CASE WorkerStore(w)
  <2> DEFINE v == [w EXCEPT !.pos = @ + 1, !.pc = "reading"]
  <2>1. /\ w.pc = "storing" /\ UNCHANGED file
        /\ chunkProgress' = [chunkProgress EXCEPT ![w.start] = w.seen + 1]
    BY <1>14 DEF WorkerStore
  <2>2. \A u \in workers \ {w} : Careful(u)'
    BY <1>5, <2>1
  <2>3. CASE w.pos = w.end
    <3>1. workers' = workers \ {w} /\ Post([kind |-> "finished", epoch |-> w.epoch])
      BY <1>14, <2>3 DEF WorkerStore
    <3> QED BY <1>6, <1>7, <1>8, <2>1, <2>2, <3>1
  <2>4. CASE w.pos # w.end
    <3>1. workers' = (workers \ {w}) \cup {v} /\ UNCHANGED events
      BY <1>14, <2>4 DEF WorkerStore, Becomes
    <3>2. v.pc = "reading" /\ v.pos = Upcoming(w) /\ v.start = w.start /\ v.end = w.end
      BY <1>3, <2>1 DEF Worker, Upcoming
    <3> HIDE DEF v
    <3>3. Careful(v)'
      BY <1>9, <2>1, <3>2 DEF Careful, Upcoming
    <3> QED BY <1>6, <1>7, <2>1, <2>2, <3>1, <3>3
  <2> QED BY <2>3, <2>4
<1>15. CASE WorkerShortRead(w) \/ WorkerFail(w)
  <2>1. /\ workers' = workers \ {w} /\ UNCHANGED <<chunkProgress, file>>
        /\ \/ UNCHANGED events
           \/ \E k \in {"finished", "failed"} : Post([kind |-> k, epoch |-> w.epoch])
    BY <1>15 DEF WorkerShortRead, WorkerFail
  <2>2. CountInv'
    BY <1>6, <1>8, <2>1
  <2> QED BY <1>5, <1>7, <2>1, <2>2
<1> QED BY <1>10, <1>11, <1>12, <1>13, <1>14, <1>15 DEF AStep

LEMMA FirstFetched ==
  ASSUME ~HasChecksum, TypeInv, EngineInv, FirstInv, workerEpoch = 0, HandleMetadataFetched
  PROVE  FirstInv'
<1>1. Deliver("metadata") /\ events \in Seq(Event)
  BY DEF HandleMetadataFetched, TypeInv, TypeOK, EventsOK
<1>2. status = "STARTING" /\ BeforeInv
  BY <1>1, OnMetadata DEF HandleMetadataFetched, FirstInv
<1>3. workers = {} /\ ChunksIn(events') = {}
  BY <1>1, <1>2, ChunksTail DEF BeforeInv, Deliver
<1>4. /\ rangesSupported' \in BOOLEAN
      /\ numThreads' = IF rangesSupported' THEN NumThreads ELSE 1
  BY <1>2 DEF HandleMetadataFetched, ThreadsAfter, BeforeInv
<1>5. ASSUME NEW cp \in Restorable, NEW f \in File, f.written = Done(cp), NEW sc, Proceed(cp, f, sc)
      PROVE  FirstInv'
  <2>1. CASE SpawnWorkers(cp, SumOf(cp), f, sc)
    BY <1>3, <1>4, <1>5, <2>1, FirstSpawn
  <2>2. CASE FinishDownload(SumOf(cp), f, activeWorkers)
    <3>1. SumOf(cp) = Cardinality(f.written) /\ SumOf(cp) \in Nat
      BY <1>5, SumIsDone, FS_CardinalityType
    <3>2. SumOf(cp) <= Cardinality(f.written)
      BY <3>1
    <3> QED BY <2>2, <3>1, <3>2, FirstFinish
  <2> QED BY <1>5, <2>1, <2>2 DEF Proceed
<1>6. ASSUME NEW cp \in sidecar, Proceed(cp, file, sidecar) PROVE FirstInv'
  <2>1. cp \in Restorable /\ file.written = Done(cp)
    BY <1>2 DEF BeforeInv
  <2>2. file \in File
    BY DEF TypeInv, TypeOK, DiskOK
  <2> QED BY <1>5, <1>6, <2>1, <2>2
<1>7. ASSUME Proceed(NoProgress, FreshFile, {NoProgress}) PROVE FirstInv'
  <2>1. FreshFile.written = {}
    BY DEF FreshFile
  <2> QED BY <1>5, <1>7, <2>1, NothingDone, FreshType
<1> QED BY <1>6, <1>7 DEF HandleMetadataFetched

LEMMA FirstStep ==
  ASSUME ~HasChecksum, External = FALSE, TypeInv, TypeInv', EngineInv, FirstInv, [Next]_vars
  PROVE  FirstInv'
<1> USE DEF control, counters, policy, disk, pool, history
<1>1. workerEpoch \in Nat /\ events \in Seq(Event)
  BY DEF TypeInv, TypeOK, CountOK, EventsOK
<1>2. ASSUME workerEpoch' # 0 PROVE FirstInv'
  BY <1>2 DEF FirstInv
<1>3. ASSUME workerEpoch' = workerEpoch + 1 PROVE FirstInv'
  BY <1>1, <1>2, <1>3
<1>4. ASSUME UNCHANGED workerEpoch, workerEpoch # 0 PROVE FirstInv'
  BY <1>2, <1>4
<1>5. ASSUME status' \in {"STOPPED", "ERROR"} PROVE FirstInv'
  BY <1>5 DEF FirstInv
<1>6. CASE Start \/ ResumeRestored
  <2>1. /\ status \in {"PENDING", "PAUSED"} /\ status' \in {"PENDING", "STARTING"}
        /\ UNCHANGED <<workerEpoch, workers, events, metadataInitialized, numThreads, file, sidecar>>
    BY <1>6 DEF Start, ResumeRestored
  <2>2. BeforeInv => BeforeInv'
    BY <2>1 DEF BeforeInv
  <2> QED BY <1>4, <2>1, <2>2 DEF FirstInv
<1>7. CASE Pause \/ Stop \/ PrepareRetry
  BY <1>3, <1>7 DEF Pause, Stop, PrepareRetry, RetireWorkers
<1>8. CASE Resume
  <2>1. workerEpoch # 0
    BY <1>8 DEF Resume, FirstInv, BeforeInv
  <2>2. /\ rangesSupported' \in BOOLEAN /\ numThreads' \in {1, NumThreads}
        /\ SpawnWorkers(chunkProgress, downloadedSize, file, sidecar)
    BY <1>8 DEF Resume, TypeInv, TypeOK, FlagsOK, ControlOK
  <2>3. workerEpoch' \in {workerEpoch, workerEpoch + 1}
    BY <2>2, SpawnOutcome DEF TypeInv, TypeOK, CountOK, DiskOK, Spawned, Failed, Concluded
  <2> QED BY <1>3, <1>4, <2>1, <2>3
<1>9. CASE HandleMetadataFetched
  <2>1. workerEpoch' \in {workerEpoch, workerEpoch + 1}
    BY <1>9, MetadataOutcome DEF Spawned, Failed, Concluded
  <2> QED BY <1>3, <1>4, <1>9, <2>1, FirstFetched
<1>10. CASE HandleMetadataError \/ DropMetadata \/ RefuseMetadata \/ OnUnverifiable
  BY <1>5, <1>10 DEF HandleMetadataError, DropMetadata, RefuseMetadata, OnUnverifiable
<1>11. CASE OnChunkDownloaded
  <2>1. /\ events # <<>> /\ Head(events).kind = "chunk" /\ events' = Tail(events)
        /\ downloadedSize' = downloadedSize + 1 /\ downloadedSize \in Nat
        /\ UNCHANGED <<status, workerEpoch, workers, chunkProgress, file>>
    BY <1>11 DEF OnChunkDownloaded, Deliver, TypeInv, TypeOK, CountOK
  <2>2. /\ Cardinality(ChunksIn(events')) = Cardinality(ChunksIn(events)) - 1
        /\ Cardinality(ChunksIn(events)) \in Nat /\ ChunksIn(events) # {}
    BY <1>1, <2>1, ChunksTail
  <2>3. CountInv => CountInv'
    BY <2>1, <2>2 DEF CountInv
  <2>4. \A w \in workers : Careful(w) => Careful(w)'
    BY <2>1 DEF Careful, Upcoming
  <2>5. ~BeforeInv
    BY <2>2 DEF BeforeInv
  <2> QED BY <2>1, <2>3, <2>4, <2>5 DEF FirstInv, Whole
<1>12. CASE OnWorkerFinished
  <2>1. /\ events # <<>> /\ Head(events).kind = "finished" /\ events' = Tail(events)
        /\ UNCHANGED <<metadataInitialized, numThreads, downloadedSize, chunkProgress, workers>>
    BY <1>12 DEF OnWorkerFinished, Deliver
  <2>2. CASE UNCHANGED <<status, workerEpoch, file, sidecar>>
    BY <2>1, <2>2, FirstSame
  <2>3. CASE /\ status = "DOWNLOADING"
             /\ FinishDownload(downloadedSize, file, activeWorkers - 1)
    <3>1. workerEpoch' \in {workerEpoch, workerEpoch + 1}
      BY <2>3, FinishOutcome DEF Failed, Concluded
    <3>2. ASSUME workerEpoch = 0 PROVE FirstInv'
      <4>1. CountInv /\ downloadedSize \in Nat /\ file \in File
        BY <2>3, <3>2 DEF FirstInv, TypeInv, TypeOK, CountOK, DiskOK
      <4>2. Cardinality(ChunksIn(events)) \in Nat /\ Cardinality(file.written) \in Nat
        <5>1. file.written \in SUBSET Bytes /\ IsFiniteSet(Bytes)
          BY <4>1, SizeAssumption, FS_Interval DEF File, Bytes
        <5> QED BY <1>1, <2>1, <5>1, ChunksTail, FS_Subset, FS_CardinalityType
      <4>3. downloadedSize <= Cardinality(file.written)
        BY <4>1, <4>2 DEF CountInv
      <4> QED BY <2>3, <3>2, <4>1, <4>3, FirstFinish
    <3> QED BY <1>3, <1>4, <3>1, <3>2
  <2> QED BY <1>12, <2>2, <2>3 DEF OnWorkerFinished
<1>13. CASE OnWorkerError
  <2>1. /\ events # <<>> /\ Head(events).kind = "failed" /\ events' = Tail(events)
        /\ UNCHANGED <<metadataInitialized, numThreads, downloadedSize, chunkProgress, workers,
                       file, sidecar>>
    BY <1>13 DEF OnWorkerError, Deliver
  <2>2. \/ UNCHANGED <<status, workerEpoch>>
        \/ workerEpoch' = workerEpoch + 1
    BY <1>13 DEF OnWorkerError, FailWith, RetireWorkers
  <2> QED BY <1>3, <2>1, <2>2, FirstSame
<1>14. CASE OnVerified
  <2>1. status = "VERIFYING" /\ UNCHANGED workerEpoch
    BY <1>14 DEF OnVerified, Verdict
  <2> QED BY <1>4, <2>1 DEF FirstInv
<1>15. CASE DropVerdict
  <2>1. /\ events # <<>> /\ Head(events).kind # "chunk" /\ events' = Tail(events)
        /\ UNCHANGED <<control, counters, file, sidecar, workers>>
    BY <1>15 DEF DropVerdict, Deliver
  <2> QED BY <2>1, FirstSame
<1>16. CASE ProbeAnswer
  <2>1. PICK r \in probes, reply \in Replies :
          Post([kind |-> "metadata", reply |-> reply, run |-> r])
    BY <1>16 DEF ProbeAnswer
  <2> DEFINE v == [kind |-> "metadata", reply |-> reply, run |-> r]
  <2>2. v \in Event /\ v.kind # "chunk"
    BY ReplyAssumption DEF Event, TypeInv, TypeOK, PoolOK
  <2>3. UNCHANGED <<control, counters, file, sidecar, workers>>
    BY <1>16 DEF ProbeAnswer
  <2> HIDE DEF v
  <2>4. Post(v)
    BY <2>1 DEF v
  <2> QED BY <2>2, <2>3, <2>4, FirstSame
<1>17. CASE ChecksumDone
  <2>1. PICK e \in verifiers : Post([kind |-> "verified", valid |-> Whole(file), epoch |-> e])
    BY <1>17 DEF ChecksumDone
  <2>2. PICK v : v = [kind |-> "verified", valid |-> Whole(file), epoch |-> e]
    OBVIOUS
  <2>3. v \in Event /\ v.kind # "chunk" /\ Post(v)
    BY <2>1, <2>2 DEF Event, TypeInv, TypeOK, PoolOK, Whole
  <2>4. UNCHANGED <<control, counters, file, sidecar, workers>>
    BY <1>17 DEF ChecksumDone
  <2> QED BY <2>3, <2>4, FirstSame
<1>18. CASE Cleanup \/ UNCHANGED vars
  <2>1. UNCHANGED <<control, counters, file, workers, events>> /\ sidecar' \in {sidecar, {}}
    BY <1>18 DEF Cleanup, vars
  <2> QED BY <2>1, FirstSame
<1>19. CASE Elsewhere
  BY <1>19 DEF Elsewhere
<1>20. CASE WorkerStep
  <2>1. PICK w \in workers : AStep(w)
    BY <1>20 DEF WorkerStep, AStep
  <2>2. UNCHANGED workerEpoch
    BY <2>1, WorkerOutcome DEF WorkerFrame
  <2> QED BY <1>4, <2>1, <2>2, FirstWork
<1> QED BY <1>6, <1>7, <1>8, <1>9, <1>10, <1>11, <1>12, <1>13, <1>14, <1>15, <1>16, <1>17,
           <1>18, <1>19, <1>20 DEF Next, Command, Dispatch

LEMMA FirstInit == Init => FirstInv
<1> SUFFICES ASSUME Init PROVE FirstInv
  OBVIOUS
<1>1. status \in {"PENDING", "PAUSED"} /\ workers = {} /\ ChunksIn(events) = {}
      /\ ~metadataInitialized /\ numThreads = NumThreads
  BY DEF Init, Added, Restored, ChunksIn
<1>2. ASSUME sidecar # {} PROVE \E cp \in Restorable : sidecar = {cp} /\ file.written = Done(cp)
  <2>1. PICK cp \in Restorable : sidecar = {cp} /\ file = [FreshFile EXCEPT !.written = Done(cp)]
    BY <1>2 DEF Init, Added, Restored
  <2>2. file.written = Done(cp)
    BY <2>1 DEF FreshFile
  <2> QED BY <2>1, <2>2
<1> QED BY <1>1, <1>2 DEF FirstInv, BeforeInv

(* FirstGenerationIsWhole, for every instance without other programs: until *)
(* something retires the first generation, the byte count alone, without a  *)
(* checksum, is enough for COMPLETED to mean that the file is whole.        *)
THEOREM CountMeansWhole ==
  ASSUME EarlyRetry = FALSE, External = FALSE
  PROVE  Spec => []FirstGenerationIsWhole
<1>1. CASE HasChecksum
  <2>1. Spec => []VerifiedIsWhole
    BY ChecksumMeansWhole
  <2>2. VerifiedIsWhole => FirstGenerationIsWhole
    BY <1>1 DEF VerifiedIsWhole, FirstGenerationIsWhole
  <2> QED BY <2>1, <2>2, PTL
<1>2. CASE ~HasChecksum
  <2>1. Init => TypeInv /\ EngineInv /\ FirstInv
    BY TypeInit, EngineInit, FirstInit
  <2>2. TypeInv /\ EngineInv /\ FirstInv /\ [Next]_vars => TypeInv' /\ EngineInv' /\ FirstInv'
    BY <1>2, EngineStep, FirstStep
  <2>3. FirstInv => FirstGenerationIsWhole
    BY DEF FirstInv, FirstGenerationIsWhole
  <2> QED BY <2>1, <2>2, <2>3, PTL DEF Spec
<1> QED BY <1>1, <1>2
=============================================================================
