------------------------ MODULE DownloadPanelProofs ------------------------
(***************************************************************************)
(* Theorems about DownloadPanel, for any number of downloads, destinations *)
(* and limits.                                                             *)
(***************************************************************************)
EXTENDS DownloadPanel, FiniteSetTheorems, SequenceTheorems, WellFoundedInduction, TLAPS

-----------------------------------------------------------------------------
(* The queue as a sequence without repetitions.                             *)

Has(q, d) == \E i \in 1 .. Len(q) : q[i] = d

NoTwice(q) == \A i, j \in 1 .. Len(q) : q[i] = q[j] => i = j

(* What is left after the first k entries are popped. *)
LEMMA RestFacts ==
  ASSUME NEW q \in Seq(Ids), NoTwice(q), NEW k \in 0 .. Len(q)
  PROVE  /\ Rest(q, k) \in Seq(Ids)
         /\ NoTwice(Rest(q, k))
         /\ \A d \in Ids : Has(Rest(q, k), d) <=> \E i \in k + 1 .. Len(q) : q[i] = d
<1> DEFINE r == Rest(q, k)
<1>1. /\ r \in Seq(Ids)
      /\ Len(r) = Len(q) - k
      /\ \A i \in 1 .. Len(q) - k : r[i] = q[i + k]
  BY DEF Rest
<1>2. NoTwice(r)
  <2> SUFFICES ASSUME NEW i \in 1 .. Len(r), NEW j \in 1 .. Len(r), r[i] = r[j] PROVE i = j
    BY DEF NoTwice
  <2>1. i + k \in 1 .. Len(q) /\ j + k \in 1 .. Len(q)
    BY <1>1
  <2>2. q[i + k] = q[j + k]
    BY <1>1
  <2>3. i + k = j + k
    BY <2>1, <2>2 DEF NoTwice
  <2> QED BY <2>3
<1> HIDE DEF r
<1>3. ASSUME NEW d \in Ids, NEW i \in k + 1 .. Len(q), q[i] = d PROVE Has(r, d)
  <2>1. i - k \in 1 .. Len(r) /\ r[i - k] = q[i]
    BY <1>1
  <2> QED BY <1>3, <2>1 DEF Has
<1>4. ASSUME NEW d \in Ids, Has(r, d) PROVE \E i \in k + 1 .. Len(q) : q[i] = d
  <2>1. PICK i \in 1 .. Len(r) : r[i] = d
    BY <1>4 DEF Has
  <2>2. i + k \in k + 1 .. Len(q) /\ q[i + k] = d
    BY <1>1, <2>1
  <2> QED BY <2>2
<1> QED BY <1>1, <1>2, <1>3, <1>4 DEF r

(* A non-empty set of natural numbers has a least element. *)
LEMMA Least ==
  ASSUME NEW S \in SUBSET Nat, S # {}
  PROVE  \E x \in S : \A y \in S : x <= y
<1> DEFINE R == OpToRel(<, Nat)
<1>1. IsWellFoundedOn(R, Nat)
  BY NatLessThanWellFounded
<1>2. \A i, j \in Nat : i < j => <<i, j>> \in R
  BY DEF OpToRel
<1> HIDE DEF R
<1>3. PICK x \in S : \A y \in S : ~(<<y, x>> \in R)
  BY <1>1, WFMin
<1>4. \A y \in S : ~(y < x)
  BY <1>2, <1>3
<1> QED BY <1>3, <1>4

(* deque.remove takes away one entry for d. *)
LEMMA PurgedAt ==
  ASSUME NEW q \in Seq(Ids), NEW d \in Ids, Has(q, d)
  PROVE  \E n \in 1 .. Len(q) : q[n] = d /\ Purged(q, d) = RemoveAt(q, n)
<1> DEFINE at == { i \in 1 .. Len(q) : q[i] = d }
           n == Min(at)
<1>1. at # {} /\ at \in SUBSET Nat
  BY DEF Has
<1>2. \E x \in at : \A y \in at : x <= y
  BY <1>1, Least
<1>3. n \in at
  BY <1>2 DEF Min
<1>4. SelectInSeq(q, LAMBDA v : v = d) = n
  BY <1>1 DEF SelectInSeq
<1>5. Purged(q, d) = RemoveAt(q, n)
  BY <1>4 DEF Purged, RemoveFirst, Has
<1> QED BY <1>3, <1>5

(* deque.remove takes away exactly the entry it is asked for. *)
LEMMA PurgedFacts ==
  ASSUME NEW q \in Seq(Ids), NoTwice(q), NEW d \in Ids, Has(q, d)
  PROVE  /\ Purged(q, d) \in Seq(Ids)
         /\ NoTwice(Purged(q, d))
         /\ \A c \in Ids : Has(Purged(q, d), c) <=> Has(q, c) /\ c # d
<1>1. PICK n \in 1 .. Len(q) : q[n] = d /\ Purged(q, d) = RemoveAt(q, n)
  BY PurgedAt
<1> DEFINE a == SubSeq(q, 1, n - 1)
           b == SubSeq(q, n + 1, Len(q))
<1>2. Purged(q, d) = a \o b
  BY <1>1 DEF RemoveAt
<1> DEFINE r == a \o b
<1>3. /\ a \in Seq(Ids) /\ Len(a) = n - 1
      /\ \A i \in 1 .. n - 1 : a[i] = q[i]
  BY <1>1
<1>4. /\ b \in Seq(Ids) /\ Len(b) = Len(q) - n
      /\ \A i \in 1 .. Len(q) - n : b[i] = q[i + n]
  BY <1>1
<1>5. /\ r \in Seq(Ids) /\ Len(r) = Len(q) - 1
      /\ \A i \in 1 .. Len(q) - 1 : r[i] = IF i < n THEN q[i] ELSE q[i + 1]
  <2> HIDE DEF a, b
  <2>1. r \in Seq(Ids) /\ Len(r) = Len(a) + Len(b)
    BY <1>3, <1>4, ConcatProperties
  <2>2. \A i \in 1 .. Len(a) + Len(b) : r[i] = IF i <= Len(a) THEN a[i] ELSE b[i - Len(a)]
    BY <1>3, <1>4, ConcatProperties
  <2> QED BY <1>1, <1>3, <1>4, <2>1, <2>2
<1> HIDE DEF a, b, r
<1>6. NoTwice(r)
  BY <1>1, <1>5 DEF NoTwice
<1>7. ASSUME NEW c \in Ids, Has(q, c), c # d PROVE Has(r, c)
  <2>1. PICK i \in 1 .. Len(q) : q[i] = c
    BY <1>7 DEF Has
  <2>2. CASE i < n
    BY <1>1, <1>5, <2>1, <2>2 DEF Has
  <2>3. CASE i > n
    <3>1. i - 1 \in 1 .. Len(r) /\ r[i - 1] = c
      BY <1>1, <1>5, <2>1, <2>3
    <3> QED BY <3>1 DEF Has
  <2> QED BY <1>1, <1>7, <2>1, <2>2, <2>3
<1>8. ASSUME NEW c \in Ids, Has(r, c) PROVE Has(q, c) /\ c # d
  <2>1. PICK i \in 1 .. Len(r) : r[i] = c
    BY <1>8 DEF Has
  <2>2. CASE i < n
    BY <1>1, <1>5, <2>1, <2>2 DEF Has, NoTwice
  <2>3. CASE i >= n
    <3>1. i + 1 \in 1 .. Len(q) /\ q[i + 1] = c /\ i + 1 # n
      BY <1>1, <1>5, <2>1, <2>3
    <3> QED BY <1>1, <3>1 DEF Has, NoTwice
  <2> QED BY <1>1, <1>5, <2>1, <2>2, <2>3
<1> QED BY <1>2, <1>5, <1>6, <1>7, <1>8 DEF r

(* What joins the end of the queue. *)
LEMMA AppendFacts ==
  ASSUME NEW q \in Seq(Ids), NoTwice(q), NEW d \in Ids, ~Has(q, d)
  PROVE  /\ Append(q, d) \in Seq(Ids)
         /\ NoTwice(Append(q, d))
         /\ \A c \in Ids : Has(Append(q, d), c) <=> Has(q, c) \/ c = d
<1> DEFINE r == Append(q, d)
<1>1. /\ r \in Seq(Ids) /\ Len(r) = Len(q) + 1
      /\ \A i \in 1 .. Len(q) : r[i] = q[i]
      /\ r[Len(q) + 1] = d
  OBVIOUS
<1> HIDE DEF r
<1>2. NoTwice(r)
  <2> SUFFICES ASSUME NEW i \in 1 .. Len(r), NEW j \in 1 .. Len(r), r[i] = r[j] PROVE i = j
    BY DEF NoTwice
  <2>1. CASE i \in 1 .. Len(q) /\ j \in 1 .. Len(q)
    BY <1>1, <2>1 DEF NoTwice
  <2>2. CASE i = Len(q) + 1 /\ j \in 1 .. Len(q)
    BY <1>1, <2>2 DEF Has
  <2>3. CASE j = Len(q) + 1 /\ i \in 1 .. Len(q)
    BY <1>1, <2>3 DEF Has
  <2> QED BY <1>1, <2>1, <2>2, <2>3
<1>3. ASSUME NEW c \in Ids, Has(q, c) PROVE Has(r, c)
  <2>1. PICK i \in 1 .. Len(q) : q[i] = c
    BY <1>3 DEF Has
  <2> QED BY <1>1, <2>1 DEF Has
<1>4. Has(r, d)
  BY <1>1 DEF Has
<1>5. ASSUME NEW c \in Ids, Has(r, c) PROVE Has(q, c) \/ c = d
  <2>1. PICK i \in 1 .. Len(r) : r[i] = c
    BY <1>5 DEF Has
  <2>2. CASE i \in 1 .. Len(q)
    BY <1>1, <2>1, <2>2 DEF Has
  <2>3. CASE i = Len(q) + 1
    BY <1>1, <2>1, <2>3
  <2> QED BY <1>1, <2>1, <2>2, <2>3
<1> QED BY <1>1, <1>2, <1>3, <1>4, <1>5 DEF r

-----------------------------------------------------------------------------
(* Types.                                                                   *)

(* Removing a download from the queue keeps a queue of downloads. *)
LEMMA PurgedType ==
  ASSUME NEW q \in Seq(Ids), NEW d \in Ids
  PROVE  Purged(q, d) \in Seq(Ids)
<1>1. CASE Has(q, d)
  <2>1. PICK n \in 1 .. Len(q) : Purged(q, d) = RemoveAt(q, n)
    BY <1>1, PurgedAt
  <2>2. SubSeq(q, 1, n - 1) \in Seq(Ids) /\ SubSeq(q, n + 1, Len(q)) \in Seq(Ids)
    OBVIOUS
  <2> QED BY <2>1, <2>2, ConcatProperties DEF RemoveAt
<1>2. CASE ~Has(q, d)
  BY <1>2 DEF Has, Purged, RemoveFirst
<1> QED BY <1>1, <1>2

(* Starting downloads from the front of the queue. *)
LEMMA LaunchType ==
  ASSUME NEW q \in Seq(Ids), NEW s \in SUBSET Ids, NEW st \in [Ids -> Status],
         NEW pr \in [Ids -> Nat], NEW k \in 0 .. Len(q),
         Launch(Startable(q, k, st), s, st, pr)
  PROVE  /\ slots' \in SUBSET Ids
         /\ status' \in [Ids -> Status]
         /\ probes' \in [Ids -> Nat]
         /\ Rest(q, k) \in Seq(Ids)
<1>1. Startable(q, k, st) \subseteq Ids
  BY DEF Startable
<1>2. Rest(q, k) \in Seq(Ids)
  BY DEF Rest
<1>3. slots' \in SUBSET Ids
  BY <1>1 DEF Launch
<1>4. status' \in [Ids -> Status]
  <2>1. "STARTING" \in Status
    BY DEF Status, Active
  <2> QED BY <2>1 DEF Launch
<1>5. probes' \in [Ids -> Nat]
  BY DEF Launch
<1> QED BY <1>2, <1>3, <1>4, <1>5

(* process_queue leaves slots, statuses, probes and queue of their types. *)
LEMMA ProcessType ==
  ASSUME NEW q \in Seq(Ids), NEW s \in SUBSET Ids, NEW st \in [Ids -> Status],
         NEW pr \in [Ids -> Nat], ProcessQueue(q, s, st, pr)
  PROVE  /\ slots' \in SUBSET Ids
         /\ status' \in [Ids -> Status]
         /\ probes' \in [Ids -> Nat]
         /\ queue' \in Seq(Ids)
<1>1. PICK k \in 0 .. Len(q) : /\ Launch(Startable(q, k, st), s, st, pr)
                               /\ queue' = Rest(q, k)
  BY DEF ProcessQueue
<1> QED BY <1>1, LaunchType

(* A download ends. *)
LEMMA FinishSlotType ==
  ASSUME TypeOK, NEW d \in Ids, NEW st \in [Ids -> Status], NEW pr \in [Ids -> Nat],
         FinishSlot(d, st, pr)
  PROVE  /\ slots' \in SUBSET Ids
         /\ status' \in [Ids -> Status]
         /\ probes' \in [Ids -> Nat]
         /\ queue' \in Seq(Ids)
<1>1. CASE d \in managers
  <2>1. SlotsWithout(d) \in SUBSET Ids /\ queue \in Seq(Ids)
    BY DEF SlotsWithout, TypeOK
  <2> QED BY <1>1, <2>1, ProcessType DEF FinishSlot
<1>2. CASE d \notin managers
  BY <1>2 DEF FinishSlot, TypeOK
<1> QED BY <1>1, <1>2

(* The engine of a download changes its status. *)
LEMMA BecomesType ==
  ASSUME TypeOK, NEW d \in Ids, NEW x \in Status, NEW pr \in [Ids -> Nat], Becomes(d, x, pr)
  PROVE  /\ slots' \in SUBSET Ids
         /\ status' \in [Ids -> Status]
         /\ probes' \in [Ids -> Nat]
         /\ queue' \in Seq(Ids)
<1> DEFINE st == [status EXCEPT ![d] = x]
<1>1. st \in [Ids -> Status]
  BY DEF TypeOK
<1>2. CASE x \in Terminal
  BY <1>1, <1>2, FinishSlotType DEF Becomes
<1>3. CASE x \notin Terminal
  BY <1>1, <1>3 DEF Becomes, TypeOK
<1> QED BY <1>2, <1>3

LEMMA TypeInit == Init => TypeOK
<1> SUFFICES ASSUME Init PROVE TypeOK
  OBVIOUS
<1>1. 1 \in 1 .. MaxDownloads + 1
  BY MaxAssumption
<1>2. "NEW" \in Status
  BY DEF Status
<1>3. queue \in Seq(Ids)
  BY DEF Init
<1>4. /\ status \in [Ids -> Status]
      /\ probes \in [Ids -> Nat]
  BY <1>2 DEF Init
<1> QED BY <1>1, <1>3, <1>4 DEF Init, TypeOK

LEMMA TypeStep == TypeOK /\ [Next]_vars => TypeOK'
<1> SUFFICES ASSUME TypeOK, [Next]_vars PROVE TypeOK'
  OBVIOUS
<1>0. /\ {"PENDING", "DOWNLOADING", "VERIFYING", "COMPLETED", "ERROR", "STOPPED", "PAUSED"}
           \subseteq Status
      /\ RestoredAsIs \subseteq Status
  BY DEF Status, Active, Terminal, RestoredAsIs
<1>1. CASE LoadRecord
  <2>1. nextId \in Ids
    BY <1>1 DEF LoadRecord
  <2>2. nextId + 1 \in 1 .. MaxDownloads + 1
    BY <2>1, MaxAssumption DEF Ids
  <2>3. Append(queue, nextId) \in Seq(Ids)
    BY <2>1 DEF TypeOK
  <2>4. status' \in [Ids -> Status]
    BY <1>0, <1>1, <2>1 DEF LoadRecord, TypeOK
  <2>5. queue' \in Seq(Ids)
    BY <1>1, <2>3 DEF LoadRecord, TypeOK
  <2>6. managers' \in SUBSET Ids /\ scheduled' \in SUBSET Ids
    BY <1>1, <2>1 DEF LoadRecord, TypeOK
  <2> QED BY <1>1, <2>2, <2>4, <2>5, <2>6 DEF LoadRecord, TypeOK
<1>2. CASE LoadDone
  <2>1. /\ queue \in Seq(Ids) /\ slots \in SUBSET Ids
        /\ status \in [Ids -> Status] /\ probes \in [Ids -> Nat]
    BY DEF TypeOK
  <2>2. /\ queue' \in Seq(Ids) /\ slots' \in SUBSET Ids
        /\ status' \in [Ids -> Status] /\ probes' \in [Ids -> Nat]
    BY <1>2, <2>1, ProcessType DEF LoadDone
  <2> QED BY <1>2, <2>2 DEF LoadDone, TypeOK
<1>3. CASE Add
  <2> DEFINE st == [status EXCEPT ![nextId] = "PENDING"]
  <2>1. nextId \in Ids
    BY <1>3 DEF Add
  <2>2. nextId + 1 \in 1 .. MaxDownloads + 1
    BY <2>1, MaxAssumption DEF Ids
  <2>3. /\ Append(queue, nextId) \in Seq(Ids)
        /\ slots \in SUBSET Ids /\ probes \in [Ids -> Nat]
    BY <2>1 DEF TypeOK
  <2>4. st \in [Ids -> Status]
    BY <1>0, <2>1 DEF TypeOK
  <2>5. /\ queue' \in Seq(Ids) /\ slots' \in SUBSET Ids
        /\ status' \in [Ids -> Status] /\ probes' \in [Ids -> Nat]
    <3>1. CASE ProcessQueue(Append(queue, nextId), slots, st, probes)
      BY <2>3, <2>4, <3>1, ProcessType
    <3>2. CASE status' = st /\ UNCHANGED <<probes, queue, slots>>
      BY <2>4, <3>2 DEF TypeOK
    <3> QED BY <1>3, <3>1, <3>2 DEF Add
  <2>6. managers' \in SUBSET Ids /\ scheduled' \in SUBSET Ids
    BY <1>3, <2>1 DEF Add, TypeOK
  <2> QED BY <1>3, <2>2, <2>5, <2>6 DEF Add, TypeOK
<1>4. ASSUME NEW d \in Ids, OnScheduleDue(d) PROVE TypeOK'
  <2>1. /\ Append(queue, d) \in Seq(Ids)
        /\ slots \in SUBSET Ids /\ status \in [Ids -> Status] /\ probes \in [Ids -> Nat]
    BY DEF TypeOK
  <2>2. /\ queue' \in Seq(Ids) /\ slots' \in SUBSET Ids
        /\ status' \in [Ids -> Status] /\ probes' \in [Ids -> Nat]
    <3>1. CASE d \in managers
      BY <1>4, <2>1, <3>1, ProcessType DEF OnScheduleDue
    <3>2. CASE d \notin managers
      BY <1>4, <3>2 DEF OnScheduleDue, TypeOK
    <3> QED BY <3>1, <3>2
  <2> QED BY <1>4, <2>2 DEF OnScheduleDue, TypeOK
<1>5. ASSUME NEW d \in Ids, probes[d] > 0 PROVE Answered(d) \in [Ids -> Nat]
  BY <1>5 DEF Answered, TypeOK
<1>6. ASSUME NEW d \in Ids, Engine(d) PROVE TypeOK'
  <2>1. CASE MetadataFetched(d)
    <3>1. PICK x \in { "DOWNLOADING", "VERIFYING", "COMPLETED", "ERROR" } :
            Becomes(d, x, Answered(d))
      BY <2>1 DEF MetadataFetched
    <3>2. /\ queue' \in Seq(Ids) /\ slots' \in SUBSET Ids
          /\ status' \in [Ids -> Status] /\ probes' \in [Ids -> Nat]
      BY <1>0, <1>5, <2>1, <3>1, BecomesType DEF MetadataFetched
    <3> QED BY <2>1, <3>2 DEF MetadataFetched, Frame, TypeOK
  <2>2. CASE MetadataFailed(d)
    <3>1. /\ queue' \in Seq(Ids) /\ slots' \in SUBSET Ids
          /\ status' \in [Ids -> Status] /\ probes' \in [Ids -> Nat]
      BY <1>0, <1>5, <2>2, BecomesType DEF MetadataFailed
    <3> QED BY <2>2, <3>1 DEF MetadataFailed, Frame, TypeOK
  <2>3. CASE MetadataDropped(d)
    BY <1>5, <2>3 DEF MetadataDropped, Frame, TypeOK
  <2>4. CASE EngineEnds(d)
    <3>1. PICK x \in { "VERIFYING", "COMPLETED", "ERROR" } : Becomes(d, x, probes)
      BY <2>4 DEF EngineEnds
    <3>2. probes \in [Ids -> Nat]
      BY DEF TypeOK
    <3>3. /\ queue' \in Seq(Ids) /\ slots' \in SUBSET Ids
          /\ status' \in [Ids -> Status] /\ probes' \in [Ids -> Nat]
      BY <1>0, <3>1, <3>2, BecomesType
    <3> QED BY <2>4, <3>3 DEF EngineEnds, Frame, TypeOK
  <2> QED BY <1>6, <2>1, <2>2, <2>3, <2>4 DEF Engine
<1>7. ASSUME NEW d \in Ids PROVE Enqueued(d) \in Seq(Ids)
  BY DEF Enqueued, TypeOK
<1>8. ASSUME NEW d \in Ids, NEW x \in Status PROVE [status EXCEPT ![d] = x] \in [Ids -> Status]
  BY DEF TypeOK
<1>9. slots \in SUBSET Ids /\ probes \in [Ids -> Nat] /\ status \in [Ids -> Status]
  BY DEF TypeOK
<1>10. ASSUME NEW d \in Ids, Command(d) PROVE TypeOK'
  <2>1. CASE Pause(d)
    <3>1. status' \in [Ids -> Status]
      BY <1>0, <1>8, <1>9, <2>1 DEF Pause
    <3> QED BY <2>1, <3>1 DEF Pause, Frame, TypeOK
  <2>2. CASE Resume(d)
    <3>1. PICK x \in { "DOWNLOADING", "VERIFYING", "COMPLETED", "ERROR" } : Becomes(d, x, probes)
      BY <2>2 DEF Resume
    <3>2. /\ queue' \in Seq(Ids) /\ slots' \in SUBSET Ids
          /\ status' \in [Ids -> Status] /\ probes' \in [Ids -> Nat]
      BY <1>0, <1>9, <3>1, BecomesType
    <3> QED BY <2>2, <3>2 DEF Resume, Frame, TypeOK
  <2>3. ASSUME ProcessQueue(Enqueued(d), slots, [status EXCEPT ![d] = "PENDING"], probes)
        PROVE  /\ queue' \in Seq(Ids) /\ slots' \in SUBSET Ids
               /\ status' \in [Ids -> Status] /\ probes' \in [Ids -> Nat]
    BY <1>0, <1>7, <1>8, <1>9, <2>3, ProcessType
  <2>4. CASE ResumeRestored(d)
    BY <2>3, <2>4 DEF ResumeRestored, Frame, TypeOK
  <2>5. CASE Retry(d)
    BY <2>3, <2>5 DEF Retry, Frame, TypeOK
  <2>6. CASE Stop(d)
    <3>1. /\ queue' \in Seq(Ids) /\ slots' \in SUBSET Ids
          /\ status' \in [Ids -> Status] /\ probes' \in [Ids -> Nat]
      BY <1>0, <1>8, <1>9, <2>6, FinishSlotType DEF Stop
    <3> QED BY <2>6, <3>1 DEF Stop, Frame, TypeOK
  <2>7. CASE RemoveDownload(d)
    <3> DEFINE st == IF status[d] \in Stoppable THEN [status EXCEPT ![d] = "STOPPED"]
                                                ELSE status
    <3>1. st \in [Ids -> Status] /\ SlotsWithout(d) \in SUBSET Ids /\ queue \in Seq(Ids)
      BY <1>0, <1>8, <1>9 DEF SlotsWithout, TypeOK
    <3>2. PICK k \in 0 .. Len(queue) :
             /\ Launch(Startable(queue, k, st), SlotsWithout(d), st, probes)
             /\ queue' = Purged(Rest(queue, k), d)
      BY <2>7 DEF RemoveDownload
    <3> HIDE DEF st
    <3>3. /\ Rest(queue, k) \in Seq(Ids) /\ slots' \in SUBSET Ids
          /\ status' \in [Ids -> Status] /\ probes' \in [Ids -> Nat]
      BY <1>9, <3>1, <3>2, LaunchType
    <3>4. queue' \in Seq(Ids)
      BY <3>2, <3>3, PurgedType
    <3> QED BY <2>7, <3>3, <3>4 DEF RemoveDownload, TypeOK
  <2> QED BY <1>10, <2>1, <2>2, <2>4, <2>5, <2>6, <2>7 DEF Command
<1>11. ASSUME NEW n \in Limits, SetLimit(n) PROVE TypeOK'
  BY <1>11 DEF SetLimit, engines, TypeOK
<1>12. CASE UNCHANGED vars
  BY <1>12 DEF vars, TypeOK
<1> QED BY <1>1, <1>2, <1>3, <1>4, <1>6, <1>10, <1>11, <1>12 DEF Next

(* Every variable keeps its type, whatever the session, the commands, the   *)
(* engines and the clock do, for any number of downloads and any limits.    *)
THEOREM TypeCorrect == Spec => []TypeOK
BY TypeInit, TypeStep, PTL DEF Spec

-----------------------------------------------------------------------------
(* Slots, queue and destinations.  The invariant is stated of an arbitrary  *)
(* list ms, statuses st, initialized set ini, probes pr, queue q, slots s   *)
(* and schedule sch, because a handler goes through intermediate states:    *)
(* it changes one status and then pulls the queue.                          *)

Holding(x, i) == x \in Active \/ (x = "PAUSED" /\ i)

(* What the engines of the downloads are known to be doing: nothing yet for *)
(* those not created, nothing that holds a slot for those no longer listed, *)
(* and one unanswered probe at most, which a start or a stop leaves.        *)
EnginesOK(n, ms, st, ini, pr) ==
  \A d \in Ids :
    /\ d \in ms => d < n /\ st[d] # "NEW"
    /\ d \notin ms => st[d] \in Terminal \cup { "NEW", "PENDING" }
    /\ ~(d < n) => st[d] = "NEW" /\ d \notin ini /\ pr[d] = 0
    /\ pr[d] # 0 => pr[d] = 1 /\ st[d] \in { "STARTING", "STOPPED" }
    /\ st[d] = "DOWNLOADING" => d \in ini

SlotsOK(ms, st, ini, s) ==
  \A d \in Ids : d \in s <=> d \in ms /\ Holding(st[d], d \in ini)

LineOK(ms, st, q, sch) ==
  /\ NoTwice(q)
  /\ \A d \in Ids : Has(q, d) <=> d \in ms /\ st[d] = "PENDING" /\ d \notin sch
  /\ \A d \in Ids : d \in sch => d \in ms /\ st[d] = "PENDING"

PathsOK(ms, st) ==
  \A c, d \in Ids : c # d /\ c \in ms /\ d \in ms /\ st[c] \notin Terminal /\ st[d] \notin Terminal
                      => path[c] # path[d]

ListInv == /\ EnginesOK(nextId, managers, status, initialized, probes)
           /\ SlotsOK(managers, status, initialized, slots)
           /\ LineOK(managers, status, queue, scheduled)
           /\ PathsOK(managers, status)

(* Pulling k entries from the queue keeps all of it.                        *)
LEMMA LaunchKeeps ==
  ASSUME NEW ms, NEW ini, NEW sch, NEW n \in Nat,
         NEW q \in Seq(Ids), NEW s \in SUBSET Ids, NEW st \in [Ids -> Status],
         NEW pr \in [Ids -> Nat], NEW k \in 0 .. Len(q),
         EnginesOK(n, ms, st, ini, pr), SlotsOK(ms, st, ini, s), LineOK(ms, st, q, sch),
         PathsOK(ms, st),
         Launch(Startable(q, k, st), s, st, pr)
  PROVE  /\ EnginesOK(n, ms, status', ini, probes')
         /\ SlotsOK(ms, status', ini, slots')
         /\ LineOK(ms, status', Rest(q, k), sch)
         /\ PathsOK(ms, status')
<1> DEFINE up == Startable(q, k, st)
<1>1. ASSUME NEW d \in Ids
      PROVE  d \in up <=> st[d] = "PENDING" /\ \E i \in 1 .. k : q[i] = d
  BY DEF Startable
<1>2. ASSUME NEW d \in up PROVE d \in Ids /\ st[d] = "PENDING" /\ d \in ms /\ d \notin sch
  <2>1. d \in Ids /\ st[d] = "PENDING" /\ \E i \in 1 .. k : q[i] = d
    BY DEF Startable
  <2>2. Has(q, d)
    BY <2>1 DEF Has
  <2> QED BY <2>1, <2>2 DEF LineOK
<1>3. /\ slots' = s \cup up
      /\ \A d \in Ids : status'[d] = IF d \in up THEN "STARTING" ELSE st[d]
      /\ \A d \in Ids : probes'[d] = IF d \in up THEN pr[d] + 1 ELSE pr[d]
  BY DEF Launch
<1>4. /\ NoTwice(q)
      /\ \A d \in Ids : Has(Rest(q, k), d) <=> \E i \in k + 1 .. Len(q) : q[i] = d
      /\ NoTwice(Rest(q, k))
  BY RestFacts DEF LineOK
<1> HIDE DEF up
<1>5. ASSUME NEW d \in Ids PROVE Has(Rest(q, k), d) <=> Has(q, d) /\ d \notin up
  <2>1. ASSUME Has(Rest(q, k), d) PROVE Has(q, d) /\ d \notin up
    <3>1. PICK i \in k + 1 .. Len(q) : q[i] = d
      BY <1>4, <2>1
    <3>2. \A j \in 1 .. k : q[j] # d
      BY <1>4, <3>1 DEF NoTwice
    <3> QED BY <1>1, <3>1, <3>2 DEF Has
  <2>2. ASSUME Has(q, d), d \notin up PROVE Has(Rest(q, k), d)
    <3>1. PICK i \in 1 .. Len(q) : q[i] = d
      BY <2>2 DEF Has
    <3>2. st[d] = "PENDING"
      BY <2>2 DEF LineOK
    <3>3. i \in k + 1 .. Len(q)
      BY <1>1, <2>2, <3>1, <3>2
    <3> QED BY <1>4, <3>1, <3>3
  <2> QED BY <2>1, <2>2
<1>6. EnginesOK(n, ms, status', ini, probes')
  <2> SUFFICES ASSUME NEW d \in Ids
               PROVE  /\ d \in ms => d < n /\ status'[d] # "NEW"
                      /\ d \notin ms => status'[d] \in Terminal \cup { "NEW", "PENDING" }
                      /\ ~(d < n) => status'[d] = "NEW" /\ d \notin ini /\ probes'[d] = 0
                      /\ probes'[d] # 0 => /\ probes'[d] = 1
                                           /\ status'[d] \in { "STARTING", "STOPPED" }
                      /\ status'[d] = "DOWNLOADING" => d \in ini
    BY DEF EnginesOK
  <2>1. CASE d \in up
    <3>1. /\ d \in ms /\ d < n /\ pr[d] = 0
      BY <1>2, <2>1 DEF EnginesOK
    <3>2. status'[d] = "STARTING" /\ probes'[d] = 1
      BY <1>3, <2>1, <3>1
    <3> QED BY <3>1, <3>2
  <2>2. CASE d \notin up
    <3>1. status'[d] = st[d] /\ probes'[d] = pr[d]
      BY <1>3, <2>2
    <3> QED BY <3>1 DEF EnginesOK
  <2> QED BY <2>1, <2>2
<1>7. SlotsOK(ms, status', ini, slots')
  <2> SUFFICES ASSUME NEW d \in Ids
               PROVE  d \in slots' <=> d \in ms /\ Holding(status'[d], d \in ini)
    BY DEF SlotsOK
  <2>1. CASE d \in up
    BY <1>2, <1>3, <2>1 DEF Holding, Active
  <2>2. CASE d \notin up
    BY <1>3, <2>2 DEF SlotsOK
  <2> QED BY <2>1, <2>2
<1>8. LineOK(ms, status', Rest(q, k), sch)
  <2>1. ASSUME NEW d \in Ids
        PROVE  Has(Rest(q, k), d) <=> d \in ms /\ status'[d] = "PENDING" /\ d \notin sch
    <3>1. Has(q, d) <=> d \in ms /\ st[d] = "PENDING" /\ d \notin sch
      BY DEF LineOK
    <3>2. CASE d \in up
      BY <1>3, <1>5, <3>2
    <3>3. CASE d \notin up
      BY <1>3, <1>5, <3>1, <3>3
    <3> QED BY <3>2, <3>3
  <2>2. ASSUME NEW d \in Ids, d \in sch PROVE d \in ms /\ status'[d] = "PENDING"
    BY <1>2, <1>3, <2>2 DEF LineOK
  <2> QED BY <1>4, <2>1, <2>2 DEF LineOK
<1>9. PathsOK(ms, status')
  <2>1. \A d \in Ids : status'[d] \notin Terminal => st[d] \notin Terminal
    BY <1>2, <1>3 DEF Terminal
  <2> QED BY <2>1 DEF PathsOK
<1> QED BY <1>6, <1>7, <1>8, <1>9

LEMMA ProcessKeeps ==
  ASSUME NEW ms, NEW ini, NEW sch, NEW n \in Nat,
         NEW q \in Seq(Ids), NEW s \in SUBSET Ids, NEW st \in [Ids -> Status],
         NEW pr \in [Ids -> Nat],
         EnginesOK(n, ms, st, ini, pr), SlotsOK(ms, st, ini, s), LineOK(ms, st, q, sch),
         PathsOK(ms, st),
         ProcessQueue(q, s, st, pr)
  PROVE  /\ EnginesOK(n, ms, status', ini, probes')
         /\ SlotsOK(ms, status', ini, slots')
         /\ LineOK(ms, status', queue', sch)
         /\ PathsOK(ms, status')
<1>1. PICK k \in 0 .. Len(q) : /\ Launch(Startable(q, k, st), s, st, pr)
                               /\ queue' = Rest(q, k)
  BY DEF ProcessQueue
<1> QED BY <1>1, LaunchKeeps

(* An engine that runs, or a paused one, moves on or ends.                  *)
LEMMA BecomesKeeps ==
  ASSUME TypeOK, ListInv, NEW d \in Ids, NEW ini, NEW pr \in [Ids -> Nat],
         NEW x \in { "DOWNLOADING", "VERIFYING", "COMPLETED", "ERROR", "STOPPED" },
         status[d] \in Active \cup { "PAUSED" },
         x \notin Terminal => Holding(status[d], d \in initialized) /\ d \in ini,
         \A c \in Ids : c # d => pr[c] = probes[c] /\ (c \in ini <=> c \in initialized),
         pr[d] # 0 => pr[d] = 1 /\ x = "STOPPED",
         Becomes(d, x, pr)
  PROVE  /\ EnginesOK(nextId, managers, status', ini, probes')
         /\ SlotsOK(managers, status', ini, slots')
         /\ LineOK(managers, status', queue', scheduled)
         /\ PathsOK(managers, status')
<1> DEFINE st == [status EXCEPT ![d] = x]
<1>1. /\ status \in [Ids -> Status] /\ queue \in Seq(Ids) /\ slots \in SUBSET Ids
      /\ nextId \in Nat
  BY MaxAssumption DEF TypeOK
<1>2. /\ st \in [Ids -> Status]
      /\ st[d] = x
      /\ \A c \in Ids : c # d => st[c] = status[c]
  BY <1>1 DEF Status, Active, Terminal
<1>3. x # "NEW" /\ x # "PENDING" /\ x # "STARTING" /\ x # "PAUSED" /\ status[d] \notin Terminal
      /\ status[d] # "PENDING" /\ status[d] # "NEW"
  BY DEF Active, Terminal
<1>4. d \in managers /\ d < nextId
  BY <1>3 DEF ListInv, EnginesOK
<1> HIDE DEF st
<1>5. EnginesOK(nextId, managers, st, ini, pr)
  <2>1. ASSUME NEW c \in Ids, c # d
        PROVE  /\ c \in managers => c < nextId /\ st[c] # "NEW"
               /\ c \notin managers => st[c] \in Terminal \cup { "NEW", "PENDING" }
               /\ ~(c < nextId) => st[c] = "NEW" /\ c \notin ini /\ pr[c] = 0
               /\ pr[c] # 0 => pr[c] = 1 /\ st[c] \in { "STARTING", "STOPPED" }
               /\ st[c] = "DOWNLOADING" => c \in ini
    BY <1>2, <2>1 DEF ListInv, EnginesOK
  <2>2. st[d] = "DOWNLOADING" => d \in ini
    BY <1>2 DEF Terminal
  <2> QED BY <1>2, <1>3, <1>4, <2>1, <2>2 DEF EnginesOK
<1>6. PathsOK(managers, st)
  <2>1. \A c \in Ids : st[c] \notin Terminal => status[c] \notin Terminal
    BY <1>2, <1>3
  <2> QED BY <2>1 DEF ListInv, PathsOK
<1>7. LineOK(managers, st, queue, scheduled)
  <2>1. \A c \in Ids : st[c] = "PENDING" <=> status[c] = "PENDING"
    BY <1>2, <1>3
  <2> QED BY <2>1 DEF ListInv, LineOK
<1>8. CASE x \in Terminal
  <2>1. ProcessQueue(queue, SlotsWithout(d), st, pr)
    BY <1>4, <1>8 DEF Becomes, FinishSlot, st
  <2>2. SlotsOK(managers, st, ini, SlotsWithout(d))
    <3>1. ASSUME NEW c \in Ids, c # d
          PROVE  c \in SlotsWithout(d) <=> c \in managers /\ Holding(st[c], c \in ini)
      BY <1>2, <3>1 DEF SlotsWithout, ListInv, SlotsOK, Holding
    <3>2. d \notin SlotsWithout(d) /\ ~Holding(st[d], d \in ini)
      BY <1>2, <1>8 DEF SlotsWithout, Holding, Terminal, Active
    <3> QED BY <3>1, <3>2 DEF SlotsOK
  <2>3. SlotsWithout(d) \in SUBSET Ids
    BY <1>1 DEF SlotsWithout
  <2> QED BY <1>1, <1>2, <1>5, <1>6, <1>7, <2>1, <2>2, <2>3, ProcessKeeps
<1>9. CASE x \notin Terminal
  <2>1. status' = st /\ probes' = pr /\ UNCHANGED <<queue, slots>>
    BY <1>9 DEF Becomes, st
  <2>2. SlotsOK(managers, st, ini, slots)
    <3>1. ASSUME NEW c \in Ids, c # d
          PROVE  c \in slots <=> c \in managers /\ Holding(st[c], c \in ini)
      BY <1>2, <3>1 DEF ListInv, SlotsOK, Holding
    <3>2. Holding(st[d], d \in ini)
      BY <1>2, <1>9 DEF Holding, Terminal, Active
    <3>3. d \in slots
      BY <1>4, <1>9 DEF ListInv, SlotsOK
    <3> QED BY <1>4, <3>1, <3>2, <3>3 DEF SlotsOK
  <2> QED BY <1>5, <1>6, <1>7, <2>1, <2>2
<1> QED BY <1>8, <1>9

(* A download that ended, or one restored as paused, joins the queue.       *)
LEMMA EnqueuedKeeps ==
  ASSUME TypeOK, ListInv, NEW d \in managers, probes[d] = 0,
         status[d] \in Terminal \cup { "PAUSED" },
         status[d] = "PAUSED" => d \notin initialized,
         status[d] \in Terminal => ~PathConflict(d),
         ProcessQueue(Enqueued(d), slots, [status EXCEPT ![d] = "PENDING"], probes)
  PROVE  /\ EnginesOK(nextId, managers, status', initialized, probes')
         /\ SlotsOK(managers, status', initialized, slots')
         /\ LineOK(managers, status', queue', scheduled)
         /\ PathsOK(managers, status')
<1> DEFINE st == [status EXCEPT ![d] = "PENDING"]
<1>1. /\ status \in [Ids -> Status] /\ queue \in Seq(Ids) /\ slots \in SUBSET Ids
      /\ nextId \in Nat /\ probes \in [Ids -> Nat] /\ d \in Ids /\ managers \in SUBSET Ids
  BY MaxAssumption DEF TypeOK
<1>2. /\ st \in [Ids -> Status]
      /\ st[d] = "PENDING"
      /\ \A c \in Ids : c # d => st[c] = status[c]
  BY <1>1 DEF Status
<1>3. status[d] # "PENDING" /\ status[d] # "NEW"
  BY DEF Terminal
<1>4. ProcessQueue(Enqueued(d), slots, st, probes)
  OBVIOUS
<1> HIDE DEF st
<1>5. EnginesOK(nextId, managers, st, initialized, probes)
  <2>1. ASSUME NEW c \in Ids, c # d
        PROVE  /\ c \in managers => c < nextId /\ st[c] # "NEW"
               /\ c \notin managers => st[c] \in Terminal \cup { "NEW", "PENDING" }
               /\ ~(c < nextId) => st[c] = "NEW" /\ c \notin initialized /\ probes[c] = 0
               /\ probes[c] # 0 => probes[c] = 1 /\ st[c] \in { "STARTING", "STOPPED" }
               /\ st[c] = "DOWNLOADING" => c \in initialized
    BY <1>2, <2>1 DEF ListInv, EnginesOK
  <2>2. d < nextId
    BY <1>1 DEF ListInv, EnginesOK
  <2> QED BY <1>2, <2>1, <2>2 DEF EnginesOK
<1>6. SlotsOK(managers, st, initialized, slots)
  <2>1. ASSUME NEW c \in Ids, c # d
        PROVE  c \in slots <=> c \in managers /\ Holding(st[c], c \in initialized)
    BY <1>2, <2>1 DEF ListInv, SlotsOK
  <2>2. ~Holding(status[d], d \in initialized) /\ ~Holding(st[d], d \in initialized)
    BY <1>2 DEF Holding, Active, Terminal
  <2>3. d \notin slots
    BY <1>1, <2>2 DEF ListInv, SlotsOK
  <2> QED BY <2>1, <2>2, <2>3 DEF SlotsOK
<1>7. Enqueued(d) \in Seq(Ids) /\ LineOK(managers, st, Enqueued(d), scheduled)
  <2>1. ~Has(queue, d) /\ d \notin scheduled /\ NoTwice(queue)
    BY <1>1, <1>3 DEF ListInv, LineOK
  <2>2. DOMAIN queue = 1 .. Len(queue)
    BY <1>1
  <2>3. Enqueued(d) = Append(queue, d)
    BY <2>1, <2>2 DEF Enqueued, Queued, Has
  <2>4. /\ Enqueued(d) \in Seq(Ids) /\ NoTwice(Enqueued(d))
        /\ \A c \in Ids : Has(Enqueued(d), c) <=> Has(queue, c) \/ c = d
    BY <1>1, <2>1, <2>3, AppendFacts
  <2>5. ASSUME NEW c \in Ids
        PROVE  Has(Enqueued(d), c) <=> c \in managers /\ st[c] = "PENDING" /\ c \notin scheduled
    BY <1>2, <2>1, <2>4 DEF ListInv, LineOK
  <2>6. ASSUME NEW c \in Ids, c \in scheduled PROVE c \in managers /\ st[c] = "PENDING"
    BY <1>2, <2>6 DEF ListInv, LineOK
  <2> QED BY <2>4, <2>5, <2>6 DEF LineOK
<1>8. PathsOK(managers, st)
  <2>1. ASSUME NEW c \in Ids, c \in managers, c # d, st[c] \notin Terminal
        PROVE  path[c] # path[d]
    BY <1>1, <1>2, <2>1 DEF ListInv, PathsOK, PathConflict
  <2>2. ASSUME NEW b \in Ids, NEW c \in Ids, b # d, c # d, b # c, b \in managers, c \in managers,
               st[b] \notin Terminal, st[c] \notin Terminal
        PROVE  path[b] # path[c]
    BY <1>2, <2>2 DEF ListInv, PathsOK
  <2> QED BY <2>1, <2>2 DEF PathsOK
<1> QED BY <1>1, <1>2, <1>4, <1>5, <1>6, <1>7, <1>8, ProcessKeeps

(* A new download enters the list.                                          *)
LEMMA NewKeeps ==
  ASSUME TypeOK, ListInv, nextId \in Ids, ~PathConflict(nextId),
         NEW x \in RestoredAsIs \cup { "PENDING" }
  PROVE  LET ms == managers \cup { nextId }
             st == [status EXCEPT ![nextId] = x]
         IN  /\ EnginesOK(nextId + 1, ms, st, initialized, probes)
             /\ SlotsOK(ms, st, initialized, slots)
             /\ PathsOK(ms, st)
             /\ x # "PENDING" => LineOK(ms, st, queue, scheduled)
             /\ x = "PENDING" => /\ LineOK(ms, st, Append(queue, nextId), scheduled)
                                 /\ LineOK(ms, st, queue, scheduled \cup { nextId })
<1> DEFINE d == nextId
           ms == managers \cup { d }
           st == [status EXCEPT ![d] = x]
<1>1. /\ status \in [Ids -> Status] /\ queue \in Seq(Ids) /\ slots \in SUBSET Ids
      /\ nextId \in Nat /\ managers \in SUBSET Ids /\ Ids \subseteq Nat
  BY MaxAssumption DEF TypeOK, Ids
<1>2. st[d] = x /\ \A c \in Ids : c # d => st[c] = status[c]
  BY <1>1
<1>3. x \in { "PENDING", "PAUSED" } \cup Terminal /\ x # "NEW" /\ x \notin Active
  BY DEF RestoredAsIs, Terminal, Active
<1> HIDE DEF st
<1>4. d \notin managers /\ d \notin initialized /\ probes[d] = 0 /\ status[d] = "NEW"
  BY <1>1 DEF ListInv, EnginesOK
<1>5. d \notin scheduled /\ ~Has(queue, d) /\ NoTwice(queue)
  BY <1>4 DEF ListInv, LineOK
<1>6. EnginesOK(nextId + 1, ms, st, initialized, probes)
  <2>1. ASSUME NEW c \in Ids, c # d
        PROVE  /\ c \in managers => c < nextId + 1 /\ st[c] # "NEW"
               /\ c \notin managers => st[c] \in Terminal \cup { "NEW", "PENDING" }
               /\ ~(c < nextId + 1) => st[c] = "NEW" /\ c \notin initialized /\ probes[c] = 0
               /\ probes[c] # 0 => probes[c] = 1 /\ st[c] \in { "STARTING", "STOPPED" }
               /\ st[c] = "DOWNLOADING" => c \in initialized
    <3>1. c < nextId => c < nextId + 1
      BY <1>1
    <3> QED BY <1>2, <2>1, <3>1 DEF ListInv, EnginesOK
  <2>2. d < nextId + 1
    BY <1>1
  <2>3. x # "DOWNLOADING"
    BY <1>3 DEF Active
  <2> QED BY <1>2, <1>3, <1>4, <2>1, <2>2, <2>3 DEF EnginesOK
<1>7. SlotsOK(ms, st, initialized, slots)
  <2>1. ASSUME NEW c \in Ids, c # d
        PROVE  c \in slots <=> c \in ms /\ Holding(st[c], c \in initialized)
    BY <1>2, <2>1 DEF ListInv, SlotsOK
  <2>2. d \notin slots /\ ~Holding(st[d], d \in initialized)
    BY <1>2, <1>3, <1>4 DEF ListInv, SlotsOK, Holding
  <2> QED BY <2>1, <2>2 DEF SlotsOK
<1>8. PathsOK(ms, st)
  <2>1. ASSUME NEW c \in managers, status[c] \notin Terminal PROVE path[c] # path[d]
    BY <1>4, <2>1 DEF PathConflict
  <2>2. \A c \in Ids : c # d /\ c \in ms => c \in managers
    OBVIOUS
  <2>3. ASSUME NEW b \in Ids, NEW c \in Ids, b # d, c # d, b # c, b \in ms, c \in ms,
               st[b] \notin Terminal, st[c] \notin Terminal
        PROVE  path[b] # path[c]
    BY <1>2, <2>2, <2>3 DEF ListInv, PathsOK
  <2>4. ASSUME NEW c \in Ids, c # d, c \in ms, st[c] \notin Terminal
        PROVE  path[c] # path[d]
    BY <1>2, <2>1, <2>2, <2>4
  <2> HIDE DEF ms, d
  <2> QED BY <2>3, <2>4 DEF PathsOK
<1>9. ASSUME x # "PENDING" PROVE LineOK(ms, st, queue, scheduled)
  BY <1>2, <1>4, <1>5, <1>9 DEF ListInv, LineOK
<1>10. ASSUME x = "PENDING" PROVE LineOK(ms, st, Append(queue, d), scheduled)
  <2>1. /\ NoTwice(Append(queue, d))
        /\ \A c \in Ids : Has(Append(queue, d), c) <=> Has(queue, c) \/ c = d
    BY <1>1, <1>5, AppendFacts
  <2>2. ASSUME NEW c \in Ids
        PROVE  Has(Append(queue, d), c) <=> c \in ms /\ st[c] = "PENDING" /\ c \notin scheduled
    BY <1>2, <1>5, <1>10, <2>1 DEF ListInv, LineOK
  <2>3. ASSUME NEW c \in Ids, c \in scheduled PROVE c \in ms /\ st[c] = "PENDING"
    BY <1>2, <1>5, <2>3 DEF ListInv, LineOK
  <2> QED BY <2>1, <2>2, <2>3 DEF LineOK
<1>11. ASSUME x = "PENDING" PROVE LineOK(ms, st, queue, scheduled \cup { d })
  <2>1. ASSUME NEW c \in Ids
        PROVE  Has(queue, c) <=> c \in ms /\ st[c] = "PENDING" /\ c \notin scheduled \cup { d }
    BY <1>2, <1>5, <1>11 DEF ListInv, LineOK
  <2>2. ASSUME NEW c \in Ids, c \in scheduled \cup { d } PROVE c \in ms /\ st[c] = "PENDING"
    BY <1>2, <1>11, <2>2 DEF ListInv, LineOK
  <2> QED BY <1>5, <2>1, <2>2 DEF LineOK
<1> QED BY <1>6, <1>7, <1>8, <1>9, <1>10, <1>11 DEF st

(* remove_selected_download.  A queued download cannot have been popped by  *)
(* the pull that precedes its removal from the queue: nobody is waiting     *)
(* while a slot is free.                                                    *)
LEMMA RemoveKeeps ==
  ASSUME TypeOK, ListInv, RemoveUnserved = FALSE, NEW d \in Ids, RemoveDownload(d)
  PROVE  /\ EnginesOK(nextId, managers \ {d}, status', initialized, probes')
         /\ SlotsOK(managers \ {d}, status', initialized, slots')
         /\ LineOK(managers \ {d}, status', queue', scheduled \ {d})
         /\ PathsOK(managers \ {d}, status')
<1> DEFINE st == IF status[d] \in Stoppable THEN [status EXCEPT ![d] = "STOPPED"] ELSE status
           ms == managers \ {d}
           sch == scheduled \ {d}
<1>1. /\ status \in [Ids -> Status] /\ queue \in Seq(Ids) /\ slots \in SUBSET Ids
      /\ nextId \in Nat /\ probes \in [Ids -> Nat] /\ managers \in SUBSET Ids
      /\ SlotsWithout(d) \in SUBSET Ids
  BY MaxAssumption DEF TypeOK, SlotsWithout
<1>2. /\ d \in managers
      /\ ~Unserved
      /\ \E k \in 0 .. Len(queue) :
           /\ Pops(k, queue, SlotsWithout(d), st)
           /\ Launch(Startable(queue, k, st), SlotsWithout(d), st, probes)
           /\ queue' = Purged(Rest(queue, k), d)
  BY DEF RemoveDownload
<1>3. /\ st \in [Ids -> Status]
      /\ st[d] = IF status[d] \in Stoppable THEN "STOPPED" ELSE status[d]
      /\ \A c \in Ids : c # d => st[c] = status[c]
      /\ status[d] = "PENDING" => st = status
  BY <1>1 DEF Status, Terminal, Stoppable
<1> HIDE DEF st
<1>4. PICK k \in 0 .. Len(queue) :
           /\ Pops(k, queue, SlotsWithout(d), st)
           /\ Launch(Startable(queue, k, st), SlotsWithout(d), st, probes)
           /\ queue' = Purged(Rest(queue, k), d)
  BY <1>2
<1>5. st[d] \in Terminal \cup { "PENDING" } /\ st[d] # "NEW"
  <2>1. status[d] \in Status /\ status[d] # "NEW"
    BY <1>1, <1>2 DEF ListInv, EnginesOK
  <2> QED BY <1>3, <2>1 DEF Status, Active, Terminal, Stoppable
<1>6. EnginesOK(nextId, ms, st, initialized, probes)
  <2>1. ASSUME NEW c \in Ids, c # d
        PROVE  /\ c \in ms => c < nextId /\ st[c] # "NEW"
               /\ c \notin ms => st[c] \in Terminal \cup { "NEW", "PENDING" }
               /\ ~(c < nextId) => st[c] = "NEW" /\ c \notin initialized /\ probes[c] = 0
               /\ probes[c] # 0 => probes[c] = 1 /\ st[c] \in { "STARTING", "STOPPED" }
               /\ st[c] = "DOWNLOADING" => c \in initialized
    BY <1>3, <2>1 DEF ListInv, EnginesOK
  <2>2. d < nextId
    BY <1>2 DEF ListInv, EnginesOK
  <2>3. probes[d] # 0 => probes[d] = 1 /\ st[d] \in { "STARTING", "STOPPED" }
    BY <1>3 DEF ListInv, EnginesOK
  <2>4. st[d] # "DOWNLOADING"
    BY <1>5 DEF Terminal
  <2> QED BY <1>5, <2>1, <2>2, <2>3, <2>4 DEF EnginesOK
<1>7. PathsOK(ms, st)
  BY <1>3 DEF ListInv, PathsOK
<1>8. SlotsOK(ms, st, initialized, SlotsWithout(d))
  BY <1>3 DEF ListInv, SlotsOK, SlotsWithout
<1>9. NoTwice(queue)
  BY DEF ListInv, LineOK
<1>10. /\ Rest(queue, k) \in Seq(Ids) /\ NoTwice(Rest(queue, k))
       /\ \A c \in Ids : Has(Rest(queue, k), c) <=> \E i \in k + 1 .. Len(queue) : queue[i] = c
  BY <1>1, <1>9, RestFacts
<1>11. CASE Has(queue, d)
  <2>1. status[d] = "PENDING" /\ d \notin scheduled
    BY <1>11 DEF ListInv, LineOK
  <2>2. SlotsWithout(d) = slots /\ st = status
    BY <1>1, <1>3, <2>1 DEF ListInv, SlotsOK, Holding, Active, SlotsWithout
  <2>3. Startable(queue, 0, st) = {}
    BY DEF Startable
  <2>4. k = 0
    <3>1. SUFFICES ASSUME k # 0 PROVE FALSE
      OBVIOUS
    <3>2. 0 \in 0 .. k - 1
      BY <3>1
    <3>3. SlotFree(slots \cup Startable(queue, 0, st))
      BY <1>4, <2>2, <3>2 DEF Pops
    <3>4. SlotFree(slots)
      <4>1. slots \cup Startable(queue, 0, st) = slots
        BY <2>3
      <4> QED BY <3>3, <4>1
    <3>5. queue # <<>>
      BY <1>1, <1>11 DEF Has
    <3> QED BY <1>2, <3>4, <3>5 DEF Unserved
  <2>5. \A c \in Ids : Has(Rest(queue, k), c) <=> Has(queue, c)
    BY <1>10, <2>4 DEF Has
  <2>6. /\ NoTwice(queue')
        /\ \A c \in Ids : Has(queue', c) <=> Has(queue, c) /\ c # d
    BY <1>4, <1>10, <1>11, <2>5, PurgedFacts
  <2>7. slots' = SlotsWithout(d) /\ (\A c \in Ids : status'[c] = st[c] /\ probes'[c] = probes[c])
    <3>1. Startable(queue, k, st) = {}
      BY <2>3, <2>4
    <3> QED BY <1>4, <3>1 DEF Launch
  <2>8. LineOK(ms, status', queue', sch)
    BY <2>2, <2>6, <2>7 DEF ListInv, LineOK
  <2>9. EnginesOK(nextId, ms, status', initialized, probes')
    BY <1>6, <2>7 DEF EnginesOK
  <2>10. SlotsOK(ms, status', initialized, slots')
    BY <1>8, <2>7 DEF SlotsOK
  <2>11. PathsOK(ms, status')
    BY <1>7, <2>7 DEF PathsOK
  <2> QED BY <2>8, <2>9, <2>10, <2>11
<1>12. CASE ~Has(queue, d)
  <2>1. ~Has(Rest(queue, k), d)
    BY <1>10, <1>12 DEF Has
  <2>2. queue' = Rest(queue, k)
    BY <1>4, <2>1 DEF Purged, RemoveFirst, Has
  <2>3. LineOK(ms, st, queue, sch)
    <3>1. ASSUME NEW c \in Ids
          PROVE  Has(queue, c) <=> c \in ms /\ st[c] = "PENDING" /\ c \notin sch
      BY <1>3, <1>12 DEF ListInv, LineOK
    <3>2. ASSUME NEW c \in Ids, c \in sch PROVE c \in ms /\ st[c] = "PENDING"
      BY <1>3, <3>2 DEF ListInv, LineOK
    <3> QED BY <1>9, <3>1, <3>2 DEF LineOK
  <2> HIDE DEF ms, sch
  <2>4. /\ EnginesOK(nextId, ms, status', initialized, probes')
        /\ SlotsOK(ms, status', initialized, slots')
        /\ LineOK(ms, status', queue', sch)
        /\ PathsOK(ms, status')
    BY <1>1, <1>3, <1>4, <1>6, <1>7, <1>8, <2>2, <2>3, LaunchKeeps
  <2> QED BY <2>4 DEF ms, sch
<1> QED BY <1>11, <1>12

LEMMA ListInit == Init => ListInv
<1> SUFFICES ASSUME Init PROVE ListInv
  OBVIOUS
<1>1. \A d \in Ids : status[d] = "NEW" /\ probes[d] = 0
  BY DEF Init
<1>2. EnginesOK(nextId, managers, status, initialized, probes)
  BY <1>1 DEF Init, EnginesOK
<1>3. SlotsOK(managers, status, initialized, slots)
  BY DEF Init, SlotsOK
<1>4. LineOK(managers, status, queue, scheduled)
  <2>1. Len(queue) = 0 /\ managers = {} /\ scheduled = {}
    BY DEF Init
  <2>2. NoTwice(queue) /\ \A d \in Ids : ~Has(queue, d)
    BY <2>1 DEF NoTwice, Has
  <2> QED BY <2>1, <2>2 DEF LineOK
<1>5. PathsOK(managers, status)
  BY DEF Init, PathsOK
<1> QED BY <1>2, <1>3, <1>4, <1>5 DEF ListInv

LEMMA ListStep ==
  ASSUME LateProbes = 0, RemoveUnserved = FALSE, TypeOK, ListInv, [Next]_vars
  PROVE  ListInv'
<1>1. /\ status \in [Ids -> Status] /\ queue \in Seq(Ids) /\ slots \in SUBSET Ids
      /\ nextId \in Nat /\ probes \in [Ids -> Nat] /\ managers \in SUBSET Ids
  BY MaxAssumption DEF TypeOK
<1>2. ASSUME path' = path,
             EnginesOK(nextId', managers', status', initialized', probes'),
             SlotsOK(managers', status', initialized', slots'),
             LineOK(managers', status', queue', scheduled'),
             PathsOK(managers', status')
      PROVE  ListInv'
  BY <1>2 DEF ListInv, EnginesOK, SlotsOK, LineOK, PathsOK
<1>3. CASE LoadRecord
  <2>1. nextId \in Ids /\ nextId' = nextId + 1
    BY <1>3 DEF LoadRecord
  <2>2. CASE UNCHANGED <<managers, status, queue, scheduled>>
    <3>1. EnginesOK(nextId', managers', status', initialized', probes')
      <4>1. \A c \in Ids : c < nextId => c < nextId + 1
        BY <1>1 DEF Ids
      <4> QED BY <1>3, <2>1, <2>2, <4>1 DEF LoadRecord, ListInv, EnginesOK
    <3> QED BY <1>2, <1>3, <2>2, <3>1 DEF LoadRecord, ListInv, SlotsOK, LineOK, PathsOK
  <2>3. CASE ~PathConflict(nextId)
    <3>1. PICK x \in RestoredAsIs \cup { "PENDING" } :
            /\ status' = [status EXCEPT ![nextId] = x]
            /\ \/ x # "PENDING" /\ UNCHANGED <<queue, scheduled>>
               \/ /\ x = "PENDING"
                  /\ \/ queue' = Append(queue, nextId) /\ UNCHANGED scheduled
                     \/ scheduled' = scheduled \cup { nextId } /\ UNCHANGED queue
      <4>1. \A x \in RestoredAsIs : x # "PENDING"
        BY DEF RestoredAsIs, Terminal
      <4>2. CASE PathConflict(nextId)
        BY <2>3, <4>2
      <4>3. CASE \E x \in RestoredAsIs : status' = [status EXCEPT ![nextId] = x]
                                        /\ UNCHANGED <<queue, scheduled>>
        BY <4>1, <4>3
      <4>4. CASE /\ status' = [status EXCEPT ![nextId] = "PENDING"]
                 /\ \/ queue' = Append(queue, nextId) /\ UNCHANGED scheduled
                    \/ scheduled' = scheduled \cup { nextId } /\ UNCHANGED queue
        BY <4>4
      <4> QED BY <1>3, <4>2, <4>3, <4>4 DEF LoadRecord
    <3>2. /\ managers' = managers \cup { nextId }
          /\ UNCHANGED <<path, initialized, probes, slots>>
      BY <1>3, <2>3 DEF LoadRecord
    <3>3. /\ EnginesOK(nextId', managers', status', initialized', probes')
          /\ SlotsOK(managers', status', initialized', slots')
          /\ PathsOK(managers', status')
      BY <2>1, <2>3, <3>1, <3>2, NewKeeps
    <3>4. LineOK(managers', status', queue', scheduled')
      BY <2>1, <2>3, <3>1, <3>2, NewKeeps
    <3> QED BY <1>2, <3>2, <3>3, <3>4
  <2> QED BY <1>3, <2>2, <2>3 DEF LoadRecord
<1>4. CASE LoadDone
  <2>1. /\ ProcessQueue(queue, slots, status, probes)
        /\ UNCHANGED <<nextId, managers, path, initialized, scheduled>>
    BY <1>4 DEF LoadDone
  <2>2. /\ EnginesOK(nextId, managers, status', initialized, probes')
        /\ SlotsOK(managers, status', initialized, slots')
        /\ LineOK(managers, status', queue', scheduled)
        /\ PathsOK(managers, status')
    BY <1>1, <2>1, ProcessKeeps DEF ListInv
  <2> QED BY <1>2, <2>1, <2>2
<1>5. CASE Add
  <2> DEFINE ms == managers \cup { nextId }
             st == [status EXCEPT ![nextId] = "PENDING"]
             q == Append(queue, nextId)
  <2>1. /\ nextId \in Ids /\ ~PathConflict(nextId)
        /\ nextId' = nextId + 1 /\ managers' = ms
        /\ UNCHANGED <<path, initialized>>
    BY <1>5 DEF Add
  <2>2. /\ EnginesOK(nextId + 1, ms, st, initialized, probes)
        /\ SlotsOK(ms, st, initialized, slots)
        /\ PathsOK(ms, st)
        /\ LineOK(ms, st, q, scheduled)
        /\ LineOK(ms, st, queue, scheduled \cup { nextId })
    BY <2>1, NewKeeps
  <2>3. st \in [Ids -> Status] /\ q \in Seq(Ids)
    BY <1>1, <2>1 DEF Status
  <2>4. CASE ProcessQueue(q, slots, st, probes) /\ UNCHANGED scheduled
    <3> DEFINE n == nextId + 1
    <3>0. n \in Nat
      BY <1>1
    <3> HIDE DEF ms, st, q, n
    <3>1. EnginesOK(n, ms, st, initialized, probes)
      BY <2>2 DEF n
    <3>2. /\ EnginesOK(n, ms, status', initialized, probes')
          /\ SlotsOK(ms, status', initialized, slots')
          /\ LineOK(ms, status', queue', scheduled)
          /\ PathsOK(ms, status')
      BY <1>1, <2>2, <2>3, <2>4, <3>0, <3>1, ProcessKeeps
    <3> QED BY <1>2, <2>1, <2>4, <3>2 DEF n
  <2>5. CASE /\ scheduled' = scheduled \cup { nextId }
             /\ status' = st
             /\ UNCHANGED <<probes, queue, slots>>
    <3> HIDE DEF ms, st
    <3> QED BY <1>2, <2>1, <2>2, <2>5
  <2> QED BY <1>5, <2>4, <2>5 DEF Add
<1>6. ASSUME NEW d \in Ids, OnScheduleDue(d) PROVE ListInv'
  <2>1. /\ d \in scheduled /\ scheduled' = scheduled \ {d}
        /\ d \in managers => ProcessQueue(Append(queue, d), slots, status, probes)
        /\ UNCHANGED <<nextId, managers, path, initialized>>
    BY <1>6 DEF OnScheduleDue
  <2>2. d \in managers /\ status[d] = "PENDING" /\ ~Has(queue, d) /\ NoTwice(queue)
    BY <2>1 DEF ListInv, LineOK
  <2>3. /\ Append(queue, d) \in Seq(Ids) /\ NoTwice(Append(queue, d))
        /\ \A c \in Ids : Has(Append(queue, d), c) <=> Has(queue, c) \/ c = d
    BY <1>1, <2>2, AppendFacts
  <2>4. LineOK(managers, status, Append(queue, d), scheduled \ {d})
    BY <2>1, <2>2, <2>3 DEF ListInv, LineOK
  <2>5. /\ EnginesOK(nextId, managers, status', initialized, probes')
        /\ SlotsOK(managers, status', initialized, slots')
        /\ LineOK(managers, status', queue', scheduled \ {d})
        /\ PathsOK(managers, status')
    BY <1>1, <2>1, <2>2, <2>3, <2>4, ProcessKeeps DEF ListInv
  <2> QED BY <1>2, <2>1, <2>5
<1>7. ASSUME NEW d \in Ids, MetadataFetched(d) PROVE ListInv'
  <2>1. PICK x \in { "DOWNLOADING", "VERIFYING", "COMPLETED", "ERROR" } :
          Becomes(d, x, Answered(d))
    BY <1>7 DEF MetadataFetched
  <2>2. /\ probes[d] = 1 /\ status[d] = "STARTING"
        /\ initialized' = initialized \cup {d}
        /\ UNCHANGED <<nextId, managers, path, scheduled>>
    BY <1>1, <1>7 DEF MetadataFetched, Frame, ListInv, EnginesOK
  <2>3. /\ Answered(d) \in [Ids -> Nat] /\ Answered(d)[d] = 0
        /\ \A c \in Ids : c # d => Answered(d)[c] = probes[c]
    BY <1>1, <2>2 DEF Answered
  <2>4. Holding(status[d], d \in initialized) /\ status[d] \in Active \cup { "PAUSED" }
    BY <2>2 DEF Holding, Active
  <2>5. /\ EnginesOK(nextId, managers, status', initialized', probes')
        /\ SlotsOK(managers, status', initialized', slots')
        /\ LineOK(managers, status', queue', scheduled)
        /\ PathsOK(managers, status')
    BY <2>1, <2>2, <2>3, <2>4, BecomesKeeps
  <2> QED BY <1>2, <2>2, <2>5
<1>8. ASSUME NEW d \in Ids, MetadataFailed(d) PROVE ListInv'
  <2>1. /\ probes[d] = 1 /\ status[d] = "STARTING"
        /\ Becomes(d, "ERROR", Answered(d))
        /\ UNCHANGED <<nextId, managers, path, scheduled, initialized>>
    BY <1>1, <1>8 DEF MetadataFailed, Frame, ListInv, EnginesOK
  <2>2. /\ Answered(d) \in [Ids -> Nat] /\ Answered(d)[d] = 0
        /\ \A c \in Ids : c # d => Answered(d)[c] = probes[c]
    BY <1>1, <2>1 DEF Answered
  <2>3. status[d] \in Active \cup { "PAUSED" } /\ "ERROR" \in Terminal
    BY <2>1 DEF Active, Terminal
  <2>4. /\ EnginesOK(nextId, managers, status', initialized, probes')
        /\ SlotsOK(managers, status', initialized, slots')
        /\ LineOK(managers, status', queue', scheduled)
        /\ PathsOK(managers, status')
    BY <2>1, <2>2, <2>3, BecomesKeeps
  <2> QED BY <1>2, <2>1, <2>4
<1>9. ASSUME NEW d \in Ids, MetadataDropped(d) PROVE ListInv'
  <2>1. /\ probes' = Answered(d) /\ probes[d] > 0
        /\ UNCHANGED <<nextId, managers, path, scheduled, status, initialized, queue, slots>>
    BY <1>9 DEF MetadataDropped, Frame
  <2>2. \A c \in Ids : probes'[c] = IF c = d THEN probes[d] - 1 ELSE probes[c]
    BY <1>1, <2>1 DEF Answered
  <2>3. probes[d] = 1 /\ d < nextId
    BY <1>1, <2>1 DEF ListInv, EnginesOK
  <2>4. EnginesOK(nextId', managers', status', initialized', probes')
    BY <2>1, <2>2, <2>3 DEF ListInv, EnginesOK
  <2> QED BY <1>2, <2>1, <2>4 DEF ListInv, SlotsOK, LineOK, PathsOK
<1>10. ASSUME NEW d \in Ids, EngineEnds(d) PROVE ListInv'
  <2>1. PICK x \in { "VERIFYING", "COMPLETED", "ERROR" } :
          Becomes(d, x, probes) /\ (x = "VERIFYING" => status[d] = "DOWNLOADING")
    BY <1>10 DEF EngineEnds
  <2>2. /\ status[d] \in { "DOWNLOADING", "VERIFYING" }
        /\ UNCHANGED <<nextId, managers, path, scheduled, initialized>>
    BY <1>10 DEF EngineEnds, Frame
  <2>3. probes[d] = 0
    BY <2>2 DEF ListInv, EnginesOK
  <2>4. status[d] \in Active \cup { "PAUSED" } /\ Holding(status[d], d \in initialized)
    BY <2>2 DEF Active, Holding
  <2>5. x \notin Terminal => d \in initialized
    BY <2>1 DEF Terminal, ListInv, EnginesOK
  <2>6. /\ EnginesOK(nextId, managers, status', initialized, probes')
        /\ SlotsOK(managers, status', initialized, slots')
        /\ LineOK(managers, status', queue', scheduled)
        /\ PathsOK(managers, status')
    BY <1>1, <2>1, <2>3, <2>4, <2>5, BecomesKeeps
  <2> QED BY <1>2, <2>2, <2>6
<1>11. ASSUME NEW d \in Ids, Pause(d) PROVE ListInv'
  <2>1. /\ d \in managers
        /\ \A c \in Ids : status'[c] = IF c = d /\ status[d] = "DOWNLOADING" THEN "PAUSED"
                                                                           ELSE status[c]
        /\ UNCHANGED <<nextId, managers, path, scheduled, initialized, probes, queue, slots>>
    BY <1>1, <1>11 DEF Pause, Frame
  <2>2. EnginesOK(nextId', managers', status', initialized', probes')
    BY <2>1 DEF ListInv, EnginesOK
  <2>3. SlotsOK(managers', status', initialized', slots')
    <3>1. ASSUME NEW c \in Ids
          PROVE  Holding(status'[c], c \in initialized) <=> Holding(status[c], c \in initialized)
      BY <2>1 DEF ListInv, EnginesOK, Holding, Active
    <3> QED BY <2>1, <3>1 DEF ListInv, SlotsOK
  <2>4. LineOK(managers', status', queue', scheduled')
    BY <2>1 DEF ListInv, LineOK
  <2>5. PathsOK(managers', status')
    BY <2>1 DEF ListInv, PathsOK, Terminal
  <2> QED BY <1>2, <2>1, <2>2, <2>3, <2>4, <2>5
<1>12. ASSUME NEW d \in Ids, Resume(d) PROVE ListInv'
  <2>1. PICK x \in { "DOWNLOADING", "VERIFYING", "COMPLETED", "ERROR" } : Becomes(d, x, probes)
    BY <1>12 DEF Resume
  <2>2. /\ status[d] = "PAUSED" /\ d \in initialized
        /\ UNCHANGED <<nextId, managers, path, scheduled, initialized>>
    BY <1>12 DEF Resume, Frame
  <2>3. probes[d] = 0 /\ Holding(status[d], d \in initialized)
    BY <2>2 DEF ListInv, EnginesOK, Holding
  <2>4. /\ EnginesOK(nextId, managers, status', initialized, probes')
        /\ SlotsOK(managers, status', initialized, slots')
        /\ LineOK(managers, status', queue', scheduled)
        /\ PathsOK(managers, status')
    BY <1>1, <2>1, <2>2, <2>3, BecomesKeeps
  <2> QED BY <1>2, <2>2, <2>4
<1>13. ASSUME NEW d \in Ids, Stop(d) PROVE ListInv'
  <2>1. /\ status[d] \in Active \cup { "PAUSED" }
        /\ FinishSlot(d, [status EXCEPT ![d] = "STOPPED"], probes)
        /\ UNCHANGED <<nextId, managers, path, scheduled, initialized>>
    BY <1>13 DEF Stop, Stoppable, Frame, Active
  <2>2. "STOPPED" \in Terminal
    BY DEF Terminal
  <2>3. Becomes(d, "STOPPED", probes)
    BY <2>1, <2>2 DEF Becomes
  <2>4. probes[d] # 0 => probes[d] = 1
    BY DEF ListInv, EnginesOK
  <2>5. /\ EnginesOK(nextId, managers, status', initialized, probes')
        /\ SlotsOK(managers, status', initialized, slots')
        /\ LineOK(managers, status', queue', scheduled)
        /\ PathsOK(managers, status')
    BY <1>1, <2>1, <2>2, <2>3, <2>4, BecomesKeeps
  <2> QED BY <1>2, <2>1, <2>5
<1>14. ASSUME NEW d \in Ids, ResumeRestored(d) \/ Retry(d) PROVE ListInv'
  <2>1. /\ d \in managers
        /\ ProcessQueue(Enqueued(d), slots, [status EXCEPT ![d] = "PENDING"], probes)
        /\ UNCHANGED <<nextId, managers, path, scheduled, initialized>>
    BY <1>14 DEF ResumeRestored, Retry, Frame
  <2>2. /\ status[d] \in Terminal \cup { "PAUSED" }
        /\ status[d] = "PAUSED" => d \notin initialized
        /\ status[d] \in Terminal => ~PathConflict(d)
    BY <1>14 DEF ResumeRestored, Retry, RetryAllowed, Terminal
  <2>3. probes[d] = 0
    <3>1. CASE ResumeRestored(d)
      BY <3>1 DEF ResumeRestored, ListInv, EnginesOK
    <3>2. CASE Retry(d)
      BY <1>1, <3>2 DEF Retry
    <3> QED BY <1>14, <3>1, <3>2
  <2>4. /\ EnginesOK(nextId, managers, status', initialized, probes')
        /\ SlotsOK(managers, status', initialized, slots')
        /\ LineOK(managers, status', queue', scheduled)
        /\ PathsOK(managers, status')
    BY <2>1, <2>2, <2>3, EnqueuedKeeps
  <2> QED BY <1>2, <2>1, <2>4
<1>15. ASSUME NEW d \in Ids, RemoveDownload(d) PROVE ListInv'
  <2>1. /\ managers' = managers \ {d} /\ scheduled' = scheduled \ {d}
        /\ UNCHANGED <<nextId, path, initialized>>
    BY <1>15 DEF RemoveDownload
  <2> QED BY <1>2, <1>15, <2>1, RemoveKeeps
<1>16. CASE \/ \E n \in Limits : SetLimit(n)
            \/ UNCHANGED vars
  <2>1. UNCHANGED <<nextId, managers, path, scheduled, status, initialized, probes, queue, slots>>
    BY <1>16 DEF SetLimit, engines, vars
  <2> QED BY <1>2, <2>1 DEF ListInv, EnginesOK, SlotsOK, LineOK, PathsOK
<1> QED
  <2>1. ASSUME NEW d \in Ids, Engine(d) PROVE ListInv'
    BY <1>7, <1>8, <1>9, <1>10, <2>1 DEF Engine
  <2>2. ASSUME NEW d \in Ids, Command(d) PROVE ListInv'
    BY <1>11, <1>12, <1>13, <1>14, <1>15, <2>2 DEF Command
  <2> QED BY <1>3, <1>4, <1>5, <1>6, <1>16, <2>1, <2>2 DEF Next

(* The invariant says what the runs check.                                  *)
LEMMA ListMeans ==
  ASSUME TypeOK, ListInv
  PROVE  SlotsExact /\ QueueExact /\ OneWriterPerPath
<1>1. SlotsExact
  <2>1. slots \subseteq Ids /\ managers \subseteq Ids
    BY DEF TypeOK
  <2> QED BY <2>1 DEF ListInv, SlotsOK, Holding, SlotsExact, HoldsSlot
<1>2. QueueExact
  <2>1. /\ DOMAIN queue = 1 .. Len(queue) /\ managers \subseteq Ids /\ scheduled \subseteq Ids
        /\ \A i \in 1 .. Len(queue) : queue[i] \in Ids
    BY DEF TypeOK
  <2>2. \A i, j \in DOMAIN queue : queue[i] = queue[j] => i = j
    BY <2>1 DEF ListInv, LineOK, NoTwice
  <2>3. { queue[i] : i \in DOMAIN queue } = { d \in Ids : Has(queue, d) }
    BY <2>1 DEF Has
  <2>4. { d \in Ids : Has(queue, d) } = Waiting \ scheduled
    BY <2>1 DEF ListInv, LineOK, Waiting
  <2>5. scheduled \subseteq Waiting
    BY <2>1 DEF ListInv, LineOK, Waiting
  <2> QED BY <2>2, <2>3, <2>4, <2>5 DEF QueueExact
<1>3. OneWriterPerPath
  <2>1. ASSUME NEW d \in Ids, Writing(d) PROVE d \in managers /\ status[d] \notin Terminal
    BY <2>1 DEF Writing, Active, Terminal, ListInv, EnginesOK
  <2> QED BY <2>1 DEF OneWriterPerPath, ListInv, PathsOK
<1> QED BY <1>1, <1>2, <1>3

(* As long as no download is retried before its last probe has answered and *)
(* none is removed while the queue waits for a raised limit to be noticed,  *)
(* slots, queue, scheduler and destinations agree with the statuses in      *)
(* every state, for any number of downloads and any limits.                 *)
THEOREM ListCorrect ==
  ASSUME LateProbes = 0, RemoveUnserved = FALSE
  PROVE  Spec => [](ListExact /\ OneWriterPerPath)
<1>1. Init => TypeOK /\ ListInv
  BY TypeInit, ListInit
<1>2. TypeOK /\ ListInv /\ [Next]_vars => (TypeOK /\ ListInv)'
  BY TypeStep, ListStep
<1>3. TypeOK /\ ListInv => ListExact /\ OneWriterPerPath
  BY ListMeans DEF ListExact
<1> QED BY <1>1, <1>2, <1>3, PTL DEF Spec

(* No two downloads that may write, even ones no longer listed, have the    *)
(* same destination (_find_path_conflict on add, on load and on retry).     *)
THEOREM DestinationsApart ==
  ASSUME LateProbes = 0, RemoveUnserved = FALSE
  PROVE  Spec => []OneWriterPerPath
<1>1. Spec => [](ListExact /\ OneWriterPerPath)
  BY ListCorrect
<1> QED BY <1>1, PTL

-----------------------------------------------------------------------------
(* The limit.                                                               *)

LEMMA IdsFinite ==
  /\ IsFiniteSet(Ids)
  /\ \A S \in SUBSET Ids : IsFiniteSet(S) /\ Cardinality(S) \in Nat
<1>1. IsFiniteSet(Ids)
  BY MaxAssumption, FS_Interval DEF Ids
<1> QED BY <1>1, FS_Subset, FS_CardinalityType

(* Pulling the queue fills slots up to the limit and no further, and stops  *)
(* only at the end of the queue or at the limit.                            *)
LEMMA PopsBounded ==
  ASSUME limit \in Nat, NEW q \in Seq(Ids), NEW s \in SUBSET Ids, NEW st,
         NEW k \in 0 .. Len(q), Pops(k, q, s, st)
  PROVE  /\ s \cup Startable(q, k, st) = s \/ Cardinality(s \cup Startable(q, k, st)) <= limit
         /\ Rest(q, k) = <<>> \/ ~SlotFree(s \cup Startable(q, k, st))
<1> DEFINE held(j) == s \cup Startable(q, j, st)
           enough == held(k) = s \/ Cardinality(held(k)) <= limit
<1>1. ASSUME k = 0 PROVE held(k) = s
  <2>1. Startable(q, k, st) = {}
    BY <1>1 DEF Startable
  <2> QED BY <2>1
<1>2. ASSUME k # 0 PROVE Cardinality(held(k)) <= limit
  <2> DEFINE before == held(k - 1)
             next == q[k]
  <2>1. k - 1 \in 0 .. k - 1 /\ k \in 1 .. Len(q) /\ next \in Ids
    BY <1>2
  <2>2. Cardinality(before) < limit
    BY <2>1 DEF Pops, SlotFree
  <2>3. held(k) \subseteq before \cup { next }
    <3>1. ASSUME NEW d \in Startable(q, k, st), d # q[k] PROVE d \in Startable(q, k - 1, st)
      <4>1. PICK i \in 1 .. k : q[i] = d
        BY DEF Startable
      <4>2. i \in 1 .. k - 1
        BY <2>1, <3>1, <4>1
      <4> QED BY <4>1, <4>2 DEF Startable
    <3> QED BY <3>1
  <2>4. held(k) \in SUBSET Ids /\ before \in SUBSET Ids
    BY DEF Startable
  <2> HIDE DEF held, before, next
  <2>5. /\ IsFiniteSet(before) /\ Cardinality(before) \in Nat
        /\ Cardinality(held(k)) \in Nat
    BY <2>4, IdsFinite
  <2>6. /\ IsFiniteSet(before \cup { next })
        /\ Cardinality(before \cup { next })
             = IF next \in before THEN Cardinality(before) ELSE Cardinality(before) + 1
    BY <2>5, FS_AddElement
  <2>7. Cardinality(held(k)) <= Cardinality(before \cup { next })
    BY <2>3, <2>6, FS_Subset
  <2>8. CASE next \in before
    <3>1. Cardinality(before \cup { next }) = Cardinality(before)
      BY <2>6, <2>8
    <3> QED BY <2>2, <2>5, <2>7, <3>1
  <2>9. CASE next \notin before
    <3>1. Cardinality(before \cup { next }) = Cardinality(before) + 1
      BY <2>6, <2>9
    <3> QED BY <2>2, <2>5, <2>7, <3>1
  <2> QED BY <2>8, <2>9
<1>3. Rest(q, k) = <<>> \/ ~SlotFree(held(k))
  <2>1. CASE k = Len(q)
    BY <2>1 DEF Rest
  <2>2. CASE k # Len(q)
    BY <2>2 DEF Pops
  <2> QED BY <2>1, <2>2
<1>4. enough
  BY <1>1, <1>2
<1> QED BY <1>3, <1>4

(* What a step does to slots and queue: it pulls the queue, or takes no     *)
(* slot and queues nothing that it was not already waiting for.             *)
Pulled == /\ slots' \subseteq slots \/ Cardinality(slots') <= limit
          /\ queue' = <<>> \/ ~SlotFree(slots')

LEMMA ProcessPulls ==
  ASSUME TypeOK, NEW q \in Seq(Ids), NEW s \in SUBSET slots, NEW st, NEW pr,
         ProcessQueue(q, s, st, pr)
  PROVE  Pulled
<1>1. limit \in Nat /\ s \in SUBSET Ids
  BY LimitAssumption DEF TypeOK
<1>2. PICK k \in 0 .. Len(q) : /\ Pops(k, q, s, st)
                               /\ slots' = s \cup Startable(q, k, st)
                               /\ queue' = Rest(q, k)
  BY DEF ProcessQueue, Launch
<1> QED BY <1>1, <1>2, PopsBounded DEF Pulled

LEMMA EndPulls ==
  ASSUME TypeOK, NEW d \in Ids, NEW st, NEW pr, FinishSlot(d, st, pr)
  PROVE  Pulled \/ UNCHANGED <<queue, slots>>
<1>1. SlotsWithout(d) \in SUBSET slots /\ queue \in Seq(Ids)
  BY DEF SlotsWithout, TypeOK
<1> QED BY <1>1, ProcessPulls DEF FinishSlot

LEMMA StepPulls ==
  ASSUME TypeOK, [Next]_vars
  PROVE  \/ Pulled /\ limit' = limit
         \/ UNCHANGED <<queue, slots>>
         \/ loading /\ UNCHANGED slots
<1>1. queue \in Seq(Ids) /\ slots \in SUBSET Ids
  BY DEF TypeOK
<1>2. CASE LoadRecord
  BY <1>2 DEF LoadRecord
<1>3. CASE LoadDone
  BY <1>1, <1>3, ProcessPulls DEF LoadDone
<1>4. CASE Add
  <2>1. Append(queue, nextId) \in Seq(Ids)
    BY <1>1, <1>4 DEF Add
  <2> QED BY <1>1, <1>4, <2>1, ProcessPulls DEF Add
<1>5. ASSUME NEW d \in Ids, OnScheduleDue(d)
      PROVE  (Pulled /\ limit' = limit) \/ UNCHANGED <<queue, slots>>
  <2>1. Append(queue, d) \in Seq(Ids)
    BY <1>1
  <2> QED BY <1>1, <1>5, <2>1, ProcessPulls DEF OnScheduleDue
<1>6. ASSUME NEW d \in Ids, NEW x, NEW pr, Becomes(d, x, pr)
      PROVE  Pulled \/ UNCHANGED <<queue, slots>>
  BY <1>6, EndPulls DEF Becomes
<1>7. ASSUME NEW d \in Ids, Engine(d)
      PROVE  (Pulled /\ limit' = limit) \/ UNCHANGED <<queue, slots>>
  BY <1>6, <1>7
     DEF Engine, MetadataFetched, MetadataFailed, MetadataDropped, EngineEnds, Frame
<1>8. ASSUME NEW d \in Ids, Command(d)
      PROVE  (Pulled /\ limit' = limit) \/ UNCHANGED <<queue, slots>>
  <2>1. CASE Pause(d)
    BY <2>1 DEF Pause
  <2>2. CASE Resume(d)
    BY <1>6, <2>2 DEF Resume, Frame
  <2>3. CASE ResumeRestored(d) \/ Retry(d)
    <3>1. Enqueued(d) \in Seq(Ids)
      BY <1>1 DEF Enqueued
    <3> QED BY <1>1, <2>3, <3>1, ProcessPulls DEF ResumeRestored, Retry, Frame
  <2>4. CASE Stop(d)
    BY <2>4, EndPulls DEF Stop, Frame
  <2>5. CASE RemoveDownload(d)
    <3> DEFINE st == IF status[d] \in Stoppable THEN [status EXCEPT ![d] = "STOPPED"]
                                                ELSE status
    <3>1. PICK k \in 0 .. Len(queue) :
             /\ Pops(k, queue, SlotsWithout(d), st)
             /\ slots' = SlotsWithout(d) \cup Startable(queue, k, st)
             /\ queue' = Purged(Rest(queue, k), d)
      BY <2>5 DEF RemoveDownload, Launch
    <3> HIDE DEF st
    <3>2. limit \in Nat /\ SlotsWithout(d) \in SUBSET Ids /\ SlotsWithout(d) \in SUBSET slots
      BY LimitAssumption DEF TypeOK, SlotsWithout
    <3>3. /\ SlotsWithout(d) \cup Startable(queue, k, st) = SlotsWithout(d)
               \/ Cardinality(SlotsWithout(d) \cup Startable(queue, k, st)) <= limit
          /\ Rest(queue, k) = <<>>
               \/ ~SlotFree(SlotsWithout(d) \cup Startable(queue, k, st))
      BY <1>1, <3>1, <3>2, PopsBounded
    <3>4. Purged(<<>>, d) = <<>>
      BY DEF Purged, RemoveFirst
    <3>5. Pulled
      BY <3>1, <3>2, <3>3, <3>4 DEF Pulled
    <3> QED BY <2>5, <3>5 DEF RemoveDownload
  <2> QED BY <1>8, <2>1, <2>2, <2>3, <2>4, <2>5 DEF Command
<1>9. CASE (\E n \in Limits : SetLimit(n)) \/ UNCHANGED vars
  BY <1>9 DEF SetLimit, vars
<1> QED BY <1>2, <1>3, <1>4, <1>5, <1>7, <1>8, <1>9 DEF Next

(* Nothing but raising the limit leaves a free slot while the queue waits   *)
(* (WorkConserving): for any number of downloads, and whatever LateProbes   *)
(* and RemoveUnserved allow.                                                *)
THEOREM QueueAlwaysPulled == Spec => WorkConserving
<1>1. TypeOK /\ TypeOK' /\ [Next]_vars
        => [~loading => (Unserved' => Unserved \/ limit' > limit)]_vars
  <2> SUFFICES ASSUME TypeOK, TypeOK', [Next]_vars, ~loading, Unserved', ~(limit' > limit)
               PROVE  Unserved
    OBVIOUS
  <2>1. limit \in Nat /\ limit' \in Nat /\ slots \in SUBSET Ids
    BY LimitAssumption DEF TypeOK
  <2>2. Cardinality(slots) \in Nat
    BY <2>1, IdsFinite
  <2>3. queue' # <<>> /\ Cardinality(slots') < limit'
    BY DEF Unserved, SlotFree
  <2>4. ~(Pulled /\ limit' = limit)
    BY <2>3 DEF Pulled, SlotFree
  <2>5. ~UNCHANGED <<queue, slots>> => FALSE
    BY <2>4, StepPulls
  <2> QED BY <2>1, <2>2, <2>3, <2>5 DEF Unserved, SlotFree
<1> QED BY <1>1, TypeCorrect, PTL DEF Spec, WorkConserving

(* No step takes more downloads into their slots than the spin box allows   *)
(* (LimitHonoured), under the conditions of ListCorrect.                    *)
THEOREM LimitKept ==
  ASSUME LateProbes = 0, RemoveUnserved = FALSE
  PROVE  Spec => LimitHonoured
<1>1. TypeOK /\ ListInv => Holders = slots
  <2> SUFFICES ASSUME TypeOK, ListInv PROVE Holders = slots
    OBVIOUS
  <2>1. slots \subseteq Ids
    BY DEF TypeOK
  <2>2. ASSUME NEW d \in Ids, HoldsSlot(d) PROVE d \in managers
    BY <2>2 DEF HoldsSlot, Active, Terminal, ListInv, EnginesOK
  <2> QED BY <2>1, <2>2 DEF Holders, HoldsSlot, Holding, ListInv, SlotsOK
<1>2. TypeOK' /\ ListInv' => Holders' = slots'
  <2> SUFFICES ASSUME TypeOK', ListInv' PROVE Holders' = slots'
    OBVIOUS
  <2>1. slots' \subseteq Ids
    BY DEF TypeOK
  <2>2. ASSUME NEW d \in Ids, HoldsSlot(d)' PROVE d \in managers'
    BY <2>2 DEF HoldsSlot, Active, Terminal, ListInv, EnginesOK
  <2> QED BY <2>1, <2>2 DEF Holders, HoldsSlot, Holding, ListInv, SlotsOK
<1>3. TypeOK /\ ListInv /\ (TypeOK /\ ListInv)' /\ [Next]_vars
        => [Cardinality(Holders') > Cardinality(Holders) => Cardinality(Holders') <= limit]_vars
  <2> SUFFICES ASSUME TypeOK, ListInv, (TypeOK /\ ListInv)', [Next]_vars,
                      Cardinality(Holders') > Cardinality(Holders)
               PROVE  Cardinality(Holders') <= limit
    OBVIOUS
  <2>1. Holders = slots /\ Holders' = slots'
    BY <1>1, <1>2
  <2>2. slots \in SUBSET Ids /\ slots' \in SUBSET Ids
    BY DEF TypeOK
  <2>3. /\ IsFiniteSet(slots) /\ Cardinality(slots) \in Nat /\ Cardinality(slots') \in Nat
    BY <2>2, IdsFinite
  <2>4. ~(slots' \subseteq slots)
    BY <2>1, <2>3, FS_Subset
  <2>5. Pulled
    BY <2>4, StepPulls
  <2> QED BY <2>1, <2>4, <2>5 DEF Pulled
<1>4. Init => TypeOK /\ ListInv
  BY TypeInit, ListInit
<1>5. TypeOK /\ ListInv /\ [Next]_vars => (TypeOK /\ ListInv)'
  BY TypeStep, ListStep
<1> QED BY <1>3, <1>4, <1>5, PTL DEF Spec, LimitHonoured

-----------------------------------------------------------------------------
(* Each download of the list implements DownloadLifecycle.                  *)

Follows(c) == [Life(c)!Next]_(Life(c)!vars)

(* Between the handler's own change, which gives st, and its end the queue  *)
(* is pulled: that starts pending downloads and does nothing else.          *)
PulledFrom(st) ==
  \A c \in Ids : status'[c] = st[c] \/ (st[c] = "PENDING" /\ status'[c] = "STARTING")

LEMMA ProcessFollows ==
  ASSUME NEW q, NEW s, NEW st, NEW pr, ProcessQueue(q, s, st, pr)
  PROVE  PulledFrom(st)
BY DEF ProcessQueue, Launch, Startable, PulledFrom

LEMMA FinishFollows ==
  ASSUME NEW d, NEW st, NEW pr, FinishSlot(d, st, pr)
  PROVE  PulledFrom(st)
<1>1. CASE ProcessQueue(queue, SlotsWithout(d), st, pr)
  BY <1>1, ProcessFollows
<1>2. CASE status' = st
  BY <1>2 DEF PulledFrom
<1> QED BY <1>1, <1>2 DEF FinishSlot

LEMMA BecomesFollows ==
  ASSUME NEW d, NEW x, NEW pr, Becomes(d, x, pr)
  PROVE  PulledFrom([status EXCEPT ![d] = x])
<1> DEFINE st == [status EXCEPT ![d] = x]
<1>1. FinishSlot(d, st, pr) \/ status' = st
  BY DEF Becomes
<1> HIDE DEF st
<1>2. PulledFrom(st)
  BY <1>1, FinishFollows DEF PulledFrom
<1> QED BY <1>2 DEF st

(* A download the handler is not about is started or left alone. *)
LEMMA OthersFollow ==
  ASSUME NEW c \in Ids, NEW st, PulledFrom(st), st[c] = status[c],
         c \in initialized' <=> c \in initialized
  PROVE  Follows(c)
<1>1. CASE status'[c] = status[c]
  BY <1>1 DEF Follows, Life!vars
<1>2. CASE status[c] = "PENDING" /\ status'[c] = "STARTING"
  <2>1. Life(c)!Start
    BY <1>2 DEF Life!Start
  <2> QED BY <2>1 DEF Follows, Life!Next
<1> QED BY <1>1, <1>2 DEF PulledFrom

(* The handler's own download goes from status to x, and may be started.    *)
LEMMA AboutFollows ==
  ASSUME TypeOK, NEW d \in Ids, NEW x, PulledFrom([status EXCEPT ![d] = x]),
         \A c \in Ids \ {d} : c \in initialized' <=> c \in initialized,
         \A y \in {x} \cup (IF x = "PENDING" THEN {"STARTING"} ELSE {}) :
           status'[d] = y => Follows(d)
  PROVE  \A c \in Ids : Follows(c)
<1> DEFINE st == [status EXCEPT ![d] = x]
<1>1. st[d] = x /\ \A c \in Ids \ {d} : st[c] = status[c]
  BY DEF TypeOK
<1> HIDE DEF st
<1>2. PulledFrom(st)
  BY DEF st
<1>3. Follows(d)
  BY <1>1, <1>2 DEF PulledFrom
<1>4. ASSUME NEW c \in Ids \ {d} PROVE Follows(c)
  BY <1>1, <1>2, <1>4, OthersFollow
<1> QED BY <1>3, <1>4

(* Engines: what the answer of a probe, the end of a worker or a verdict    *)
(* lead to.                                                                 *)
LEMMA EngineFollows ==
  ASSUME LateProbes = 0, TypeOK, ListInv, NEW d \in Ids, Engine(d)
  PROVE  \A c \in Ids : Follows(c)
<1>1. status \in [Ids -> Status] /\ probes \in [Ids -> Nat] /\ initialized \in SUBSET Ids
  BY DEF TypeOK
<1>2. ASSUME NEW x \in Status \ {"PENDING"}, Becomes(d, x, Answered(d)) \/ Becomes(d, x, probes),
             \A c \in Ids \ {d} : c \in initialized' <=> c \in initialized,
             status'[d] = x => Follows(d)
      PROVE  \A c \in Ids : Follows(c)
  <2>1. PulledFrom([status EXCEPT ![d] = x])
    BY <1>2, BecomesFollows
  <2> QED BY <1>2, <2>1, AboutFollows
<1>3. probes[d] > 0 => status[d] \in { "STARTING", "STOPPED" }
  BY <1>1 DEF ListInv, EnginesOK
<1>4. CASE MetadataFetched(d)
  <2>1. PICK x \in { "DOWNLOADING", "VERIFYING", "COMPLETED", "ERROR" } :
          Becomes(d, x, Answered(d))
    BY <1>4 DEF MetadataFetched
  <2>2. status[d] = "STARTING" /\ initialized' = initialized \cup {d}
    BY <1>3, <1>4 DEF MetadataFetched
  <2>3. status'[d] = x => Life(d)!Answer
    BY <2>2 DEF Life!Answer
  <2> QED BY <1>2, <2>1, <2>2, <2>3 DEF Status, Active, Terminal, Follows, Life!Next
<1>5. CASE MetadataFailed(d)
  <2>1. status[d] = "STARTING" /\ initialized' = initialized /\ Becomes(d, "ERROR", Answered(d))
    BY <1>3, <1>5 DEF MetadataFailed
  <2>2. status'[d] = "ERROR" => Life(d)!Answer
    BY <2>1 DEF Life!Answer
  <2> QED BY <1>2, <2>1, <2>2 DEF Status, Terminal, Follows, Life!Next
<1>6. CASE MetadataDropped(d)
  BY <1>6 DEF MetadataDropped, Follows, Life!vars
<1>7. CASE EngineEnds(d)
  <2>1. initialized' = initialized
    BY <1>7 DEF EngineEnds
  <2>2. PICK x \in { "VERIFYING", "COMPLETED", "ERROR" } :
          /\ Becomes(d, x, probes)
          /\ \/ status[d] = "DOWNLOADING"
             \/ status[d] = "VERIFYING" /\ x \in { "COMPLETED", "ERROR" }
    BY <1>7 DEF EngineEnds
  <2>3. status'[d] = x => Life(d)!Finish \/ Life(d)!Verdict
    BY <2>1, <2>2 DEF Life!Finish, Life!Verdict
  <2> QED BY <1>2, <2>1, <2>2, <2>3 DEF Status, Active, Terminal, Follows, Life!Next
<1> QED BY <1>4, <1>5, <1>6, <1>7 DEF Engine

LEMMA CommandFollows ==
  ASSUME TypeOK, ListInv, NEW d \in Ids, Command(d)
  PROVE  \A c \in Ids : Follows(c)
<1>1. status \in [Ids -> Status]
  BY DEF TypeOK
<1>2. CASE Pause(d)
  <2>1. ASSUME NEW c \in Ids, c # d \/ status[d] # "DOWNLOADING" PROVE Follows(c)
    BY <1>1, <1>2, <2>1 DEF Pause, Follows, Life!vars
  <2>2. status[d] = "DOWNLOADING" => Life(d)!Pause
    BY <1>1, <1>2 DEF Pause, Life!Pause
  <2> QED BY <2>1, <2>2 DEF Follows, Life!Next
<1>3. CASE Resume(d)
  <2>1. PICK x \in { "DOWNLOADING", "VERIFYING", "COMPLETED", "ERROR" } : Becomes(d, x, probes)
    BY <1>3 DEF Resume
  <2>2. status[d] = "PAUSED" /\ d \in initialized /\ initialized' = initialized
    BY <1>3 DEF Resume
  <2>3. status'[d] = x => Life(d)!Resume
    BY <2>2 DEF Life!Resume
  <2>4. PulledFrom([status EXCEPT ![d] = x])
    BY <2>1, BecomesFollows
  <2> QED BY <2>1, <2>2, <2>3, <2>4, AboutFollows DEF Follows, Life!Next
<1>4. CASE ResumeRestored(d) \/ Retry(d)
  <2>1. initialized' = initialized /\ PulledFrom([status EXCEPT ![d] = "PENDING"])
    BY <1>4, ProcessFollows DEF ResumeRestored, Retry
  <2>2. \/ status[d] = "PAUSED" /\ d \notin initialized
        \/ status[d] \in Terminal
    BY <1>4 DEF ResumeRestored, Retry
  <2>3. status'[d] \in {"PENDING", "STARTING"} => Life(d)!Requeue \/ Life(d)!Retry
    BY <2>1, <2>2 DEF Life!Requeue, Life!Retry, Life!Enqueued, Life!Terminal, Terminal
  <2>4. status'[d] \in {"PENDING", "STARTING"} => Follows(d)
    BY <2>3 DEF Follows, Life!Next
  <2>5. \A y \in {"PENDING"} \cup {"STARTING"} : status'[d] = y => Follows(d)
    BY <2>4
  <2> QED BY <2>1, <2>5, AboutFollows
<1>5. CASE Stop(d)
  <2>1. initialized' = initialized /\ PulledFrom([status EXCEPT ![d] = "STOPPED"])
    BY <1>5, FinishFollows DEF Stop
  <2>2. status'[d] = "STOPPED" => Life(d)!Stop
    BY <1>5, <2>1 DEF Stop, Stoppable, Life!Stop
  <2> QED BY <2>1, <2>2, AboutFollows DEF Follows, Life!Next
<1>6. CASE RemoveDownload(d)
  <2> DEFINE st == IF status[d] \in Stoppable THEN [status EXCEPT ![d] = "STOPPED"] ELSE status
  <2>1. PICK k \in 0 .. Len(queue) : Launch(Startable(queue, k, st), SlotsWithout(d), st, probes)
    BY <1>6 DEF RemoveDownload
  <2>2. PulledFrom(st)
    BY <2>1 DEF Launch, Startable, PulledFrom
  <2>3. initialized' = initialized
    BY <1>6 DEF RemoveDownload
  <2>4. CASE status[d] \in Stoppable
    <3>1. PulledFrom([status EXCEPT ![d] = "STOPPED"])
      BY <2>2, <2>4
    <3>2. status'[d] = "STOPPED" => Life(d)!Stop
      BY <2>3, <2>4 DEF Stoppable, Life!Stop
    <3> QED BY <2>3, <3>1, <3>2, AboutFollows DEF Follows, Life!Next
  <2>5. CASE status[d] \notin Stoppable
    <3>1. PulledFrom(status)
      BY <2>2, <2>5
    <3> QED BY <2>3, <3>1, OthersFollow
  <2> QED BY <2>4, <2>5
<1> QED BY <1>2, <1>3, <1>4, <1>5, <1>6 DEF Command

LEMMA ListFollows ==
  ASSUME LateProbes = 0, TypeOK, ListInv, [Next]_vars
  PROVE  \A c \in Ids : Follows(c)
<1>1. status \in [Ids -> Status]
  BY DEF TypeOK
<1>2. CASE LoadRecord
  <2>1. PICK d \in Ids : d = nextId
    BY <1>2 DEF LoadRecord
  <2>2. status[d] = "NEW" /\ initialized' = initialized
    BY <1>2, <2>1 DEF LoadRecord, ListInv, EnginesOK, Ids
  <2>3. status' = status \/ \E x \in RestoredAsIs \cup { "PENDING" } :
                              status' = [status EXCEPT ![d] = x]
    BY <1>2, <2>1 DEF LoadRecord
  <2>4. CASE status' = status
    BY <2>2, <2>4 DEF Follows, Life!vars
  <2>5. ASSUME NEW x \in RestoredAsIs \cup { "PENDING" }, status' = [status EXCEPT ![d] = x]
        PROVE  \A c \in Ids : Follows(c)
    <3>1. ASSUME NEW c \in Ids, c # d PROVE Follows(c)
      BY <1>1, <2>2, <2>5, <3>1 DEF Follows, Life!vars
    <3>2. status'[d] = x
      BY <1>1, <2>5
    <3>3. Life(d)!Create
      BY <2>2, <3>2
         DEF RestoredAsIs, Terminal, Life!Create, Life!Created, Life!Terminal, Life!Enqueued
    <3> QED BY <3>1, <3>3 DEF Follows, Life!Next
  <2> QED BY <2>3, <2>4, <2>5
<1>3. CASE LoadDone
  <2>1. PulledFrom(status) /\ initialized' = initialized
    BY <1>3, ProcessFollows DEF LoadDone
  <2> QED BY <2>1, OthersFollow
<1>4. CASE Add
  <2>1. PICK d \in Ids : d = nextId
    BY <1>4 DEF Add
  <2> DEFINE st == [status EXCEPT ![d] = "PENDING"]
  <2>2. status[d] = "NEW" /\ initialized' = initialized
    BY <1>4, <2>1 DEF Add, ListInv, EnginesOK, Ids
  <2>3. ProcessQueue(Append(queue, d), slots, st, probes) \/ status' = st
    BY <1>4, <2>1 DEF Add
  <2>4. PulledFrom(st)
    <3> HIDE DEF st
    <3> QED BY <2>3, ProcessFollows DEF PulledFrom
  <2>5. status'[d] \in {"PENDING", "STARTING"} => Life(d)!Create
    BY <2>2 DEF Life!Create, Life!Created, Life!Enqueued
  <2>6. \A y \in {"PENDING"} \cup {"STARTING"} : status'[d] = y => Follows(d)
    BY <2>5 DEF Follows, Life!Next
  <2> QED BY <2>2, <2>4, <2>6, AboutFollows
<1>5. ASSUME NEW d \in Ids, OnScheduleDue(d)
      PROVE  \A c \in Ids : Follows(c)
  <2>1. initialized' = initialized
    BY <1>5 DEF OnScheduleDue
  <2>2. ProcessQueue(Append(queue, d), slots, status, probes) \/ status' = status
    BY <1>5 DEF OnScheduleDue
  <2>3. PulledFrom(status)
    BY <2>2, ProcessFollows DEF PulledFrom
  <2> QED BY <2>1, <2>3, OthersFollow
<1>6. CASE (\E n \in Limits : SetLimit(n)) \/ UNCHANGED vars
  BY <1>6 DEF SetLimit, vars, engines, Follows, Life!vars
<1> QED BY <1>2, <1>3, <1>4, <1>5, <1>6, EngineFollows, CommandFollows DEF Next

(* LivesAsPromised, for any number of downloads, under the conditions of    *)
(* ListCorrect: restoring, queueing, the removal of others and errors keep  *)
(* each download to the life cycle of a download (DownloadLifecycle).       *)
THEOREM LivesKept ==
  ASSUME LateProbes = 0, RemoveUnserved = FALSE
  PROVE  Spec => LivesAsPromised
<1>1. Init => TypeOK /\ ListInv /\ \A d \in Ids : Life(d)!Init
  <2>1. Init => \A d \in Ids : status[d] = "NEW" /\ d \notin initialized
    BY DEF Init
  <2> QED BY <2>1, TypeInit, ListInit DEF Life!Init
<1>2. TypeOK /\ ListInv /\ [Next]_vars => (TypeOK /\ ListInv)'
  BY TypeStep, ListStep
<1>3. TypeOK /\ ListInv /\ [Next]_vars => [\A d \in Ids : [Life(d)!Next]_(Life(d)!vars)]_vars
  BY ListFollows DEF Follows
<1> QED BY <1>1, <1>2, <1>3, PTL DEF Spec, LivesAsPromised
=============================================================================
