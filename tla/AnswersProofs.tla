---------------------------- MODULE AnswersProofs ----------------------------
(***************************************************************************)
(* Theorems about those who wait for an answer.  What the dialog shows of  *)
(* the API's key and port works, for any number of keys, ports and starts: *)
(* the hypothesis Overlap = FALSE keeps the two threads from reading the   *)
(* key at the same time; without it the theorem fails, because ApiKeyStore *)
(* has no lock.  What the search tab adds is what a row shows, for any     *)
(* number of searches and results.  And a search merges and ranks exactly  *)
(* what its providers returned, for any number of them and of rows.        *)
(***************************************************************************)
EXTENDS MCAnswers, FiniteSetTheorems, SequenceTheorems, WellFoundedInduction, TLAPS

(* The threads take turns; the one that reads has found no key in memory,   *)
(* and what it is about to store is the key of the file.                    *)
TurnsInv ==
  /\ \A t, u \in Threads : reading[t] # "no" /\ reading[u] # "no" => t = u
  /\ \A t \in Threads : reading[t] # "no" => key = None
  /\ \A t \in Threads : reading[t] \in used => key_file = reading[t]

(* A key in memory or on the screen is the key of the file. *)
KeyInv == /\ key # None => key_file = key
          /\ shown # None => key_file = shown

PortInv == Up => runner[api_server] = "listening"

AccessInv == TypeOK /\ TurnsInv /\ KeyInv /\ PortInv

LEMMA AccessInit == Init => AccessInv
<1> SUFFICES ASSUME Init PROVE AccessInv
  OBVIOUS
<1>1. TypeOK
  BY AttemptsAssumption DEF Init, TypeOK, NoRunners
<1>2. "no" \notin used
  BY KeysAssumption DEF Init
<1>3. TurnsInv
  BY <1>2 DEF Init, TurnsInv
<1> QED BY <1>1, <1>3 DEF AccessInv, KeyInv, PortInv, Up, Init

LEMMA TypeStep ==
  ASSUME TypeOK, [Next]_vars
  PROVE  TypeOK'
<1> USE AttemptsAssumption DEF TypeOK, starting, Attempts, Threads
<1>1. CASE StartUp
  BY <1>1 DEF StartUp, NoRunners
<1>2. ASSUME Fallback, Waiting PROVE TypeOK'
  BY <1>2 DEF Fallback, NextPort, Waiting
<1>3. CASE Starting
  <2>1. CASE Started
    <3>1. attempt \in Attempts
      BY <2>1 DEF Started, Waiting
    <3> QED BY <2>1, <3>1 DEF Started
  <2>2. CASE Failed \/ TimesOut
    BY <1>2, <2>2 DEF Failed, TimesOut
  <2> QED BY <1>3, <2>1, <2>2 DEF Starting
<1>4. CASE Regenerate
  BY <1>4 DEF Regenerate
<1>5. ASSUME NEW a \in Attempts, Bind(a) \/ Others(a) PROVE TypeOK'
  BY <1>5 DEF Bind, Others
<1>6. ASSUME NEW t \in Threads, Has(t) \/ Misses(t) PROVE TypeOK'
  BY <1>6 DEF Has, Misses
<1>7. ASSUME NEW t \in Threads, LoadOrCreate(t) PROVE TypeOK'
  BY <1>7 DEF LoadOrCreate, FileWith
<1>8. ASSUME NEW t \in Threads, Stores(t) PROVE TypeOK'
  BY <1>8 DEF Stores
<1>9. CASE UNCHANGED vars
  BY <1>9 DEF vars
<1> QED BY <1>1, <1>3, <1>4, <1>5, <1>6, <1>7, <1>8, <1>9 DEF Next

LEMMA PortStep ==
  ASSUME TypeOK, PortInv, [Next]_vars
  PROVE  PortInv'
<1> USE DEF TypeOK, starting, Up, PortInv
<1>1. CASE StartUp
  BY <1>1 DEF StartUp
<1>2. CASE Starting
  BY <1>2 DEF Starting, Started, Failed, TimesOut, Waiting, Fallback
<1>3. ASSUME NEW a \in Attempts, Bind(a) PROVE PortInv'
  BY <1>3 DEF Bind
<1>4. CASE UNCHANGED <<api_server, runner>>
  BY <1>4
<1>5. CASE \/ Regenerate
           \/ \E a \in Attempts : Others(a)
           \/ \E t \in Threads : Has(t) \/ Misses(t) \/ LoadOrCreate(t) \/ Stores(t)
  BY <1>4, <1>5 DEF Regenerate, Others, Has, Misses, LoadOrCreate, Stores
<1> QED BY <1>1, <1>2, <1>3, <1>4, <1>5 DEF Next, vars

LEMMA KeyStep ==
  ASSUME Overlap = FALSE, TypeOK, TurnsInv, KeyInv, [Next]_vars
  PROVE  TurnsInv' /\ KeyInv'
<1>1. Threads = {"gui", "loop"} /\ reading \in [Threads -> used \cup {"no", "load"}]
      /\ used \subseteq Keys
  BY DEF TypeOK, Threads
<1>2. "no" \notin Keys /\ "load" \notin Keys /\ None \notin Keys
  BY KeysAssumption
<1>3. ASSUME UNCHANGED <<key_file, key, reading, used, shown>>
      PROVE  TurnsInv' /\ KeyInv'
  BY <1>3 DEF TurnsInv, KeyInv
<1>4. CASE StartUp
  <2>1. \A t \in Threads : reading'[t] = "no"
    BY <1>4 DEF StartUp
  <2>2. TurnsInv'
    BY <1>1, <1>2, <1>4, <2>1 DEF StartUp, TurnsInv
  <2>3. KeyInv'
    BY <1>4 DEF StartUp, KeyInv
  <2> QED BY <2>2, <2>3
<1>5. CASE Starting \/ (\E a \in Attempts : Bind(a) \/ Others(a)) \/ UNCHANGED vars
  BY <1>3, <1>5 DEF Starting, Started, Failed, TimesOut, Fallback, Bind, Others, vars
<1>6. CASE Regenerate
  <2>1. PICK k \in Keys \ used : used' = used \cup {k} /\ key_file' = k /\ key' = k
    BY <1>6 DEF Regenerate
  <2>2. reading' = reading /\ shown' = None /\ \A t \in Threads : reading[t] = "no"
    BY <1>1, <1>6 DEF Regenerate
  <2>3. TurnsInv'
    BY <1>2, <1>1, <2>1, <2>2 DEF TurnsInv
  <2> QED BY <2>1, <2>2, <2>3 DEF KeyInv
<1>7. ASSUME NEW t \in Threads, Enters(t)
      PROVE  \A u \in Threads : reading[u] = "no"
  BY <1>1, <1>7 DEF Enters
<1>8. ASSUME NEW t \in Threads, Has(t) PROVE TurnsInv' /\ KeyInv'
  BY <1>8 DEF Has, TurnsInv, KeyInv
<1>9. ASSUME NEW t \in Threads, Misses(t) PROVE TurnsInv' /\ KeyInv'
  <2>1. /\ reading'[t] = "load" /\ \A u \in Threads \ {t} : reading'[u] = "no"
        /\ key = None /\ UNCHANGED <<key_file, key, used, shown>>
    BY <1>1, <1>7, <1>9 DEF Misses
  <2>2. TurnsInv'
    BY <1>1, <1>2, <2>1 DEF TurnsInv
  <2> QED BY <2>1, <2>2 DEF KeyInv
<1>10. ASSUME NEW t \in Threads, LoadOrCreate(t) PROVE TurnsInv' /\ KeyInv'
  <2>1. /\ key = None /\ \A u \in Threads \ {t} : reading[u] = "no"
        /\ UNCHANGED <<key, shown>>
    BY <1>10 DEF LoadOrCreate, TurnsInv
  <2>2. /\ reading'[t] = key_file' /\ key_file' \in Keys
        /\ \A u \in Threads \ {t} : reading'[u] = "no"
        /\ used' \subseteq Keys
        /\ key_file # None => key_file' = key_file
    BY <1>1, <1>10, <2>1 DEF LoadOrCreate, FileWith, TypeOK
  <2>3. TurnsInv'
    BY <1>1, <1>2, <2>1, <2>2 DEF TurnsInv
  <2>4. KeyInv'
    BY <2>1, <2>2 DEF KeyInv
  <2> QED BY <2>3, <2>4
<1>11. ASSUME NEW t \in Threads, Stores(t) PROVE TurnsInv' /\ KeyInv'
  <2>1. reading[t] \in used /\ reading[t] # "no" /\ key_file = reading[t]
    BY <1>1, <1>2, <1>11 DEF Stores, TurnsInv
  <2>2. /\ \A u \in Threads : reading'[u] = "no"
        /\ key' = reading[t] /\ UNCHANGED <<key_file, used>>
        /\ shown' = shown \/ shown' = reading[t]
    BY <1>1, <1>11, <2>1 DEF Stores, TurnsInv
  <2>3. TurnsInv'
    BY <1>1, <1>2, <2>2 DEF TurnsInv
  <2> QED BY <2>1, <2>2, <2>3 DEF KeyInv
<1> QED BY <1>4, <1>5, <1>6, <1>8, <1>9, <1>10, <1>11 DEF Next

(* The variables of ApiAccess keep their types. *)
THEOREM TypeCorrect == Spec => []TypeOK
<1>1. Init => TypeOK
  BY AccessInit DEF AccessInv
<1> QED BY <1>1, TypeStep, PTL DEF Spec

(* ShownWorks, for every instance in which the threads take turns: what the *)
(* API Access dialog shows is what works, across restarts, fallbacks to     *)
(* other ports and regenerations (ApiInfoDialog, api/auth.py).              *)
THEOREM WhatIsShownWorks ==
  ASSUME Overlap = FALSE
  PROVE  Spec => []ShownWorks
<1>1. AccessInv /\ [Next]_vars => AccessInv'
  BY TypeStep, PortStep, KeyStep DEF AccessInv
<1>2. AccessInv => ShownWorks
  BY DEF AccessInv, KeyInv, PortInv, ShownWorks
<1> QED BY <1>1, <1>2, AccessInit, PTL DEF Spec

-----------------------------------------------------------------------------
(* The search tab.  A menu is about the result it was opened on, and while  *)
(* it is open no search replaces the results.                               *)
MenuInv == menu # 0 => menu \in DOMAIN results /\ pointed = {results[menu]}

(* What was added is what was pointed at; the reference of a worker is      *)
(* dropped only when its thread has ended and its signals were handled.     *)
RowsInv ==
  /\ Rows!TypeOK /\ MenuInv /\ Rows!AddsWhatWasShown /\ Rows!WorkersKept
  /\ running \cap finished = {}

LEMMA OutcomeFacts ==
  /\ << >> \in Rows!Outcomes
  /\ \A rs \in Rows!Outcomes : DOMAIN rs \subseteq 1 .. MaxResults /\ \A i \in DOMAIN rs : rs[i] \in Results
<1>1. << >> \in [1 .. 0 -> Results] /\ \A i, j \in 1 .. 0 : << >>[i] = << >>[j] => i = j
  OBVIOUS
<1>2. 0 \in 0 .. MaxResults
  BY ResultsAssumption
<1>3. << >> \in Rows!Outcomes
  BY <1>1, <1>2 DEF Rows!Outcomes
<1>4. ASSUME NEW rs \in Rows!Outcomes
      PROVE  DOMAIN rs \subseteq 1 .. MaxResults /\ \A i \in DOMAIN rs : rs[i] \in Results
  <2>1. PICK n \in 0 .. MaxResults : rs \in [1 .. n -> Results]
    BY DEF Rows!Outcomes
  <2> QED BY <2>1, ResultsAssumption
<1> QED BY <1>3, <1>4

LEMMA RowFacts ==
  ASSUME Rows!TypeOK
  PROVE  /\ \A n \in DOMAIN rows : rows[n] \in DOMAIN results
         /\ DOMAIN results \subseteq 1 .. MaxResults
         /\ \A i \in DOMAIN results : results[i] \in Results
BY OutcomeFacts DEF Rows!TypeOK

LEMMA PostedFacts ==
  ASSUME Rows!TypeOK, posted # << >>
  PROVE  /\ Head(posted) \in Rows!Signal /\ Tail(posted) \in Seq(Rows!Signal)
         /\ DOMAIN Tail(posted) = 1 .. Len(posted) - 1 /\ DOMAIN posted = 1 .. Len(posted)
         /\ \A i \in DOMAIN Tail(posted) : Tail(posted)[i] = posted[i + 1]
<1>1. posted \in Seq(Rows!Signal)
  BY DEF Rows!TypeOK
<1> QED BY <1>1, HeadTailProperties

LEMMA RowsStart ==
  ASSUME Rows!Init
  PROVE  RowsInv
<1> USE DEF Rows!Init, Rows!NoMenu
<1>1. << >> \in Seq(Rows!Signal)
  OBVIOUS
<1>2. Rows!TypeOK
  BY <1>1, OutcomeFacts DEF Rows!TypeOK
<1>3. MenuInv /\ Rows!AddsWhatWasShown /\ Rows!WorkersKept
  BY DEF MenuInv, Rows!AddsWhatWasShown, Rows!WorkersKept
<1> QED BY <1>2, <1>3 DEF RowsInv

(* The table and the menu are the concern of some actions, the workers that *)
(* of others.                                                               *)
LEMMA TableSame ==
  ASSUME MenuInv, Rows!AddsWhatWasShown, UNCHANGED <<results, menu, pointed, added>>
  PROVE  MenuInv' /\ Rows!AddsWhatWasShown'
BY DEF MenuInv, Rows!AddsWhatWasShown

LEMMA WorkersSame ==
  ASSUME Rows!WorkersKept, running \cap finished = {}, UNCHANGED <<running, finished, refs, posted>>
  PROVE  Rows!WorkersKept' /\ (running \cap finished = {})'
BY DEF Rows!WorkersKept

LEMMA SearchStep ==
  ASSUME RowsInv, NEW s \in Searches, Rows!StartSearch(s) \/ Rows!WorkerRuns(s) \/ Rows!ReleaseWorker(s)
  PROVE  RowsInv'
<1> USE DEF RowsInv
<1>1. UNCHANGED <<results, rows, menu, pointed, added>>
  BY DEF Rows!StartSearch, Rows!WorkerRuns, Rows!ReleaseWorker, Rows!table
<1>2. MenuInv' /\ Rows!AddsWhatWasShown'
  BY <1>1, TableSame
<1>3. CASE Rows!StartSearch(s)
  <2>1. Rows!TypeOK'
    BY <1>1, <1>3 DEF Rows!StartSearch, Rows!TypeOK
  <2>2. Rows!WorkersKept' /\ (running \cap finished = {})'
    BY <1>3 DEF Rows!StartSearch, Rows!WorkersKept
  <2> QED BY <1>2, <2>1, <2>2
<1>4. CASE Rows!WorkerRuns(s)
  <2>1. /\ s \in running /\ running' = running \ {s} /\ finished' = finished \cup {s}
        /\ UNCHANGED <<enabled, refs>>
    BY <1>4 DEF Rows!WorkerRuns
  <2>2. PICK o \in Rows!Outcomes, f \in BOOLEAN :
          posted' = Append(posted, [search |-> s, failed |-> f, outcome |-> IF f THEN << >> ELSE o])
    BY <1>4 DEF Rows!WorkerRuns
  <2> DEFINE e == [search |-> s, failed |-> f, outcome |-> IF f THEN << >> ELSE o]
  <2>3. (IF f THEN << >> ELSE o) \in Rows!Outcomes
    BY OutcomeFacts
  <2>4. e \in Rows!Signal /\ e.search = s
    BY <2>3 DEF Rows!Signal
  <2>5. posted \in Seq(Rows!Signal) /\ posted' = Append(posted, e)
    BY <2>2 DEF Rows!TypeOK
  <2> HIDE DEF e
  <2>6. posted' \in Seq(Rows!Signal) /\ DOMAIN posted' = 1 .. Len(posted) + 1 /\ DOMAIN posted = 1 .. Len(posted)
        /\ posted'[Len(posted) + 1] = e /\ \A i \in 1 .. Len(posted) : posted'[i] = posted[i]
    BY <2>4, <2>5, AppendProperties
  <2>7. Rows!TypeOK'
    BY <1>1, <2>1, <2>6 DEF Rows!TypeOK
  <2>8. s \in refs
    BY <2>1 DEF Rows!WorkersKept
  <2>9. \A i \in DOMAIN posted' : posted'[i].search \in refs
    <3> TAKE i \in DOMAIN posted'
    <3>1. CASE i \in 1 .. Len(posted)
      BY <2>6, <3>1 DEF Rows!WorkersKept
    <3>2. CASE i = Len(posted) + 1
      BY <2>4, <2>6, <2>8, <3>2
    <3>3. Len(posted) \in Nat
      BY <2>5, LenProperties
    <3> QED BY <2>6, <3>1, <3>2, <3>3
  <2>10. Rows!WorkersKept' /\ (running \cap finished = {})'
    BY <2>1, <2>9 DEF Rows!WorkersKept
  <2> QED BY <1>2, <2>7, <2>10
<1>5. CASE Rows!ReleaseWorker(s)
  <2>1. Rows!TypeOK'
    BY <1>1, <1>5 DEF Rows!ReleaseWorker, Rows!TypeOK
  <2>2. Rows!WorkersKept' /\ (running \cap finished = {})'
    BY <1>5 DEF Rows!ReleaseWorker, Rows!WorkersKept
  <2> QED BY <1>2, <2>1, <2>2
<1> QED BY <1>3, <1>4, <1>5

LEMMA OutcomeStep ==
  ASSUME RowsInv, Rows!OnSearchFinished \/ Rows!OnSearchFailed \/ Rows!Sort
  PROVE  RowsInv'
<1> USE DEF RowsInv
<1>1. menu = 0 /\ UNCHANGED <<running, finished, refs, menu, pointed, added>>
  BY DEF Rows!OnSearchFinished, Rows!OnSearchFailed, Rows!Sort, Rows!EventLoop, Rows!Idle, Rows!NoMenu,
         Rows!table
<1>2. MenuInv' /\ Rows!AddsWhatWasShown'
  BY <1>1 DEF MenuInv, Rows!AddsWhatWasShown
<1>3. ASSUME posted # << >>, posted' = Tail(posted)
      PROVE  posted' \in Seq(Rows!Signal) /\ \A i \in DOMAIN posted' : posted'[i].search \in refs
  <2>1. posted' \in Seq(Rows!Signal)
    BY <1>3, PostedFacts
  <2>2. ASSUME NEW i \in DOMAIN posted' PROVE posted'[i].search \in refs
    <3>1. i + 1 \in DOMAIN posted /\ posted'[i] = posted[i + 1]
      <4>1. Len(posted) \in Nat
        BY LenProperties DEF Rows!TypeOK
      <4> QED BY <1>3, <4>1, PostedFacts
    <3> QED BY <3>1 DEF Rows!WorkersKept
  <2> QED BY <2>1, <2>2
<1>4. CASE Rows!OnSearchFinished
  <2>1. /\ posted # << >> /\ posted' = Tail(posted) /\ enabled' = TRUE
        /\ results' = Head(posted).outcome /\ rows' \in Rows!Sorted(results')
    BY <1>4 DEF Rows!OnSearchFinished
  <2>2. results' \in Rows!Outcomes
    BY <2>1, PostedFacts DEF Rows!Signal
  <2>3. Rows!TypeOK'
    BY <1>1, <1>3, <2>1, <2>2 DEF Rows!TypeOK, Rows!Sorted
  <2> QED BY <1>1, <1>2, <1>3, <2>1, <2>3 DEF Rows!WorkersKept
<1>5. CASE Rows!OnSearchFailed
  <2>1. posted # << >> /\ posted' = Tail(posted) /\ enabled' = TRUE /\ UNCHANGED <<results, rows>>
    BY <1>5 DEF Rows!OnSearchFailed, Rows!table
  <2>2. Rows!TypeOK'
    BY <1>1, <1>3, <2>1 DEF Rows!TypeOK
  <2> QED BY <1>1, <1>2, <1>3, <2>1, <2>2 DEF Rows!WorkersKept
<1>6. CASE Rows!Sort
  <2>1. rows' \in Rows!Sorted(results) /\ UNCHANGED <<results, posted, enabled>>
    BY <1>6 DEF Rows!Sort
  <2>2. Rows!TypeOK'
    BY <1>1, <2>1 DEF Rows!TypeOK, Rows!Sorted
  <2> QED BY <1>1, <1>2, <2>1, <2>2, WorkersSame
<1> QED BY <1>4, <1>5, <1>6

LEMMA ClickStep ==
  ASSUME RowsInv,
         \/ \E n \in 1 .. MaxResults : Rows!ClickRow(n) \/ Rows!OpenMenu(n)
         \/ Rows!ChooseAdd \/ Rows!CloseMenu
  PROVE  RowsInv'
<1> USE DEF RowsInv
<1>1. UNCHANGED <<enabled, running, posted, finished, refs, results, rows>>
  BY DEF Rows!ClickRow, Rows!OpenMenu, Rows!ChooseAdd, Rows!CloseMenu, Rows!table
<1>2. Rows!WorkersKept' /\ (running \cap finished = {})'
  BY <1>1, WorkersSame
<1>3. ASSUME MenuInv', Rows!AddsWhatWasShown',
             menu' \in 1 .. MaxResults \cup {0}, pointed' \subseteq Results, added' \subseteq Results \X Results
      PROVE  RowsInv'
  <2>1. Rows!TypeOK'
    BY <1>1, <1>3 DEF Rows!TypeOK, Rows!Indexes, Rows!NoMenu
  <2> QED BY <1>2, <1>3, <2>1
<1>4. /\ menu \in 1 .. MaxResults \cup {0} /\ pointed \subseteq Results /\ added \subseteq Results \X Results
  BY DEF Rows!TypeOK, Rows!Indexes, Rows!NoMenu
<1>5. ASSUME NEW i \in DOMAIN results, added' \in {added, added \cup {<<results[i], results[i]>>}}
      PROVE  Rows!AddsWhatWasShown' /\ added' \subseteq Results \X Results
  BY <1>4, <1>5, RowFacts DEF Rows!AddsWhatWasShown
<1>6. ASSUME NEW n \in 1 .. MaxResults, Rows!ClickRow(n) PROVE RowsInv'
  <2>1. n \in DOMAIN rows /\ menu = 0 /\ UNCHANGED <<menu, pointed>>
    BY <1>6 DEF Rows!ClickRow, Rows!Idle, Rows!NoMenu
  <2>2. rows[n] \in DOMAIN results
    BY <2>1, RowFacts
  <2>3. added' \in {added, added \cup {<<results[rows[n]], results[rows[n]]>>}}
    BY <1>6 DEF Rows!ClickRow, Rows!Adds, Rows!Shown, Rows!row_result_index
  <2>4. MenuInv'
    BY <2>1 DEF MenuInv
  <2> QED BY <1>3, <1>4, <1>5, <2>1, <2>2, <2>3, <2>4
<1>7. ASSUME NEW n \in 1 .. MaxResults, Rows!OpenMenu(n) PROVE RowsInv'
  <2>1. n \in DOMAIN rows /\ menu' = rows[n] /\ pointed' = {results[rows[n]]} /\ UNCHANGED added
    BY <1>7 DEF Rows!OpenMenu, Rows!Shown, Rows!row_result_index
  <2>2. rows[n] \in DOMAIN results /\ rows[n] \in 1 .. MaxResults /\ results[rows[n]] \in Results
    BY <2>1, RowFacts
  <2>3. MenuInv' /\ Rows!AddsWhatWasShown'
    BY <1>1, <2>1, <2>2 DEF MenuInv, Rows!AddsWhatWasShown
  <2> QED BY <1>3, <1>4, <2>1, <2>2, <2>3
<1>8. CASE Rows!ChooseAdd
  <2>1. menu # 0 /\ menu' = 0 /\ pointed' = {} /\ \E seen \in pointed : Rows!Adds(seen, menu)
    BY <1>8 DEF Rows!ChooseAdd, Rows!NoMenu
  <2>2. menu \in DOMAIN results /\ pointed = {results[menu]}
    BY <2>1 DEF MenuInv
  <2>3. added' \in {added, added \cup {<<results[menu], results[menu]>>}}
    BY <2>1, <2>2 DEF Rows!Adds
  <2>4. MenuInv'
    BY <2>1 DEF MenuInv
  <2> QED BY <1>3, <1>5, <2>1, <2>2, <2>3, <2>4
<1>9. CASE Rows!CloseMenu
  <2>1. menu' = 0 /\ pointed' = {} /\ UNCHANGED added
    BY <1>9 DEF Rows!CloseMenu, Rows!NoMenu
  <2>2. MenuInv' /\ Rows!AddsWhatWasShown'
    BY <2>1 DEF MenuInv, Rows!AddsWhatWasShown
  <2> QED BY <1>3, <1>4, <2>1, <2>2
<1> QED BY <1>6, <1>7, <1>8, <1>9

RowsSteady == subject = "rows" => RowsInv

(* For any number of searches and results: a click or a menu adds the       *)
(* result its row showed, wherever sorting moved it and whichever search    *)
(* replaced the table since, as long as none does while a menu is open      *)
(* (_row_result_index); and a worker is referenced while its thread runs or *)
(* its signals are on their way (_release_worker).                          *)
THEOREM RowsAlwaysRight == AnswersSpec => []RowsRight
<1>1. AnswersInit => RowsSteady
  <2>1. Menu!Init => Rows!Init
    BY DEF Menu!Init, Rows!Init, Menu!NoMenu, Rows!NoMenu
  <2> QED BY <2>1, RowsStart DEF AnswersInit, RowsSteady
<1>2. RowsSteady /\ [AnswersNext]_allVars => RowsSteady'
  <2> SUFFICES ASSUME RowsSteady, [AnswersNext]_allVars, subject' = "rows"
               PROVE  RowsInv'
    BY DEF RowsSteady
  <2>1. subject = "rows" /\ (Rows!Next \/ UNCHANGED panelVars)
    BY DEF AnswersNext, About, Access, Api, Search, Panel, allVars
  <2>2. RowsInv
    BY <2>1 DEF RowsSteady
  <2>3. CASE UNCHANGED panelVars
    BY <2>2, <2>3, TableSame, WorkersSame DEF RowsInv, panelVars, Rows!TypeOK
  <2>4. CASE Rows!Next
    BY <2>2, <2>4, SearchStep, OutcomeStep, ClickStep DEF Rows!Next, Rows!Handle, Rows!Indexes
  <2> QED BY <2>1, <2>3, <2>4
<1>3. RowsSteady => RowsRight
  BY DEF RowsSteady, RowsRight, RowsInv
<1> QED BY <1>1, <1>2, <1>3, PTL DEF AnswersSpec

-----------------------------------------------------------------------------
(* A search.  The results are followed from the rows: Kept lists those of a *)
(* provider, Collect joins the lists, dedupe sums up the reports of each    *)
(* torrent, and Ranked is a permutation that puts no lower score first.     *)
(* These are functions made step by step: the lemmas up to PrefixFunction   *)
(* say that such a function exists, so that what is true of the start and   *)
(* kept by the steps is true of the end.                                    *)

(* A set of numbers has a least one. *)
LEMMA LeastNat ==
  ASSUME NEW T \in SUBSET Nat, T # {}
  PROVE  \E n \in T : \A m \in T : n <= m
<1> DEFINE R == {ss \in Nat \X Nat : ss[1] < ss[2]}
<1>1. IsWellFoundedOn(R, Nat)
  BY NatLessThanWellFounded DEF OpToRel
<1>2. PICK x \in T : \A y \in T : ~ (<<y, x>> \in R)
  <2> HIDE DEF R
  <2> QED BY <1>1, WFMin
<1>3. ASSUME NEW y \in T PROVE x <= y
  <2>1. ~ (<<y, x>> \in R) /\ x \in Nat /\ y \in Nat
    BY <1>2
  <2>2. ~(y < x)
    BY <2>1
  <2> QED BY <2>1, <2>2
<1> QED BY <1>3

(* A set that goes on from each number goes on to the last. *)
LEMMA UpTo ==
  ASSUME NEW N \in Nat, NEW S, 0 \in S, \A n \in 1 .. N : n - 1 \in S => n \in S
  PROVE  0 .. N \subseteq S
<1> SUFFICES ASSUME (0 .. N) \ S # {} PROVE FALSE
  OBVIOUS
<1>0. (0 .. N) \ S \in SUBSET Nat
  OBVIOUS
<1>1. PICK n \in (0 .. N) \ S : \A m \in (0 .. N) \ S : n <= m
  BY <1>0, LeastNat
<1>2. n \in 1 .. N /\ n - 1 \in 0 .. N /\ ~(n <= n - 1)
  BY <1>1
<1> QED BY <1>1, <1>2


(* k starts with a and goes on with a step for each number. *)
Steps(k, N, a, step) == k = [n \in 0 .. N |-> IF n = 0 THEN a ELSE step[n][k[n - 1]]]

LEMMA PrefixFunction ==
  ASSUME NEW N \in Nat, NEW A, NEW a \in A, NEW step \in [1 .. N -> [A -> A]]
  PROVE  \E k \in [0 .. N -> A] : Steps(k, N, a, step)
<1> DEFINE Is(k, M) == k \in [0 .. M -> A] /\ k[0] = a
                       /\ \A n \in 1 .. M : k[n] = step[n][k[n - 1]]
           S == { M \in 0 .. N : \E k : Is(k, M) }
<1>1. 0 \in S
  <2>1. Is([n \in 0 .. 0 |-> a], 0)
    OBVIOUS
  <2> HIDE DEF Is
  <2> QED BY <2>1
<1>2. ASSUME NEW M \in 1 .. N, M - 1 \in S PROVE M \in S
  <2>1. PICK k : Is(k, M - 1)
    BY <1>2
  <2> DEFINE l == [n \in 0 .. M |-> IF n = M THEN step[M][k[M - 1]] ELSE k[n]]
  <2>2. M \in Nat /\ M # 0 /\ M - 1 \in 0 .. M - 1 /\ k[M - 1] \in A
    BY <2>1
  <2>3. step[M][k[M - 1]] \in A
    BY <2>2
  <2>4. l \in [0 .. M -> A] /\ l[0] = a
    BY <2>1, <2>2, <2>3
  <2>5. ASSUME NEW n \in 1 .. M PROVE l[n] = step[n][l[n - 1]]
    <3>1. l[n - 1] = k[n - 1]
      BY <2>2
    <3>2. n # M => n \in 1 .. M - 1
      BY <2>2
    <3> QED BY <2>1, <2>2, <3>1, <3>2
  <2>6. Is(l, M)
    BY <2>4, <2>5
  <2> HIDE DEF Is, l
  <2> QED BY <2>6
<1>3. 0 .. N \subseteq S
  <2> HIDE DEF S
  <2> QED BY <1>1, <1>2, UpTo
<1>4. PICK k : Is(k, N)
  BY <1>3
<1>5. Steps(k, N, a, step)
  BY <1>4 DEF Steps
<1> QED BY <1>4, <1>5

-----------------------------------------------------------------------------
(* Merging.                                                                 *)

(* A report of one provider. *)
Single == { r \in Find!Result : Len(r.sources) = 1 }

(* The first n reports that are of the same torrent as r. *)
Same(res, n, r) == { k \in 1 .. n : Find!identity(res[k]) = Find!identity(r) }

(* r sums up the reports K. *)
SumsUp(res, K, r) ==
  /\ K # {} /\ Len(r.sources) = Cardinality(K)
  /\ \A p : p \in Find!ToSet(r.sources) <=> \E k \in K : res[k].sources[1] = p
  /\ \A k \in K : res[k].seeders <= r.seeders
  /\ \E k \in K : res[k].seeders = r.seeders
  /\ r.magnet <=> \E k \in K : res[k].magnet

MergeOf(res, n, m) ==
  /\ m \in Seq(Find!Result)
  /\ \A i, j \in 1 .. Len(m) : Find!identity(m[i]) = Find!identity(m[j]) => i = j
  /\ \A k \in 1 .. n : \E i \in 1 .. Len(m) : Find!identity(m[i]) = Find!identity(res[k])
  /\ \A i \in 1 .. Len(m) : SumsUp(res, Same(res, n, m[i]), m[i])

LEMMA ResultFields ==
  ASSUME NEW r \in Find!Result
  PROVE  /\ r.sources \in Seq(Providers) /\ r.magnet \in BOOLEAN
         /\ r.seeders \in Nat /\ r.seeders \in Seeders
<1>1. r.sources \in Seq(Providers) /\ r.magnet \in BOOLEAN /\ r.seeders \in Seeders
  BY DEF Find!Result
<1> QED BY <1>1, SearchAssumption

LEMMA MergeFacts ==
  ASSUME NEW r \in Find!Result, NEW s \in Find!Result
  PROVE  LET t == Find!Merge(r, s) IN
         /\ t \in Find!Result /\ Find!identity(t) = Find!identity(r)
         /\ t.sources = r.sources \o s.sources
         /\ t.seeders = Find!Larger(r.seeders, s.seeders)
         /\ t.magnet = (r.magnet \/ s.magnet)
<1> USE SearchAssumption
<1>1. r.sources \o s.sources \in Seq(Providers)
  BY DEF Find!Result
<1>2. Find!Larger(r.seeders, s.seeders) \in Seeders
  BY DEF Find!Result, Find!Larger
<1> QED BY <1>1, <1>2 DEF Find!Result, Find!Merge, Find!identity

LEMMA SourcesJoined ==
  ASSUME NEW a \in Seq(Providers), NEW b \in Seq(Providers), Len(b) = 1
  PROVE  /\ Len(a \o b) = Len(a) + 1
         /\ \A p : p \in Find!ToSet(a \o b) <=> p \in Find!ToSet(a) \/ p = b[1]
<1>1. a \o b \in Seq(Providers) /\ Len(a \o b) = Len(a) + 1
  BY ConcatProperties
<1>3. Len(a) \in Nat /\ DOMAIN a = 1 .. Len(a)
  OBVIOUS
<1>2. /\ \A i \in 1 .. Len(a) : (a \o b)[i] = a[i]
      /\ (a \o b)[Len(a) + 1] = b[1]
  <2>1. \A i \in 1 .. Len(a) + Len(b) :
          (a \o b)[i] = IF i <= Len(a) THEN a[i] ELSE b[i - Len(a)]
    BY ConcatProperties
  <2>2. Len(a) + 1 - Len(a) = 1 /\ ~(Len(a) + 1 <= Len(a)) /\ Len(a) + 1 \in 1 .. Len(a) + 1
    BY <1>3
  <2> DEFINE d == a \o b
  <2>5. \A i \in 1 .. Len(a) + 1 : d[i] = IF i <= Len(a) THEN a[i] ELSE b[i - Len(a)]
    BY <2>1
  <2> HIDE DEF d
  <2>3. d[Len(a) + 1] = b[1]
    BY <2>5, <2>2
  <2>4. \A i \in 1 .. Len(a) : i <= Len(a) /\ i \in 1 .. Len(a) + 1
    BY <1>3
  <2>6. \A i \in 1 .. Len(a) : d[i] = a[i]
    BY <2>5, <2>4
  <2> QED BY <2>3, <2>6 DEF d
<1> DEFINE c == a \o b
<1>4. DOMAIN c = 1 .. Len(a) + 1
  BY <1>1
<1>5. 1 .. Len(a) + 1 = (1 .. Len(a)) \cup {Len(a) + 1}
  BY <1>3
<1>6. /\ \A i \in 1 .. Len(a) : c[i] = a[i]
      /\ c[Len(a) + 1] = b[1]
  BY <1>2
<1> HIDE DEF c
<1>7. \A p : p \in Find!ToSet(c) <=> p \in Find!ToSet(a) \/ p = b[1]
  BY <1>3, <1>4, <1>5, <1>6 DEF Find!ToSet
<1> QED BY <1>1, <1>7 DEF c

LEMMA SumsMerged ==
  ASSUME NEW res \in Seq(Single), NEW K \in SUBSET (1 .. Len(res)), NEW n \in 1 .. Len(res),
         n \notin K, NEW r \in Find!Result, SumsUp(res, K, r)
  PROVE  SumsUp(res, K \cup {n}, Find!Merge(r, res[n]))
<1> DEFINE s == res[n]
           t == Find!Merge(r, s)
<1>1. s \in Find!Result /\ Len(s.sources) = 1 /\ s.sources \in Seq(Providers)
      /\ r.sources \in Seq(Providers) /\ r.seeders \in Nat /\ s.seeders \in Nat
      /\ r.magnet \in BOOLEAN /\ s.magnet \in BOOLEAN
  <2>1. s \in Single
    OBVIOUS
  <2> QED BY <2>1, ResultFields DEF Single
<1>2. /\ t.sources = r.sources \o s.sources
      /\ t.seeders = Find!Larger(r.seeders, s.seeders)
      /\ t.magnet = (r.magnet \/ s.magnet)
  BY <1>1, MergeFacts
<1> HIDE DEF t
<1>3. \A k \in K \cup {n} : k \in K \/ k = n
  OBVIOUS
<1>4. Len(t.sources) = Cardinality(K \cup {n})
  <2>1. IsFiniteSet(K) /\ Cardinality(K) \in Nat
    <3>1. IsFiniteSet(1 .. Len(res))
      BY FS_Interval
    <3> QED BY <3>1, FS_Subset, FS_CardinalityType
  <2>2. Cardinality(K \cup {n}) = Cardinality(K) + 1
    BY <2>1, FS_AddElement
  <2> QED BY <1>1, <1>2, <2>2, SourcesJoined DEF SumsUp
<1>5. \A p : p \in Find!ToSet(t.sources) <=> \E k \in K \cup {n} : res[k].sources[1] = p
  <2>1. \A p : p \in Find!ToSet(t.sources) <=> p \in Find!ToSet(r.sources) \/ p = s.sources[1]
    BY <1>1, <1>2, SourcesJoined
  <2>2. \A p : p \in Find!ToSet(r.sources) <=> \E k \in K : res[k].sources[1] = p
    BY DEF SumsUp
  <2> QED BY <2>1, <2>2
<1>6. \A k \in K : res[k].seeders \in Nat
  <2>1. \A k \in K : res[k] \in Single
    OBVIOUS
  <2> QED BY <2>1, ResultFields DEF Single
<1>7. \A k \in K \cup {n} : res[k].seeders <= t.seeders
  <2>1. s.seeders <= t.seeders /\ r.seeders <= t.seeders /\ t.seeders \in Nat
    BY <1>1, <1>2 DEF Find!Larger
  <2>2. \A k \in K : res[k].seeders <= r.seeders
    BY DEF SumsUp
  <2> QED BY <1>1, <1>6, <2>1, <2>2
<1>8. \E k \in K \cup {n} : res[k].seeders = t.seeders
  BY <1>1, <1>2 DEF SumsUp, Find!Larger
<1>9. t.magnet <=> \E k \in K \cup {n} : res[k].magnet
  BY <1>1, <1>2 DEF SumsUp
<1> QED BY <1>4, <1>5, <1>7, <1>8, <1>9 DEF SumsUp, t

LEMMA SumsOne ==
  ASSUME NEW res \in Seq(Single), NEW n \in 1 .. Len(res)
  PROVE  SumsUp(res, {n}, res[n])
<1> DEFINE s == res[n]
<1>1. Len(s.sources) = 1 /\ s.sources \in Seq(Providers) /\ s.seeders \in Nat
      /\ s.magnet \in BOOLEAN
  <2>1. s \in Single
    OBVIOUS
  <2> QED BY <2>1, ResultFields DEF Single
<1>2. Cardinality({n}) = 1
  BY FS_Singleton
<1>3. DOMAIN s.sources = {1}
  BY <1>1
<1>4. \A p : p \in Find!ToSet(s.sources) <=> s.sources[1] = p
  BY <1>3 DEF Find!ToSet
<1> QED BY <1>1, <1>2, <1>4 DEF SumsUp

LEMMA AbsorbStep ==
  ASSUME NEW res \in Seq(Single), NEW n \in 1 .. Len(res), NEW m, MergeOf(res, n - 1, m)
  PROVE  MergeOf(res, n, Find!Absorb(res[n])[m])
<1> DEFINE r == res[n]
           t == Find!Absorb(r)[m]
           id(x) == Find!identity(x)
<1>1. m \in Seq(Find!Result) /\ Len(m) \in Nat /\ DOMAIN m = 1 .. Len(m)
  BY DEF MergeOf
<1>2. r \in Find!Result /\ r \in Single
  BY DEF Single
<1>3. 1 .. n = (1 .. n - 1) \cup {n} /\ n \notin 1 .. n - 1 /\ 1 .. n - 1 \subseteq 1 .. Len(res)
      /\ \A k \in 1 .. n : k \in 1 .. n - 1 \/ k = n
  OBVIOUS
<1>4. \A x : Same(res, n, x) = IF id(r) = id(x) THEN Same(res, n - 1, x) \cup {n}
                               ELSE Same(res, n - 1, x)
  BY <1>3 DEF Same
<1>5. \A x : Same(res, n - 1, x) \in SUBSET (1 .. Len(res)) /\ n \notin Same(res, n - 1, x)
  BY <1>3 DEF Same
<1>6. \A x, y : id(x) = id(y) => Same(res, n - 1, x) = Same(res, n - 1, y)
  BY DEF Same
<1>7. /\ \A i, j \in 1 .. Len(m) : id(m[i]) = id(m[j]) => i = j
      /\ \A k \in 1 .. n - 1 : \E i \in 1 .. Len(m) : id(m[i]) = id(res[k])
      /\ \A i \in 1 .. Len(m) : SumsUp(res, Same(res, n - 1, m[i]), m[i])
  BY DEF MergeOf
<1>8. CASE \E i \in DOMAIN m : id(m[i]) = id(r)
  <2>1. t = [i \in DOMAIN m |-> IF id(m[i]) = id(r) THEN Find!Merge(m[i], r) ELSE m[i]]
    BY <1>1, <1>8 DEF Find!Absorb
  <2>2. \A i \in 1 .. Len(m) :
          /\ m[i] \in Find!Result
          /\ Find!Merge(m[i], r) \in Find!Result /\ id(Find!Merge(m[i], r)) = id(m[i])
    <3>1. \A i \in 1 .. Len(m) : m[i] \in Find!Result
      BY <1>1
    <3> QED BY <1>2, <3>1, MergeFacts
  <2>3. \A i \in 1 .. Len(m) : t[i] \in Find!Result /\ id(t[i]) = id(m[i])
    BY <1>1, <2>1, <2>2
  <2>4. t \in Seq(Find!Result) /\ Len(t) = Len(m)
    <3>1. t \in [1 .. Len(m) -> Find!Result]
      <4>1. t = [i \in 1 .. Len(m) |-> t[i]]
        BY <1>1, <2>1
      <4> HIDE DEF t
      <4> QED BY <4>1, <2>3
    <3> HIDE DEF t
    <3> QED BY <1>1, <3>1
  <2>5. ASSUME NEW i \in 1 .. Len(m) PROVE SumsUp(res, Same(res, n, t[i]), t[i])
    <3>1. CASE id(m[i]) = id(r)
      <4>1. t[i] = Find!Merge(m[i], r)
        BY <1>1, <2>1, <3>1
      <4>2. Same(res, n, t[i]) = Same(res, n - 1, m[i]) \cup {n}
        BY <1>4, <1>6, <2>3, <3>1
      <4>3. SumsUp(res, Same(res, n - 1, m[i]) \cup {n}, Find!Merge(m[i], r))
        <5>1. SumsUp(res, Same(res, n - 1, m[i]), m[i])
          BY <1>7
        <5>2. m[i] \in Find!Result
          BY <2>2
        <5> QED BY <1>5, <5>1, <5>2, SumsMerged
      <4> QED BY <4>1, <4>2, <4>3
    <3>2. CASE id(m[i]) # id(r)
      <4>1. t[i] = m[i]
        BY <1>1, <2>1, <3>2
      <4> QED BY <1>4, <1>7, <3>2, <4>1
    <3> QED BY <3>1, <3>2
  <2>6. \A k \in 1 .. n : \E i \in 1 .. Len(t) : id(t[i]) = id(res[k])
    BY <1>1, <1>3, <1>7, <1>8, <2>3, <2>4
  <2>7. \A i, j \in 1 .. Len(t) : id(t[i]) = id(t[j]) => i = j
    BY <1>7, <2>3, <2>4
  <2> HIDE DEF t
  <2>8. MergeOf(res, n, t)
    BY <2>4, <2>5, <2>6, <2>7 DEF MergeOf
  <2> QED BY <2>8 DEF t
<1>9. CASE ~ \E i \in DOMAIN m : id(m[i]) = id(r)
  <2>1. t = Append(m, r)
    BY <1>1, <1>9 DEF Find!Absorb
  <2>2. t \in Seq(Find!Result) /\ Len(t) = Len(m) + 1
        /\ (\A i \in 1 .. Len(m) : t[i] = m[i]) /\ t[Len(m) + 1] = r
    BY <1>1, <1>2, <2>1
  <2> HIDE DEF t
  <2>3. \A i \in 1 .. Len(t) : i \in 1 .. Len(m) \/ i = Len(m) + 1
    BY <1>1, <2>2
  <2>4. Same(res, n - 1, r) = {}
    BY <1>1, <1>7, <1>9 DEF Same
  <2>5. SumsUp(res, Same(res, n, r), r)
    <3>1. Same(res, n, r) = {n}
      BY <1>4, <2>4
    <3> QED BY <3>1, SumsOne
  <2>6. \A i \in 1 .. Len(m) : SumsUp(res, Same(res, n, m[i]), m[i])
    <3>1. \A i \in 1 .. Len(m) : id(m[i]) # id(r)
      BY <1>1, <1>9
    <3> QED BY <1>4, <1>7, <3>1
  <2>7. \A i \in 1 .. Len(t) : SumsUp(res, Same(res, n, t[i]), t[i])
    BY <2>2, <2>3, <2>5, <2>6
  <2>8. \A k \in 1 .. n : \E i \in 1 .. Len(t) : id(t[i]) = id(res[k])
    <3>1. Len(m) + 1 \in 1 .. Len(t) /\ \A i \in 1 .. Len(m) : i \in 1 .. Len(t)
      BY <1>1, <2>2
    <3>2. ASSUME NEW k \in 1 .. n - 1 PROVE \E i \in 1 .. Len(t) : id(t[i]) = id(res[k])
      <4>1. PICK i \in 1 .. Len(m) : id(m[i]) = id(res[k])
        BY <1>7
      <4> QED BY <2>2, <3>1, <4>1
    <3>3. \E i \in 1 .. Len(t) : id(t[i]) = id(res[n])
      BY <2>2, <3>1
    <3> QED BY <1>3, <3>2, <3>3
  <2>9. \A i, j \in 1 .. Len(t) : id(t[i]) = id(t[j]) => i = j
    <3>1. \A i \in 1 .. Len(m) : id(m[i]) # id(r)
      BY <1>1, <1>9
    <3> QED BY <1>7, <2>2, <2>3, <3>1
  <2>10. MergeOf(res, n, t)
    BY <2>2, <2>7, <2>8, <2>9 DEF MergeOf
  <2> QED BY <2>10 DEF t
<1> QED BY <1>8, <1>9

LEMMA AbsorbType ==
  ASSUME NEW r \in Find!Result
  PROVE  Find!Absorb(r) \in [Seq(Find!Result) -> Seq(Find!Result)]
<1> DEFINE id(x) == Find!identity(x)
<1>1. ASSUME NEW m \in Seq(Find!Result) PROVE Find!Absorb(r)[m] \in Seq(Find!Result)
  <2>1. CASE \E i \in DOMAIN m : id(m[i]) = id(r)
    <3> DEFINE t == [i \in DOMAIN m |-> IF id(m[i]) = id(r) THEN Find!Merge(m[i], r) ELSE m[i]]
    <3>1. Find!Absorb(r)[m] = t
      BY <2>1 DEF Find!Absorb
    <3>2. Len(m) \in Nat /\ DOMAIN m = 1 .. Len(m) /\ \A i \in 1 .. Len(m) : m[i] \in Find!Result
      OBVIOUS
    <3>3. \A i \in 1 .. Len(m) : Find!Merge(m[i], r) \in Find!Result
      BY <3>2, MergeFacts
    <3>4. t \in [1 .. Len(m) -> Find!Result]
      BY <3>2, <3>3
    <3> HIDE DEF t
    <3> QED BY <3>1, <3>2, <3>4
  <2>2. CASE ~ \E i \in DOMAIN m : id(m[i]) = id(r)
    <3>1. Find!Absorb(r)[m] = Append(m, r)
      BY <2>2 DEF Find!Absorb
    <3> QED BY <3>1
  <2> QED BY <2>1, <2>2
<1>2. Find!Absorb(r) = [m \in Seq(Find!Result) |-> Find!Absorb(r)[m]]
  BY DEF Find!Absorb
<1> HIDE DEF Find!Absorb
<1> QED BY <1>1, <1>2

LEMMA Deduped ==
  ASSUME NEW res \in Seq(Single)
  PROVE  MergeOf(res, Len(res), Find!dedupe(res))
<1> DEFINE N == Len(res)
           A == Seq(Find!Result)
           step == [n \in 1 .. N |-> Find!Absorb(res[n])]
           Is(k) == k = [n \in 0 .. N |-> IF n = 0 THEN <<>> ELSE Find!Absorb(res[n])[k[n - 1]]]
           merged == CHOOSE k : Is(k)
<1>1. N \in Nat /\ \A n \in 1 .. N : res[n] \in Find!Result
  BY DEF Single
<1>2. step \in [1 .. N -> [A -> A]]
  BY <1>1, AbsorbType
<1> DEFINE none == <<>>
<1>3. none \in A
  OBVIOUS
<1>4. PICK k \in [0 .. N -> A] : Steps(k, N, none, step)
  <2> HIDE DEF step, A, N, none
  <2> QED BY <1>1, <1>2, <1>3, PrefixFunction
<1>5. Is(k)
  <2>1. \A n \in 0 .. N : n = 0 \/ n \in 1 .. N
    BY <1>1
  <2>2. \A n \in 1 .. N : step[n] = Find!Absorb(res[n])
    OBVIOUS
  <2> HIDE DEF step
  <2> QED BY <1>4, <2>1, <2>2 DEF Steps
<1>6. Is(merged)
  <2> HIDE DEF Is
  <2> QED BY <1>5
<1>7. Find!dedupe(res) = merged[N]
  BY DEF Find!dedupe
<1> HIDE DEF merged
<1> DEFINE S == { n \in 0 .. N : MergeOf(res, n, merged[n]) }
<1>8. 0 \in S
  <2>1. merged[0] = <<>>
    BY <1>1, <1>6
  <2>2. MergeOf(res, 0, <<>>)
    BY DEF MergeOf
  <2> QED BY <1>1, <2>1, <2>2
<1>9. ASSUME NEW n \in 1 .. N, n - 1 \in S PROVE n \in S
  <2>1. merged[n] = Find!Absorb(res[n])[merged[n - 1]]
    BY <1>1, <1>6
  <2>2. MergeOf(res, n - 1, merged[n - 1])
    BY <1>9
  <2>3. MergeOf(res, n, merged[n])
    BY <2>1, <2>2, AbsorbStep
  <2> QED BY <1>1, <2>3
<1>10. N \in S
  <2>1. 0 .. N \subseteq S
    <3> HIDE DEF S, N
    <3> QED BY <1>1, <1>8, <1>9, UpTo
  <2> HIDE DEF S
  <2> QED BY <1>1, <2>1
<1> QED BY <1>7, <1>10

-----------------------------------------------------------------------------
(* Collecting.                                                              *)

(* s has the report of each row of T, a set of pairs of a provider and the  *)
(* number of one of its rows; g[k] is the row of the k-th.                  *)
Lists(g, s, T) ==
  /\ s \in Seq(Single)
  /\ g \in [1 .. Len(s) -> T]
  /\ \A k, l \in 1 .. Len(s) : g[k] = g[l] => k = l
  /\ \A t \in T : \E k \in 1 .. Len(s) : g[k] = t
  /\ \A k \in 1 .. Len(s) : s[k] = Find!Parsed(g[k][1], found[g[k][1]][g[k][2]])

LEMMA ListsJoined ==
  ASSUME NEW g, NEW s, NEW T, Lists(g, s, T), NEW h, NEW u, NEW U, Lists(h, u, U), T \cap U = {}
  PROVE  \E f : Lists(f, s \o u, T \cup U)
<1> DEFINE c == s \o u
           m == Len(s)
           n == Len(u)
           f == [k \in 1 .. m + n |-> IF k <= m THEN g[k] ELSE h[k - m]]
<1>1. s \in Seq(Single) /\ u \in Seq(Single) /\ m \in Nat /\ n \in Nat
  BY DEF Lists
<1>2. /\ c \in Seq(Single) /\ Len(c) = m + n
      /\ \A i \in 1 .. m + n : c[i] = IF i <= m THEN s[i] ELSE u[i - m]
  BY <1>1, ConcatProperties
<1>3. \A k \in 1 .. m + n : IF k <= m THEN k \in 1 .. m ELSE k - m \in 1 .. n
  BY <1>1
<1>4. \A k \in 1 .. m : k \in 1 .. m + n /\ k <= m
  BY <1>1
<1> HIDE DEF c, m, n
<1>5. \A k \in 1 .. m + n : f[k] = IF k <= m THEN g[k] ELSE h[k - m]
  OBVIOUS
<1>6. (\A k \in 1 .. m : g[k] \in T) /\ (\A k \in 1 .. n : h[k] \in U)
  BY DEF Lists, m, n
<1>7. f \in [1 .. m + n -> T \cup U]
  BY <1>3, <1>6
<1> HIDE DEF f
<1>8. ASSUME NEW k \in 1 .. m + n, NEW l \in 1 .. m + n, f[k] = f[l] PROVE k = l
  <2>1. CASE k <= m /\ l <= m
    BY <1>3, <1>5, <1>8, <2>1 DEF Lists, m
  <2>2. CASE ~(k <= m) /\ ~(l <= m)
    <3>1. k - m \in 1 .. n /\ l - m \in 1 .. n /\ h[k - m] = h[l - m]
      BY <1>3, <1>5, <1>8, <2>2
    <3>2. k - m = l - m
      BY <3>1 DEF Lists, n
    <3> QED BY <1>1, <3>2
  <2>3. CASE ~((k <= m /\ l <= m) \/ (~(k <= m) /\ ~(l <= m)))
    BY <1>3, <1>5, <1>6, <1>8, <2>3
  <2> QED BY <2>1, <2>2, <2>3
<1>9. ASSUME NEW t \in T \cup U PROVE \E k \in 1 .. m + n : f[k] = t
  <2>1. CASE t \in T
    <3>1. PICK k \in 1 .. m : g[k] = t
      BY <2>1 DEF Lists, m
    <3> QED BY <1>4, <1>5, <3>1
  <2>2. CASE t \in U
    <3>1. PICK k \in 1 .. n : h[k] = t
      BY <2>2 DEF Lists, n
    <3> DEFINE j == k + m
    <3>2. j \in 1 .. m + n /\ ~(j <= m) /\ j - m = k
      BY <1>1, <3>1
    <3> HIDE DEF j
    <3>3. f[j] = h[j - m]
      BY <1>5, <3>2
    <3> QED BY <3>1, <3>2, <3>3
  <2> QED BY <2>1, <2>2
<1>10. ASSUME NEW k \in 1 .. m + n
       PROVE  c[k] = Find!Parsed(f[k][1], found[f[k][1]][f[k][2]])
  <2>1. CASE k <= m
    BY <1>2, <1>3, <1>5, <2>1 DEF Lists, m
  <2>2. CASE ~(k <= m)
    <3>1. k - m \in 1 .. n /\ f[k] = h[k - m] /\ c[k] = u[k - m]
      BY <1>2, <1>3, <1>5, <2>2
    <3> QED BY <3>1 DEF Lists, n
  <2> QED BY <2>1, <2>2
<1>11. Lists(f, c, T \cup U)
  BY <1>2, <1>7, <1>8, <1>9, <1>10 DEF Lists
<1> QED BY <1>11 DEF c

LEMMA ParsedType ==
  ASSUME NEW p \in Providers, NEW row \in Find!Row, row.kind = "good"
  PROVE  row \in Find!Good /\ Find!Parsed(p, row) \in Single
<1>1. row \in Find!Good
  <2>1. ASSUME row \in [ kind : {"untitled"} \cup (IF Malformed THEN {"malformed"} ELSE {}) ]
        PROVE  FALSE
    <3>1. row.kind \in {"untitled", "malformed"}
      BY <2>1
    <3> QED BY <3>1
  <2> QED BY <2>1 DEF Find!Row
<1>2. <<p>> \in Seq(Providers) /\ Len(<<p>>) = 1
  OBVIOUS
<1> DEFINE ps == <<p>>
           r == [title |-> row.title, infohash |-> row.infohash, seeders |-> row.seeders,
                 magnet |-> row.magnet, sources |-> ps]
<1> HIDE DEF ps
<1>3. r \in Find!Result /\ r.sources = ps
  BY <1>1, <1>2 DEF Find!Good, Find!Result, ps
<1>4. Find!Parsed(p, row) = r
  BY DEF Find!Parsed, ps
<1> HIDE DEF r
<1> QED BY <1>1, <1>2, <1>3, <1>4 DEF Single, ps

(* The rows among the first n of p that are kept. *)
Goods(p, n) == { t \in {p} \X (1 .. n) : found[p][t[2]].kind = "good" }

LEMMA ListsOne ==
  ASSUME NEW p \in Providers, NEW n \in Nat, found[p][n] \in Find!Row,
         found[p][n].kind = "good"
  PROVE  \E h : Lists(h, <<Find!Parsed(p, found[p][n])>>, {<<p, n>>})
<1> DEFINE x == Find!Parsed(p, found[p][n])
           s == <<x>>
           t == <<p, n>>
           h == [k \in 1 .. 1 |-> t]
<1>1. x \in Single
  BY ParsedType
<1>2. s \in Seq(Single) /\ Len(s) = 1 /\ s[1] = x
  BY <1>1
<1>3. t[1] = p /\ t[2] = n
  OBVIOUS
<1>5. x = Find!Parsed(t[1], found[t[1]][t[2]])
  BY <1>3
<1>6. \A k \in 1 .. 1 : k = 1
  OBVIOUS
<1> HIDE DEF x, s, t
<1>4. h \in [1 .. 1 -> {t}] /\ h[1] = t
  OBVIOUS
<1> HIDE DEF h
<1>7. Lists(h, s, {t})
  BY <1>2, <1>4, <1>5, <1>6 DEF Lists
<1> QED BY <1>7 DEF s, x, t

LEMMA ListsNone == \E h : Lists(h, <<>>, {})
<1>1. Lists([k \in 1 .. 0 |-> k], <<>>, {})
  BY DEF Lists
<1> HIDE DEF Lists
<1> QED BY <1>1

LEMMA KeptRight ==
  ASSUME NEW p \in Providers, found[p] \in Seq(Find!Row)
  PROVE  \E h : Lists(h, Find!Kept(p), Goods(p, Len(found[p])))
<1> DEFINE rs == found[p]
           N == Len(rs)
           A == Seq(Single)
           step == [n \in 1 .. N |-> [s \in A |->
                      IF rs[n].kind = "good" THEN Append(s, Find!Parsed(p, rs[n])) ELSE s]]
           Is(k) == k = [n \in 0 .. N |->
                           IF n = 0 THEN <<>>
                           ELSE IF rs[n].kind = "good"
                                THEN Append(k[n - 1], Find!Parsed(p, rs[n]))
                                ELSE k[n - 1]]
           kept == CHOOSE k : Is(k)
           none == <<>>
<1>1. N \in Nat /\ \A n \in 1 .. N : rs[n] \in Find!Row
  OBVIOUS
<1>2. step \in [1 .. N -> [A -> A]]
  <2>1. \A n \in 1 .. N : rs[n].kind = "good" => Find!Parsed(p, rs[n]) \in Single
    BY <1>1, ParsedType
  <2> QED BY <2>1
<1>3. none \in A
  OBVIOUS
<1>4. PICK k \in [0 .. N -> A] : Steps(k, N, none, step)
  <2> HIDE DEF step, A, N, none
  <2> QED BY <1>1, <1>2, <1>3, PrefixFunction
<1>5. Is(k)
  <2>1. (\A n \in 0 .. N : n = 0 \/ n \in 1 .. N) /\ (\A n \in 1 .. N : n - 1 \in 0 .. N)
    BY <1>1
  <2>2. \A n \in 1 .. N : \A s \in A :
          step[n][s] = IF rs[n].kind = "good" THEN Append(s, Find!Parsed(p, rs[n])) ELSE s
    OBVIOUS
  <2> HIDE DEF step, A
  <2>3. \A n \in 1 .. N : k[n - 1] \in A
    BY <1>4, <2>1
  <2> QED BY <1>4, <2>1, <2>2, <2>3 DEF Steps
<1>6. Is(kept)
  <2> HIDE DEF Is
  <2> QED BY <1>5
<1>7. Find!Kept(p) = kept[N]
  BY DEF Find!Kept
<1> HIDE DEF kept
<1>11. kept[0] = <<>> /\ \A n \in 1 .. N : kept[n] = IF rs[n].kind = "good"
                                                    THEN Append(kept[n - 1], Find!Parsed(p, rs[n]))
                                                    ELSE kept[n - 1]
  <2> HIDE DEF N
  <2>1. 0 \in 0 .. N /\ \A n \in 1 .. N : n \in 0 .. N /\ n # 0
    BY <1>1
  <2> QED BY <1>6, <2>1
<1> DEFINE S == { n \in 0 .. N : \E h : Lists(h, kept[n], Goods(p, n)) }
<1>8. 0 \in S
  <2>1. kept[0] = <<>>
    BY <1>11
  <2>2. Goods(p, 0) = {}
    BY DEF Goods
  <2> QED BY <1>1, <2>1, <2>2, ListsNone
<1>9. ASSUME NEW n \in 1 .. N, n - 1 \in S PROVE n \in S
  <2>1. PICK h : Lists(h, kept[n - 1], Goods(p, n - 1))
    BY <1>9
  <2>2. 1 .. n = (1 .. n - 1) \cup {n} /\ n \notin 1 .. n - 1
    BY <1>1
  <2>3. CASE rs[n].kind = "good"
    <3>1. kept[n] = Append(kept[n - 1], Find!Parsed(p, rs[n]))
      BY <1>11, <2>3
    <3>2. Goods(p, n) = Goods(p, n - 1) \cup {<<p, n>>} /\ Goods(p, n - 1) \cap {<<p, n>>} = {}
      BY <2>2, <2>3 DEF Goods
    <3>3. PICK u : Lists(u, <<Find!Parsed(p, rs[n])>>, {<<p, n>>})
      <4>1. n \in Nat /\ found[p][n] \in Find!Row
        BY <1>1
      <4> QED BY <2>3, <4>1, ListsOne
    <3>4. Append(kept[n - 1], Find!Parsed(p, rs[n])) = kept[n - 1] \o <<Find!Parsed(p, rs[n])>>
      <4>1. kept[n - 1] \in Seq(Single)
        BY <2>1 DEF Lists
      <4>2. Find!Parsed(p, rs[n]) \in Single
        BY <1>1, <2>3, ParsedType
      <4> QED BY <4>1, <4>2, AppendIsConcat
    <3>5. \E f : Lists(f, kept[n - 1] \o <<Find!Parsed(p, rs[n])>>, Goods(p, n - 1) \cup {<<p, n>>})
      BY <2>1, <3>2, <3>3, ListsJoined
    <3>6. \E f : Lists(f, kept[n], Goods(p, n))
      BY <3>1, <3>2, <3>4, <3>5
    <3> QED BY <1>1, <3>6
  <2>4. CASE rs[n].kind # "good"
    <3>1. kept[n] = kept[n - 1]
      BY <1>11, <2>4
    <3>2. Goods(p, n) = Goods(p, n - 1)
      BY <2>2, <2>4 DEF Goods
    <3> QED BY <1>1, <2>1, <3>1, <3>2
  <2> QED BY <2>3, <2>4
<1>10. N \in S
  <2>1. 0 .. N \subseteq S
    <3> HIDE DEF S, N
    <3> QED BY <1>1, <1>8, <1>9, UpTo
  <2> HIDE DEF S
  <2> QED BY <1>1, <2>1
<1> QED BY <1>7, <1>10

-----------------------------------------------------------------------------
(* Ranking.                                                                 *)

LEMMA SameCardinality == \A S : Find!Cardinality(S) = Cardinality(S)
BY DEF Find!Cardinality, Cardinality

LEMMA LogFacts ==
  /\ \A n \in Seeders : Log[n] \in Nat
  /\ \A k, n \in Seeders : k <= n => Log[k] <= Log[n]
BY SearchAssumption

LEMMA ScoreFacts ==
  ASSUME NEW r \in Find!Result
  PROVE  /\ Find!score(r) \in Int
         /\ Len(r.sources) > 0 => Find!score(r) >= Log[r.seeders]
<1> DEFINE T == Find!ToSet(r.sources)
<1>1. r.sources \in Seq(Providers) /\ Log[r.seeders] \in Nat
  BY ResultFields, LogFacts
<1>2. T \subseteq Providers
  BY <1>1 DEF Find!ToSet
<1>3. IsFiniteSet(T) /\ Cardinality(T) \in Nat
  <2>1. IsFiniteSet(Providers)
    BY SearchAssumption
  <2> QED BY <1>2, <2>1, FS_Subset, FS_CardinalityType
<1>4. Len(r.sources) > 0 => Cardinality(T) # 0
  <2>1. Len(r.sources) > 0 => T # {}
    <3>1. Len(r.sources) > 0 => 1 \in DOMAIN r.sources
      BY <1>1
    <3> QED BY <3>1 DEF Find!ToSet
  <2> QED BY <1>3, <2>1, FS_EmptySet
<1>5. Find!score(r) = Log[r.seeders] + 150 * (Cardinality(T) - 1)
  BY SameCardinality DEF Find!score
<1> HIDE DEF T
<1> QED BY <1>1, <1>3, <1>4, <1>5

LEMMA BeforeFacts ==
  ASSUME NEW m \in Seq(Find!Result)
  PROVE  \A i, j \in 1 .. Len(m) :
           /\ ~ Find!Before(m, i, i)
           /\ i # j => Find!Before(m, i, j) \/ Find!Before(m, j, i)
           /\ Find!Before(m, i, j) => Find!score(m[i]) >= Find!score(m[j])
           /\ \A k \in 1 .. Len(m) :
                Find!Before(m, i, j) /\ Find!Before(m, j, k) => Find!Before(m, i, k)
<1>1. \A i \in 1 .. Len(m) : Find!score(m[i]) \in Int
  BY ScoreFacts
<1>2. \A i \in 1 .. Len(m) : m[i].title \in Nat
  <2>1. \A r \in Find!Result : r.title \in Titles
    BY DEF Find!Result
  <2>2. \A i \in 1 .. Len(m) : m[i] \in Find!Result
    OBVIOUS
  <2> QED BY <2>1, <2>2, SearchAssumption
<1> DEFINE N == Len(m)
           sc == [i \in 1 .. N |-> Find!score(m[i])]
           ti == [i \in 1 .. N |-> m[i].title]
<1>3. N \in Nat
  OBVIOUS
<1>4. sc \in [1 .. N -> Int] /\ ti \in [1 .. N -> Nat]
  BY <1>1, <1>2
<1>5. \A i, j \in 1 .. N : Find!Before(m, i, j) <=>
        \/ sc[i] > sc[j]
        \/ sc[i] = sc[j] /\ (ti[i] < ti[j] \/ (ti[i] = ti[j] /\ i < j))
  BY DEF Find!Before
<1>6. ASSUME NEW i \in 1 .. N, NEW j \in 1 .. N
      PROVE  /\ ~ Find!Before(m, i, i)
             /\ i # j => Find!Before(m, i, j) \/ Find!Before(m, j, i)
             /\ Find!Before(m, i, j) => sc[i] >= sc[j]
  <2> HIDE DEF N, sc, ti
  <2>1. /\ sc[i] \in Int /\ sc[j] \in Int /\ ti[i] \in Nat /\ ti[j] \in Nat
        /\ i \in Int /\ j \in Int
    BY <1>3, <1>4
  <2>2. ~ (sc[i] > sc[i] \/ (sc[i] = sc[i] /\ (ti[i] < ti[i] \/ (ti[i] = ti[i] /\ i < i))))
    BY <2>1
  <2>3. i # j =>
          \/ sc[i] > sc[j] \/ (sc[i] = sc[j] /\ (ti[i] < ti[j] \/ (ti[i] = ti[j] /\ i < j)))
          \/ sc[j] > sc[i] \/ (sc[j] = sc[i] /\ (ti[j] < ti[i] \/ (ti[j] = ti[i] /\ j < i)))
    BY <2>1
  <2>4. sc[i] > sc[j] \/ (sc[i] = sc[j] /\ (ti[i] < ti[j] \/ (ti[i] = ti[j] /\ i < j)))
          => sc[i] >= sc[j]
    BY <2>1
  <2>5. ~ Find!Before(m, i, i)
    BY <1>5, <2>2
  <2>6. i # j => Find!Before(m, i, j) \/ Find!Before(m, j, i)
    BY <1>5, <2>3
  <2>7. Find!Before(m, i, j) => sc[i] >= sc[j]
    BY <1>5, <2>4
  <2> QED BY <2>5, <2>6, <2>7
<1>8. ASSUME NEW i \in 1 .. N, NEW j \in 1 .. N, NEW k \in 1 .. N,
             Find!Before(m, i, j), Find!Before(m, j, k)
      PROVE  Find!Before(m, i, k)
  <2> HIDE DEF N, sc, ti
  <2>1. /\ sc[i] \in Int /\ sc[j] \in Int /\ sc[k] \in Int
        /\ ti[i] \in Nat /\ ti[j] \in Nat /\ ti[k] \in Nat
        /\ i \in Int /\ j \in Int /\ k \in Int
    BY <1>3, <1>4
  <2>2. /\ sc[i] > sc[j] \/ (sc[i] = sc[j] /\ (ti[i] < ti[j] \/ (ti[i] = ti[j] /\ i < j)))
        /\ sc[j] > sc[k] \/ (sc[j] = sc[k] /\ (ti[j] < ti[k] \/ (ti[j] = ti[k] /\ j < k)))
    BY <1>5, <1>8
  <2>3. sc[i] > sc[k] \/ (sc[i] = sc[k] /\ (ti[i] < ti[k] \/ (ti[i] = ti[k] /\ i < k)))
    BY <2>1, <2>2
  <2> QED BY <1>5, <2>3
<1>9. \A i, j \in 1 .. N : Find!Before(m, i, j) => Find!score(m[i]) >= Find!score(m[j])
  BY <1>6
<1> HIDE DEF sc, ti
<1> QED BY <1>6, <1>8, <1>9

LEMMA RankedRight ==
  ASSUME NEW m \in Seq(Find!Result)
  PROVE  \E at \in [1 .. Len(m) -> 1 .. Len(m)] :
           /\ \A n, o \in 1 .. Len(m) : at[n] = at[o] => n = o
           /\ \A i \in 1 .. Len(m) : \E n \in 1 .. Len(m) : at[n] = i
           /\ \A n, o \in 1 .. Len(m) : n < o => Find!score(m[at[n]]) >= Find!score(m[at[o]])
           /\ Find!Ranked[m] = [n \in 1 .. (IF Len(m) < Limit THEN Len(m) ELSE Limit) |-> m[at[n]]]
<1> DEFINE N == Len(m)
           P(i) == { j \in DOMAIN m : j = i \/ Find!Before(m, j, i) }
           place == [i \in 1 .. N |-> Find!Cardinality(P(i))]
           who(n) == CHOOSE i \in DOMAIN m : Find!Cardinality(P(i)) = n
           at == [n \in 1 .. N |-> who(n)]
<1>1. N \in Nat /\ DOMAIN m = 1 .. N
  OBVIOUS
<1>2. IsFiniteSet(1 .. N) /\ Cardinality(1 .. N) = N
  BY <1>1, FS_Interval
<1>3. \A i \in 1 .. N : /\ P(i) \subseteq 1 .. N /\ i \in P(i)
                        /\ IsFiniteSet(P(i)) /\ Cardinality(P(i)) \in Nat
                        /\ place[i] = Cardinality(P(i))
  <2>1. \A i \in 1 .. N : P(i) \in SUBSET (1 .. N) /\ i \in P(i)
    BY <1>1
  <2>2. \A i \in 1 .. N : IsFiniteSet(P(i)) /\ Cardinality(P(i)) \in Nat
    <3> HIDE DEF P, N
    <3> QED BY <2>1, <1>2, FS_Subset, FS_CardinalityType
  <2>3. \A i \in 1 .. N : place[i] = Cardinality(P(i))
    <3> HIDE DEF P
    <3> QED BY SameCardinality
  <2> HIDE DEF place
  <2> QED BY <2>1, <2>2, <2>3
<1>4. ASSUME NEW i \in 1 .. N, NEW j \in 1 .. N, Find!Before(m, i, j) PROVE place[i] < place[j]
  <2>1. P(i) \in SUBSET P(j) /\ j \in P(j) /\ j \notin P(i)
    BY <1>1, <1>4, BeforeFacts
  <2>2. Cardinality(P(i)) <= Cardinality(P(j)) /\ Cardinality(P(i)) # Cardinality(P(j))
    <3> HIDE DEF P
    <3> QED BY <1>3, <2>1, FS_Subset
  <2> HIDE DEF P, place
  <2> QED BY <1>3, <2>2
<1>5. ASSUME NEW i \in 1 .. N PROVE place[i] \in 1 .. N
  <2>1. Cardinality(P(i)) <= N
    <3>1. P(i) \in SUBSET (1 .. N)
      BY <1>3
    <3> HIDE DEF P
    <3> QED BY <1>2, <3>1, FS_Subset
  <2>2. Cardinality(P(i)) # 0
    <3>1. P(i) # {}
      BY <1>3
    <3> HIDE DEF P
    <3> QED BY <1>3, <3>1, FS_EmptySet
  <2> HIDE DEF P, place
  <2> QED BY <1>1, <1>3, <2>1, <2>2
<1>6. ASSUME NEW i \in 1 .. N, NEW j \in 1 .. N, place[i] = place[j] PROVE i = j
  <2>1. place[i] \in Int
    <3> HIDE DEF place
    <3> QED BY <1>5
  <2>2. ~ (place[i] < place[j]) /\ ~ (place[j] < place[i])
    <3> HIDE DEF place
    <3> QED BY <1>6, <2>1
  <2>3. ~ Find!Before(m, i, j) /\ ~ Find!Before(m, j, i)
    <3> HIDE DEF place, P
    <3> QED BY <1>4, <2>2
  <2> HIDE DEF place, P
  <2> QED BY <2>3, BeforeFacts
<1>7. place \in Surjection(1 .. N, 1 .. N)
  <2>1. place = [i \in 1 .. N |-> place[i]]
    OBVIOUS
  <2> HIDE DEF place
  <2>2. place \in [1 .. N -> 1 .. N]
    BY <1>5, <2>1
  <2>3. place \in Injection(1 .. N, 1 .. N)
    BY <1>6, <2>2 DEF Injection, IsInjective
  <2> HIDE DEF N
  <2> QED BY <1>2, <2>3, FS_Injection
<1>8. \A n \in 1 .. N : at[n] \in 1 .. N /\ place[at[n]] = n
  <2>1. \A n \in 1 .. N : \E i \in 1 .. N : place[i] = n
    <3> HIDE DEF place
    <3> QED BY <1>7 DEF Surjection
  <2>2. \A i \in 1 .. N : place[i] = Find!Cardinality(P(i))
    <3> HIDE DEF P
    <3> QED OBVIOUS
  <2>3. ASSUME NEW n \in 1 .. N PROVE who(n) \in 1 .. N /\ place[who(n)] = n
    <3>1. who(n) = CHOOSE i \in 1 .. N : Find!Cardinality(P(i)) = n
      BY <1>1
    <3>2. \E i \in 1 .. N : Find!Cardinality(P(i)) = n
      <4> HIDE DEF P, place, who
      <4> QED BY <2>1, <2>2
    <3>3. who(n) \in 1 .. N /\ Find!Cardinality(P(who(n))) = n
      <4> HIDE DEF P, place, who
      <4> QED BY <3>1, <3>2
    <3> HIDE DEF P, place, who
    <3> QED BY <2>2, <3>3
  <2> HIDE DEF place, P, who
  <2> QED BY <2>3
<1>9. at \in [1 .. N -> 1 .. N]
  <2> HIDE DEF who
  <2>1. at = [n \in 1 .. N |-> at[n]]
    OBVIOUS
  <2> HIDE DEF at
  <2> QED BY <1>8, <2>1
<1>10. Find!Ranked[m] = [n \in 1 .. (IF N < Limit THEN N ELSE Limit) |-> m[at[n]]]
  <2>1. \A n \in 1 .. (IF N < Limit THEN N ELSE Limit) : n \in 1 .. N
    BY <1>1, SearchAssumption
  <2> QED BY <2>1 DEF Find!Ranked
<1> HIDE DEF place, at, P
<1>11. \A n, o \in 1 .. N : at[n] = at[o] => n = o
  BY <1>8
<1>12. \A i \in 1 .. N : \E n \in 1 .. N : at[n] = i
  BY <1>5, <1>6, <1>8
<1>13. ASSUME NEW n \in 1 .. N, NEW o \in 1 .. N, n < o
       PROVE  Find!score(m[at[n]]) >= Find!score(m[at[o]])
  <2>1. ~ Find!Before(m, at[o], at[n])
    <3>1. ~ (place[at[o]] < place[at[n]])
      BY <1>8, <1>13
    <3> QED BY <1>4, <1>8, <3>1
  <2>2. at[n] # at[o]
    BY <1>11, <1>13
  <2> QED BY <1>8, <2>1, <2>2, BeforeFacts
<1> QED BY <1>9, <1>10, <1>11, <1>12, <1>13

-----------------------------------------------------------------------------
(* The whole search.                                                        *)

LEMMA OrderFacts ==
  /\ Len(Find!Order) \in Nat /\ Find!Order \in [1 .. Len(Find!Order) -> Providers]
  /\ DOMAIN Find!Order = 1 .. Len(Find!Order)
  /\ \A i, j \in 1 .. Len(Find!Order) : Find!Order[i] = Find!Order[j] => i = j
  /\ \A p \in Providers : \E i \in 1 .. Len(Find!Order) : Find!Order[i] = p
<1> DEFINE N == Cardinality(Providers)
           o == Find!Order
<1>1. IsFiniteSet(Providers) /\ N \in Nat
  BY SearchAssumption, FS_CardinalityType
<1>2. \E f \in [1 .. N -> Providers] : Find!IsInjective(f)
  <2>1. \E f : f \in Bijection(1 .. N, Providers)
    <3>1. PICK n \in Nat : ExistsBijection(1 .. n, Providers)
      BY <1>1, FS_NatBijection
    <3>2. n = N
      BY <3>1, FS_CountingElements
    <3> QED BY <3>1, <3>2 DEF ExistsBijection
  <2>2. PICK f : f \in Bijection(1 .. N, Providers)
    BY <2>1
  <2>3. f \in [1 .. N -> Providers] /\ \A a, b \in 1 .. N : f[a] = f[b] => a = b
    BY <2>2 DEF Bijection, Injection, IsInjective
  <2> QED BY <2>3 DEF Find!IsInjective
<1>3. o \in [1 .. N -> Providers] /\ Find!IsInjective(o)
  <2>1. o = CHOOSE f \in [1 .. N -> Providers] : Find!IsInjective(f)
    BY SameCardinality DEF Find!Order, Find!SetToSeq
  <2> HIDE DEF o, N
  <2> QED BY <1>2, <2>1
<1> HIDE DEF o
<1>4. o \in Seq(Providers) /\ Len(o) = N
  <2> HIDE DEF N
  <2> QED BY <1>1, <1>3
<1>5. \A a, b \in 1 .. N : o[a] = o[b] => a = b
  BY <1>3 DEF Find!IsInjective
<1>6. o \in Surjection(1 .. N, Providers)
  <2>1. o \in Injection(1 .. N, Providers)
    BY <1>3, <1>5 DEF Injection, IsInjective
  <2>2. Cardinality(1 .. N) = N
    <3> HIDE DEF N
    <3> QED BY <1>1, FS_Interval
  <2> QED BY <1>1, <2>1, <2>2, FS_Injection
<1>7. \A p \in Providers : \E i \in 1 .. N : o[i] = p
  BY <1>6 DEF Surjection
<1> HIDE DEF N
<1> QED BY <1>1, <1>3, <1>4, <1>5, <1>7 DEF o

(* The rows of the first c providers that came in and are kept. *)
Taken(c) ==
  { t \in Providers \X Nat :
      /\ t[1] \in DOMAIN future /\ future[t[1]] = "result"
      /\ \E n \in 1 .. c : Find!Order[n] = t[1]
      /\ t[2] \in DOMAIN found[t[1]] /\ found[t[1]][t[2]].kind = "good" }

SearchTypes ==
  /\ settings \in [Providers -> {"on", "off", "bad"}] /\ asked \subseteq Providers
  /\ state \in {"new", "running", "done", "failed"}
  /\ DOMAIN future \subseteq Providers
  /\ future \in [DOMAIN future -> {"pending", "running", "error", "result"}]
  /\ Cardinality(Find!Running) <= Pool
  /\ found \in [Providers -> Seq(Find!Row)] /\ \A p \in Providers : Len(found[p]) <= MaxRows
  /\ collected \in 0 .. Len(Find!Order)
  /\ outcome \in [results : Seq(Find!Result), queried : SUBSET Providers, errors : SUBSET Providers]

(* What was collected has ended: the failures are named, and the results    *)
(* are those of the rows that were kept, each once.                         *)
SearchControl ==
  /\ state \in {"new", "failed"} => DOMAIN future = {} /\ collected = 0 /\ outcome = Find!NoOutcome
  /\ outcome.queried = DOMAIN future
  /\ \A n \in 1 .. collected :
       Find!Order[n] \in DOMAIN future => future[Find!Order[n]] \in {"error", "result"}
  /\ outcome.errors = { p \in DOMAIN future :
                          future[p] = "error" /\ \E n \in 1 .. collected : Find!Order[n] = p }
  /\ state # "done" => \E g : Lists(g, outcome.results, Taken(collected))
  /\ state = "done" => DOMAIN future = {} \/ collected = Len(Find!Order)

SearchInv == SearchTypes /\ SearchControl /\ Find!MergedExactly /\ Find!BestFirst

(* What the result r says of the rows of its torrent. *)
ExactOf(r) ==
  /\ { n \in 1 .. Len(Find!Order) : \E rep \in Find!Reports(r) : rep[1] = Find!Order[n] }
       = { n \in 1 .. Len(Find!Order) : Find!Order[n] \in Find!ToSet(r.sources) }
  /\ Len(r.sources) = Cardinality(Find!Reports(r))
  /\ \A rep \in Find!Reports(r) : found[rep[1]][rep[2]].seeders <= r.seeders
  /\ \E rep \in Find!Reports(r) : found[rep[1]][rep[2]].seeders = r.seeders
  /\ r.magnet <=> \E rep \in Find!Reports(r) : found[rep[1]][rep[2]].magnet

LEMMA ParsedFields ==
  ASSUME NEW p, NEW row
  PROVE  LET r == Find!Parsed(p, row) IN
         /\ r.sources[1] = p /\ r.seeders = row.seeders /\ r.magnet = row.magnet
         /\ Find!identity(r) = Find!identity(row)
BY DEF Find!Parsed, Find!identity

LEMMA ReportsOf ==
  ASSUME SearchTypes, SearchControl, collected = Len(Find!Order),
         NEW g, NEW res, Lists(g, res, Taken(collected)), NEW r
  PROVE  /\ \A k \in Same(res, Len(res), r) : g[k] \in Find!Reports(r)
         /\ \A rep \in Find!Reports(r) : \E k \in Same(res, Len(res), r) : g[k] = rep
         /\ Cardinality(Same(res, Len(res), r)) = Cardinality(Find!Reports(r))
<1> DEFINE N == Len(res)
           K == Same(res, N, r)
           row(t) == found[t[1]][t[2]]
<1>1. /\ N \in Nat /\ g \in [1 .. N -> Taken(collected)]
      /\ \A k, l \in 1 .. N : g[k] = g[l] => k = l
      /\ \A t \in Taken(collected) : \E k \in 1 .. N : g[k] = t
      /\ \A k \in 1 .. N : res[k] = Find!Parsed(g[k][1], row(g[k]))
  BY DEF Lists
<1>2. \A k \in 1 .. N : Find!identity(res[k]) = Find!identity(row(g[k]))
  BY <1>1, ParsedFields
<1>3. \A t : t \in Find!Reports(r) <=> t \in Taken(collected) /\ Find!identity(row(t)) = Find!identity(r)
  <2>1. ASSUME NEW t \in Find!Reports(r)
        PROVE  t \in Taken(collected) /\ Find!identity(row(t)) = Find!identity(r)
    <3>1. /\ t \in Find!Answered \X (1 .. MaxRows) /\ t[1] \in Find!Answered
          /\ t[2] \in DOMAIN found[t[1]] /\ found[t[1]][t[2]].kind = "good"
          /\ Find!identity(row(t)) = Find!identity(r)
      BY DEF Find!Reports
    <3>2. t[1] \in Providers /\ t[1] \in DOMAIN future /\ future[t[1]] = "result"
      BY <3>1 DEF Find!Answered, SearchTypes, SearchControl
    <3>3. \E n \in 1 .. collected : Find!Order[n] = t[1]
      BY <3>2, OrderFacts
    <3>4. t \in Providers \X Nat
      BY <3>1, <3>2, SearchAssumption
    <3> QED BY <3>1, <3>2, <3>3, <3>4 DEF Taken
  <2>2. ASSUME NEW t \in Taken(collected), Find!identity(row(t)) = Find!identity(r)
        PROVE  t \in Find!Reports(r)
    <3>1. /\ t \in Providers \X Nat /\ t[1] \in DOMAIN future /\ future[t[1]] = "result"
          /\ t[2] \in DOMAIN found[t[1]] /\ found[t[1]][t[2]].kind = "good" /\ t[1] \in Providers
      BY DEF Taken
    <3>2. t[1] \in Find!Answered
      BY <3>1 DEF Find!Answered, SearchControl
    <3>3. t[2] \in 1 .. MaxRows
      <4>1. found[t[1]] \in Seq(Find!Row) /\ Len(found[t[1]]) <= MaxRows
        BY <3>1 DEF SearchTypes
      <4>2. DOMAIN found[t[1]] = 1 .. Len(found[t[1]]) /\ Len(found[t[1]]) \in Nat
        BY <4>1
      <4> QED BY <3>1, <4>1, <4>2, SearchAssumption
    <3> QED BY <2>2, <3>1, <3>2, <3>3 DEF Find!Reports
  <2> HIDE DEF row
  <2> QED BY <2>1, <2>2
<1> HIDE DEF row
<1>4. \A k : k \in K <=> k \in 1 .. N /\ Find!identity(res[k]) = Find!identity(r)
  BY DEF Same
<1>5. \A k \in K : g[k] \in Find!Reports(r)
  BY <1>1, <1>2, <1>3, <1>4
<1>6. \A rep \in Find!Reports(r) : \E k \in K : g[k] = rep
  BY <1>1, <1>2, <1>3, <1>4
<1>7. Cardinality(K) = Cardinality(Find!Reports(r))
  <2> DEFINE f == [k \in K |-> g[k]]
  <2>1. f \in [K -> Find!Reports(r)]
    BY <1>5
  <2>2. f \in Bijection(K, Find!Reports(r))
    <3>1. \A k, l \in K : f[k] = f[l] => k = l
      BY <1>1, <1>4
    <3>2. \A rep \in Find!Reports(r) : \E k \in K : f[k] = rep
      BY <1>6
    <3> HIDE DEF f
    <3> QED BY <2>1, <3>1, <3>2 DEF Bijection, Injection, Surjection, IsInjective
  <2>3. IsFiniteSet(K)
    <3>1. IsFiniteSet(1 .. N)
      BY <1>1, FS_Interval
    <3>2. K \in SUBSET (1 .. N)
      BY <1>4
    <3> QED BY <3>1, <3>2, FS_Subset
  <2>4. ExistsBijection(K, Find!Reports(r))
    BY <2>2 DEF ExistsBijection
  <2> QED BY <2>3, <2>4, FS_Bijection
<1> QED BY <1>5, <1>6, <1>7

LEMMA SumsExact ==
  ASSUME SearchTypes, SearchControl, collected = Len(Find!Order),
         NEW g, NEW res, Lists(g, res, Taken(collected)),
         NEW r, SumsUp(res, Same(res, Len(res), r), r)
  PROVE  ExactOf(r)
<1> DEFINE K == Same(res, Len(res), r)
           Rep == Find!Reports(r)
           row(t) == found[t[1]][t[2]]
<1>1. /\ \A k \in K : g[k] \in Rep
      /\ \A rep \in Rep : \E k \in K : g[k] = rep
      /\ Cardinality(K) = Cardinality(Rep)
  BY ReportsOf
<1>2. \A k \in K : /\ res[k].sources[1] = g[k][1] /\ res[k].seeders = row(g[k]).seeders
                   /\ res[k].magnet = row(g[k]).magnet
  <2>1. \A k \in K : res[k] = Find!Parsed(g[k][1], row(g[k]))
    BY DEF Lists, Same
  <2> QED BY <2>1, ParsedFields
<1>3. /\ K # {} /\ Len(r.sources) = Cardinality(K)
      /\ \A p : p \in Find!ToSet(r.sources) <=> \E k \in K : res[k].sources[1] = p
      /\ \A k \in K : res[k].seeders <= r.seeders
      /\ \E k \in K : res[k].seeders = r.seeders
      /\ r.magnet <=> \E k \in K : res[k].magnet
  BY DEF SumsUp
<1> HIDE DEF K, Rep, row
<1>4. \A p : p \in Find!ToSet(r.sources) <=> \E rep \in Rep : rep[1] = p
  <2>1. \A p : p \in Find!ToSet(r.sources) <=> \E k \in K : res[k].sources[1] = p
    BY <1>3
  <2>2. \A p : (\E k \in K : res[k].sources[1] = p) <=> \E k \in K : g[k][1] = p
    BY <1>2
  <2>3. \A p : (\E k \in K : g[k][1] = p) <=> \E rep \in Rep : rep[1] = p
    BY <1>1
  <2> QED BY <2>1, <2>2, <2>3
<1>5. \A rep \in Rep : row(rep).seeders <= r.seeders
  <2>1. ASSUME NEW rep \in Rep PROVE row(rep).seeders <= r.seeders
    <3>1. PICK k \in K : g[k] = rep
      BY <1>1
    <3>2. res[k].seeders = row(rep).seeders
      BY <1>2, <3>1
    <3>3. res[k].seeders <= r.seeders
      BY <1>3
    <3> QED BY <3>2, <3>3
  <2> QED BY <2>1
<1>6. \E rep \in Rep : row(rep).seeders = r.seeders
  <2>1. PICK k \in K : res[k].seeders = r.seeders
    BY <1>3
  <2>2. g[k] \in Rep /\ row(g[k]).seeders = r.seeders
    BY <1>1, <1>2, <2>1
  <2> QED BY <2>2
<1>7. r.magnet <=> \E rep \in Rep : row(rep).magnet
  <2>1. r.magnet <=> \E k \in K : res[k].magnet
    BY <1>3
  <2>2. (\E k \in K : res[k].magnet) <=> \E k \in K : row(g[k]).magnet
    BY <1>2
  <2>3. (\E k \in K : row(g[k]).magnet) <=> \E rep \in Rep : row(rep).magnet
    BY <1>1
  <2> QED BY <2>1, <2>2, <2>3
<1>8. { n \in 1 .. Len(Find!Order) : \E rep \in Rep : rep[1] = Find!Order[n] }
       = { n \in 1 .. Len(Find!Order) : Find!Order[n] \in Find!ToSet(r.sources) }
  BY <1>4
<1> QED BY <1>1, <1>3, <1>5, <1>6, <1>7, <1>8 DEF ExactOf, Rep, row

(* The torrents of the rows of T are those of the results, and what the     *)
(* limit cuts is no better than what it leaves.                             *)
LEMMA CutRight ==
  ASSUME SearchTypes, SearchControl, collected = Len(Find!Order),
         NEW g, NEW res, Lists(g, res, Taken(collected)),
         NEW rs, rs = Find!Ranked[Find!dedupe(res)]
  PROVE  /\ rs \in Seq(Find!Result)
         /\ \A i, j \in 1 .. Len(rs) : i # j => Find!identity(rs[i]) # Find!identity(rs[j])
         /\ \A i \in 1 .. Len(rs) : ExactOf(rs[i])
         /\ \A t \in Taken(collected) :
              (\A i \in 1 .. Len(rs) : Find!identity(rs[i]) # Find!identity(found[t[1]][t[2]])) =>
                /\ Len(rs) = Limit
                /\ \A i \in 1 .. Len(rs) :
                     Find!score(rs[i]) >= Log[found[t[1]][t[2]].seeders]
<1> DEFINE m == Find!dedupe(res)
           N == Len(res)
           M == Len(m)
           L == IF M < Limit THEN M ELSE Limit
           id(x) == Find!identity(x)
<1>1. res \in Seq(Single) /\ N \in Nat
  BY DEF Lists
<1>2. MergeOf(res, N, m)
  BY <1>1, Deduped
<1> HIDE DEF m
<1>3. m \in Seq(Find!Result) /\ M \in Nat /\ DOMAIN m = 1 .. M
      /\ \A i \in 1 .. M : m[i] \in Find!Result
  BY <1>2 DEF MergeOf
<1>4. PICK at \in [1 .. M -> 1 .. M] :
        /\ \A n, o \in 1 .. M : at[n] = at[o] => n = o
        /\ \A i \in 1 .. M : \E n \in 1 .. M : at[n] = i
        /\ \A n, o \in 1 .. M : n < o => Find!score(m[at[n]]) >= Find!score(m[at[o]])
        /\ Find!Ranked[m] = [n \in 1 .. L |-> m[at[n]]]
  BY <1>3, RankedRight
<1>5. L \in Nat /\ 1 .. L \subseteq 1 .. M /\ \A n \in 1 .. M : n \in 1 .. L \/ (L = Limit /\ L < n)
  BY <1>3, SearchAssumption
<1>6. rs = [n \in 1 .. L |-> m[at[n]]]
  BY <1>4 DEF m
<1> HIDE DEF L, M
<1>7. rs \in Seq(Find!Result) /\ Len(rs) = L /\ \A n \in 1 .. L : rs[n] = m[at[n]]
  <2>1. rs \in [1 .. L -> Find!Result]
    BY <1>3, <1>4, <1>5, <1>6
  <2>2. rs \in Seq(Find!Result) /\ Len(rs) = L
    BY <1>5, <2>1
  <2>3. \A n \in 1 .. L : rs[n] = m[at[n]]
    BY <1>6
  <2> QED BY <2>2, <2>3
<1>8. ASSUME NEW i \in 1 .. L, NEW j \in 1 .. L, i # j PROVE id(rs[i]) # id(rs[j])
  <2>1. \A k, l \in 1 .. M : id(m[k]) = id(m[l]) => k = l
    BY <1>2 DEF MergeOf, M
  <2>2. i \in 1 .. M /\ j \in 1 .. M /\ rs[i] = m[at[i]] /\ rs[j] = m[at[j]]
    BY <1>5, <1>7
  <2>3. at[i] \in 1 .. M /\ at[j] \in 1 .. M /\ at[i] # at[j]
    BY <1>4, <1>8, <2>2
  <2> QED BY <2>1, <2>2, <2>3
<1>9. \A i \in 1 .. M : ExactOf(m[i]) /\ Len(m[i].sources) > 0
  <2>1. \A i \in 1 .. M : SumsUp(res, Same(res, N, m[i]), m[i])
    BY <1>2 DEF MergeOf, M
  <2>2. \A i \in 1 .. M : ExactOf(m[i])
    BY <2>1, SumsExact
  <2>3. ASSUME NEW i \in 1 .. M PROVE Len(m[i].sources) > 0
    <3> DEFINE K == Same(res, N, m[i])
    <3>1. K # {} /\ Len(m[i].sources) = Cardinality(K)
      BY <2>1 DEF SumsUp
    <3>2. K \in SUBSET (1 .. N)
      BY DEF Same
    <3> HIDE DEF K
    <3>3. IsFiniteSet(K) /\ Cardinality(K) \in Nat /\ Cardinality(K) # 0
      <4>1. IsFiniteSet(1 .. N)
        BY <1>1, FS_Interval
      <4>2. IsFiniteSet(K)
        BY <3>2, <4>1, FS_Subset
      <4> QED BY <3>1, <4>2, FS_CardinalityType, FS_EmptySet
    <3> QED BY <3>1, <3>3
  <2> QED BY <2>2, <2>3
<1>10. ASSUME NEW t \in Taken(collected),
              \A i \in 1 .. L : id(rs[i]) # id(found[t[1]][t[2]])
       PROVE  /\ L = Limit
              /\ \A i \in 1 .. L : Find!score(rs[i]) >= Log[found[t[1]][t[2]].seeders]
  <2> DEFINE row == found[t[1]][t[2]]
  <2>1. PICK k \in 1 .. N : g[k] = t
    BY DEF Lists
  <2>2. res[k] = Find!Parsed(t[1], row)
    BY <2>1 DEF Lists
  <2> HIDE DEF row
  <2>3. id(res[k]) = id(row) /\ res[k].seeders = row.seeders
    BY <2>2, ParsedFields
  <2>4. PICK x \in 1 .. M : id(m[x]) = id(res[k])
    BY <1>2 DEF MergeOf, M
  <2>5. PICK o \in 1 .. M : at[o] = x
    BY <1>4
  <2>6. o \notin 1 .. L
    BY <1>7, <1>10, <2>3, <2>4, <2>5 DEF row
  <2>7. L = Limit /\ L < o
    BY <1>5, <2>6
  <2>8. row.seeders \in Seeders /\ row.seeders <= m[x].seeders /\ m[x].seeders \in Seeders
    <3>1. k \in Same(res, N, m[x])
      BY <2>4 DEF Same
    <3>2. SumsUp(res, Same(res, N, m[x]), m[x])
      BY <1>2 DEF MergeOf, M
    <3>3. res[k] \in Find!Result
      BY <1>1 DEF Single
    <3> QED BY <1>3, <2>3, <3>1, <3>2, <3>3, ResultFields DEF SumsUp
  <2>9. Find!score(m[x]) >= Log[row.seeders]
    <3>1. Find!score(m[x]) \in Int /\ Find!score(m[x]) >= Log[m[x].seeders]
      BY <1>3, <1>9, ScoreFacts
    <3>2. Log[row.seeders] <= Log[m[x].seeders]
          /\ Log[row.seeders] \in Nat /\ Log[m[x].seeders] \in Nat
      BY <2>8, LogFacts
    <3> QED BY <3>1, <3>2
  <2>10. ASSUME NEW i \in 1 .. L PROVE Find!score(rs[i]) >= Log[row.seeders]
    <3>1. i < o /\ i \in 1 .. M
      BY <1>5, <2>7
    <3>2. Find!score(m[at[i]]) >= Find!score(m[x])
      BY <1>4, <2>5, <3>1
    <3>3. m[at[i]] \in Find!Result /\ m[x] \in Find!Result
      BY <1>3, <1>4, <3>1
    <3>4. Find!score(m[at[i]]) \in Int /\ Find!score(m[x]) \in Int /\ Log[row.seeders] \in Nat
      BY <2>8, <3>3, ScoreFacts, LogFacts
    <3>5. rs[i] = m[at[i]]
      BY <1>7
    <3> QED BY <2>9, <3>2, <3>4, <3>5
  <2> QED BY <2>7, <2>10 DEF row
<1>11. ASSUME NEW i \in 1 .. L PROVE ExactOf(rs[i])
  <2>1. i \in 1 .. M /\ rs[i] = m[at[i]]
    BY <1>5, <1>7
  <2>2. at[i] \in 1 .. M
    BY <1>4, <2>1
  <2> QED BY <1>9, <2>1, <2>2
<1> QED BY <1>7, <1>8, <1>10, <1>11

LEMMA FinishRight ==
  ASSUME SearchInv, Find!Finish
  PROVE  SearchInv'
<1> DEFINE rs == Find!Ranked[Find!dedupe(outcome.results)]
<1>1. /\ state = "running" /\ state' = "done" /\ collected = Len(Find!Order)
      /\ outcome' = [outcome EXCEPT !.results = rs]
      /\ UNCHANGED <<settings, asked, future, found, collected>>
  BY DEF Find!Finish
<1>2. SearchTypes /\ SearchControl
  BY DEF SearchInv
<1>3. PICK g : Lists(g, outcome.results, Taken(collected))
  BY <1>1, <1>2 DEF SearchControl
<1>4. /\ rs \in Seq(Find!Result)
      /\ \A i, j \in 1 .. Len(rs) : i # j => Find!identity(rs[i]) # Find!identity(rs[j])
      /\ \A i \in 1 .. Len(rs) : ExactOf(rs[i])
      /\ \A t \in Taken(collected) :
           (\A i \in 1 .. Len(rs) : Find!identity(rs[i]) # Find!identity(found[t[1]][t[2]])) =>
             /\ Len(rs) = Limit
             /\ \A i \in 1 .. Len(rs) :
                  Find!score(rs[i]) >= Log[found[t[1]][t[2]].seeders]
  BY <1>1, <1>2, <1>3, CutRight
<1> HIDE DEF rs
<1>5. /\ outcome' \in [results : Seq(Find!Result), queried : SUBSET Providers, errors : SUBSET Providers]
      /\ outcome'.results = rs /\ outcome'.queried = outcome.queried
      /\ outcome'.errors = outcome.errors /\ DOMAIN rs = 1 .. Len(rs)
  <2>1. DOMAIN rs = 1 .. Len(rs)
    BY <1>4
  <2>2. outcome \in [results : Seq(Find!Result), queried : SUBSET Providers, errors : SUBSET Providers]
    BY <1>2 DEF SearchTypes
  <2>3. rs \in Seq(Find!Result)
    BY <1>4
  <2> DEFINE X == Seq(Find!Result)
  <2> HIDE DEF X
  <2>4. /\ outcome' \in [results : X, queried : SUBSET Providers, errors : SUBSET Providers]
        /\ outcome'.results = rs /\ outcome'.queried = outcome.queried
        /\ outcome'.errors = outcome.errors
    BY <1>1, <2>2, <2>3 DEF X
  <2> QED BY <2>1, <2>4 DEF X
<1>6. SearchTypes'
  BY <1>1, <1>2, <1>5 DEF SearchTypes, Find!Running
<1>7. SearchControl'
  BY <1>1, <1>2, <1>5 DEF SearchControl
<1>8. Find!Answered' = Find!Answered /\ \A r : Find!Reports(r)' = Find!Reports(r)
  BY <1>1, <1>5 DEF Find!Answered, Find!Reports
<1>9. \A p \in DOMAIN future : p \in Providers /\ future[p] \in {"error", "result"}
        /\ \E n \in 1 .. collected : Find!Order[n] = p
  BY <1>1, <1>2, OrderFacts DEF SearchTypes, SearchControl
<1>10. outcome.errors = outcome.queried \ Find!Answered
  BY <1>2, <1>9 DEF SearchControl, Find!Answered
<1>11. Find!MergedExactly'
  <2>1. \A i \in 1 .. Len(rs) : LET r == rs[i] IN
         /\ { n \in 1 .. Len(Find!Order) : \E rep \in Find!Reports(r) : rep[1] = Find!Order[n] }
              = { n \in 1 .. Len(Find!Order) : Find!Order[n] \in Find!ToSet(r.sources) }
         /\ Len(r.sources) = Find!Cardinality(Find!Reports(r))
         /\ \A rep \in Find!Reports(r) : found[rep[1]][rep[2]].seeders <= r.seeders
         /\ \E rep \in Find!Reports(r) : found[rep[1]][rep[2]].seeders = r.seeders
         /\ r.magnet <=> \E rep \in Find!Reports(r) : found[rep[1]][rep[2]].magnet
    BY <1>4, SameCardinality DEF ExactOf
  <2> QED BY <1>1, <1>4, <1>5, <1>8, <1>10, <2>1 DEF Find!MergedExactly
<1>12. Find!BestFirst'
  <2>1. ASSUME NEW p \in Find!Answered, NEW k \in DOMAIN found[p], found[p][k].kind = "good",
               \A i \in 1 .. Len(rs) : Find!identity(rs[i]) # Find!identity(found[p][k])
        PROVE  /\ Len(rs) = Limit
               /\ \A i \in 1 .. Len(rs) : Find!score(rs[i]) >= Log[found[p][k].seeders]
    <3> DEFINE t == <<p, k>>
    <3>1. p \in DOMAIN future /\ p \in Providers /\ future[p] = "result"
          /\ \E n \in 1 .. collected : Find!Order[n] = p
      BY <1>2, <1>9 DEF Find!Answered, SearchControl
    <3>2. k \in Nat
      <4>1. found[p] \in Seq(Find!Row)
        BY <1>2, <3>1 DEF SearchTypes
      <4> QED BY <4>1
    <3>3. t \in Taken(collected) /\ t[1] = p /\ t[2] = k
      BY <2>1, <3>1, <3>2 DEF Taken
    <3> HIDE DEF t
    <3> QED BY <1>4, <2>1, <3>3
  <2> QED BY <1>1, <1>5, <1>8, <2>1 DEF Find!BestFirst
<1> QED BY <1>6, <1>7, <1>11, <1>12 DEF SearchInv

LEMMA CollectRight ==
  ASSUME SearchInv, Find!Collect
  PROVE  SearchInv'
<1> DEFINE p == Find!Order[collected + 1]
           c == collected + 1
           N == Len(Find!Order)
<1>1. /\ state = "running" /\ collected < N
      /\ p \in DOMAIN future => future[p] \in {"error", "result"}
      /\ outcome' = IF p \notin DOMAIN future THEN outcome
                    ELSE IF future[p] = "result"
                    THEN [outcome EXCEPT !.results = @ \o Find!Kept(p)]
                    ELSE [outcome EXCEPT !.errors = @ \cup {p}]
      /\ collected' = c
      /\ UNCHANGED <<settings, asked, state, future, found>>
  BY DEF Find!Collect
<1>2. SearchTypes /\ SearchControl
  BY DEF SearchInv
<1>3. N \in Nat /\ c \in 1 .. N /\ p \in Providers /\ collected \in Nat
      /\ \A n \in 1 .. collected : n \in 1 .. N /\ Find!Order[n] # p
  <2>1. N \in Nat /\ collected \in 0 .. N
    BY <1>2, OrderFacts DEF SearchTypes
  <2>2. c \in 1 .. N /\ \A n \in 1 .. collected : n \in 1 .. N /\ n # c
    BY <1>1, <2>1
  <2>3. Find!Order[c] \in Providers /\ \A n \in 1 .. collected : Find!Order[n] # Find!Order[c]
    BY <2>2, OrderFacts
  <2> QED BY <2>1, <2>2, <2>3
<1>4. 1 .. c = (1 .. collected) \cup {c} /\ Find!Order[c] = p
  BY <1>3
<1> HIDE DEF p, c, N
<1>5. PICK g : Lists(g, outcome.results, Taken(collected))
  BY <1>1, <1>2 DEF SearchControl
<1>6. outcome \in [results : Seq(Find!Result), queried : SUBSET Providers, errors : SUBSET Providers]
  BY <1>2 DEF SearchTypes
<1>7. Taken(collected)' = IF p \in DOMAIN future /\ future[p] = "result"
                  THEN Taken(collected) \cup Goods(p, Len(found[p])) ELSE Taken(collected)
  <2>1. Taken(collected)' = Taken(c)
    BY <1>1 DEF Taken
  <2>2. \A q : (\E n \in 1 .. c : Find!Order[n] = q)
               <=> (\E n \in 1 .. collected : Find!Order[n] = q) \/ q = p
    BY <1>4
  <2>3. DOMAIN found[p] = 1 .. Len(found[p]) /\ Len(found[p]) \in Nat
    <3>1. found[p] \in Seq(Find!Row)
      BY <1>2, <1>3 DEF SearchTypes
    <3> QED BY <3>1
  <2>4. ASSUME NEW t
        PROVE  t \in Taken(c) <=>
                 \/ t \in Taken(collected)
                 \/ p \in DOMAIN future /\ future[p] = "result" /\ t \in Goods(p, Len(found[p]))
    <3>1. t \in Goods(p, Len(found[p])) <=>
            /\ t \in Providers \X Nat /\ t[1] = p
            /\ t[2] \in DOMAIN found[t[1]] /\ found[t[1]][t[2]].kind = "good"
      BY <1>3, <2>3 DEF Goods
    <3> DEFINE kept == /\ t \in Providers \X Nat
                       /\ t[2] \in DOMAIN found[t[1]] /\ found[t[1]][t[2]].kind = "good"
               came(q) == q \in DOMAIN future /\ future[q] = "result"
               before == \E n \in 1 .. collected : Find!Order[n] = t[1]
    <3>2. t \in Taken(c) <=> kept /\ came(t[1]) /\ (before \/ t[1] = p)
      BY <2>2 DEF Taken
    <3>3. t \in Taken(collected) <=> kept /\ came(t[1]) /\ before
      BY DEF Taken
    <3>4. t \in Goods(p, Len(found[p])) <=> kept /\ t[1] = p
      BY <3>1
    <3>5. t[1] = p => (came(t[1]) <=> came(p))
      OBVIOUS
    <3>6. came(p) <=> p \in DOMAIN future /\ future[p] = "result"
      OBVIOUS
    <3> HIDE DEF kept, came, before
    <3> QED BY <3>2, <3>3, <3>4, <3>5, <3>6
  <2>5. CASE p \in DOMAIN future /\ future[p] = "result"
    <3>1. Taken(c) = Taken(collected) \cup Goods(p, Len(found[p]))
      BY <2>4, <2>5
    <3> QED BY <2>1, <2>5, <3>1
  <2>6. CASE ~ (p \in DOMAIN future /\ future[p] = "result")
    <3>1. Taken(c) = Taken(collected)
      BY <2>4, <2>6
    <3> QED BY <2>1, <2>6, <3>1
  <2> QED BY <2>5, <2>6
<1>10. collected' \in 0 .. Len(Find!Order)
  BY <1>1, <1>3 DEF N
<1>8. SearchTypes' /\ SearchControl'
  <2>1. CASE p \notin DOMAIN future
    <3>1. outcome' = outcome /\ Taken(collected)' = Taken(collected)
      BY <1>1, <1>7, <2>1
    <3>2. SearchTypes'
      BY <1>1, <1>2, <1>10, <3>1 DEF SearchTypes, Find!Running
    <3>3. \E f : Lists(f, outcome.results, Taken(collected))'
      <4>1. Lists(g, outcome.results, Taken(collected))'
        BY <1>1, <1>5, <3>1 DEF Lists
      <4> HIDE DEF Lists
      <4> QED BY <4>1
    <3>4. SearchControl'
      BY <1>1, <1>2, <1>4, <2>1, <3>1, <3>3 DEF SearchControl
    <3> QED BY <3>2, <3>4
  <2>2. CASE p \in DOMAIN future /\ future[p] = "result"
    <3> DEFINE new == outcome.results \o Find!Kept(p)
               all == Taken(collected) \cup Goods(p, Len(found[p]))
    <3>1. PICK h : Lists(h, Find!Kept(p), Goods(p, Len(found[p])))
      BY <1>2, <1>3, KeptRight DEF SearchTypes
    <3>2. Taken(collected) \cap Goods(p, Len(found[p])) = {}
      BY <1>3 DEF Taken, Goods
    <3>3. PICK f : Lists(f, new, all)
      BY <1>5, <3>1, <3>2, ListsJoined
    <3>4. new \in Seq(Find!Result)
      BY <3>3 DEF Lists, Single
    <3> HIDE DEF new, all
    <3>5. /\ outcome' \in [results : Seq(Find!Result), queried : SUBSET Providers, errors : SUBSET Providers]
          /\ outcome'.results = new /\ outcome'.queried = outcome.queried
          /\ outcome'.errors = outcome.errors
      <4> DEFINE X == Seq(Find!Result)
      <4>1. outcome' = [outcome EXCEPT !.results = new]
        BY <1>1, <2>2 DEF new
      <4> HIDE DEF X
      <4>2. outcome' \in [results : X, queried : SUBSET Providers, errors : SUBSET Providers]
          /\ outcome'.results = new /\ outcome'.queried = outcome.queried
          /\ outcome'.errors = outcome.errors
        BY <1>6, <3>4, <4>1 DEF X
      <4> QED BY <4>2 DEF X
    <3>6. SearchTypes'
      BY <1>1, <1>2, <1>10, <3>5 DEF SearchTypes, Find!Running
    <3>7. Taken(collected)' = all
      BY <1>1, <1>7, <2>2 DEF all
    <3>8. \E k : Lists(k, outcome.results, Taken(collected))'
      <4>1. Lists(f, outcome.results, Taken(collected))'
        BY <1>1, <3>3, <3>5, <3>7 DEF Lists
      <4> HIDE DEF Lists
      <4> QED BY <4>1
    <3>9. outcome'.errors = { q \in DOMAIN future :
             future[q] = "error" /\ \E n \in 1 .. c : Find!Order[n] = q }
      BY <1>2, <1>4, <2>2, <3>5 DEF SearchControl
    <3>10. \A n \in 1 .. c :
             Find!Order[n] \in DOMAIN future => future[Find!Order[n]] \in {"error", "result"}
      BY <1>1, <1>2, <1>4 DEF SearchControl
    <3>11. SearchControl'
      BY <1>1, <1>2, <3>5, <3>8, <3>9, <3>10 DEF SearchControl
    <3> QED BY <3>6, <3>11
  <2>3. CASE p \in DOMAIN future /\ future[p] # "result"
    <3>1. future[p] = "error" /\ Taken(collected)' = Taken(collected)
      BY <1>1, <1>7, <2>3
    <3>2. /\ outcome' \in [results : Seq(Find!Result), queried : SUBSET Providers, errors : SUBSET Providers]
          /\ outcome'.results = outcome.results /\ outcome'.queried = outcome.queried
          /\ outcome'.errors = outcome.errors \cup {p}
      <4> DEFINE X == Seq(Find!Result)
      <4>1. outcome' = [outcome EXCEPT !.errors = @ \cup {p}]
        BY <1>1, <2>3
      <4>2. outcome \in [results : X, queried : SUBSET Providers, errors : SUBSET Providers]
        BY <1>6
      <4> HIDE DEF X
      <4>3. outcome' \in [results : X, queried : SUBSET Providers, errors : SUBSET Providers]
          /\ outcome'.results = outcome.results /\ outcome'.queried = outcome.queried
          /\ outcome'.errors = outcome.errors \cup {p}
        BY <1>3, <4>1, <4>2
      <4> QED BY <4>3 DEF X
    <3>3. SearchTypes'
      BY <1>1, <1>2, <1>10, <3>2 DEF SearchTypes, Find!Running
    <3>4. \E f : Lists(f, outcome.results, Taken(collected))'
      <4>1. Lists(g, outcome.results, Taken(collected))'
        BY <1>1, <1>5, <3>1, <3>2 DEF Lists
      <4> HIDE DEF Lists
      <4> QED BY <4>1
    <3>5. outcome'.errors = { q \in DOMAIN future :
             future[q] = "error" /\ \E n \in 1 .. c : Find!Order[n] = q }
      BY <1>2, <1>4, <2>3, <3>1, <3>2 DEF SearchControl
    <3>6. \A n \in 1 .. c :
             Find!Order[n] \in DOMAIN future => future[Find!Order[n]] \in {"error", "result"}
      BY <1>1, <1>2, <1>4 DEF SearchControl
    <3>7. SearchControl'
      BY <1>1, <1>2, <3>2, <3>4, <3>5, <3>6 DEF SearchControl
    <3> QED BY <3>3, <3>7
  <2> QED BY <2>1, <2>2, <2>3
<1>9. Find!MergedExactly' /\ Find!BestFirst'
  BY <1>1 DEF Find!MergedExactly, Find!BestFirst
<1> QED BY <1>8, <1>9 DEF SearchInv

LEMMA SearchInit == Find!Init => SearchInv
<1> SUFFICES ASSUME Find!Init PROVE SearchInv
  OBVIOUS
<1>1. /\ settings \in [Providers -> {"on", "off"} \cup (IF BadSettings THEN {"bad"} ELSE {})]
      /\ asked \in {Providers} \cup { {p} : p \in Providers }
      /\ state = "new" /\ future = [p \in {} |-> "pending"]
      /\ found = [p \in Providers |-> <<>>]
      /\ collected = 0 /\ outcome = Find!NoOutcome
  BY DEF Find!Init
<1>2. DOMAIN future = {} /\ Find!Running = {}
  BY <1>1 DEF Find!Running
<1>3. SearchTypes
  <2>1. Cardinality(Find!Running) <= Pool
    BY <1>2, SearchAssumption, FS_EmptySet
  <2>2. future \in [DOMAIN future -> {"pending", "running", "error", "result"}]
    BY <1>1
  <2>3. collected \in 0 .. Len(Find!Order)
    BY <1>1, OrderFacts
  <2>4. found \in [Providers -> Seq(Find!Row)] /\ \A p \in Providers : Len(found[p]) <= MaxRows
    <3>1. <<>> \in Seq(Find!Row) /\ Len(<<>>) <= MaxRows
      BY SearchAssumption
    <3> DEFINE none == <<>>
               X == Seq(Find!Row)
    <3>2. none \in X /\ Len(none) <= MaxRows /\ found = [p \in Providers |-> none]
      BY <1>1, <3>1
    <3> HIDE DEF none, X
    <3>3. found \in [Providers -> X] /\ \A p \in Providers : Len(found[p]) <= MaxRows
      BY <3>2
    <3> QED BY <3>3 DEF X
  <2>5. outcome \in [results : Seq(Find!Result), queried : SUBSET Providers, errors : SUBSET Providers]
    <3> DEFINE none == <<>>
               X == Seq(Find!Result)
    <3>1. none \in X /\ outcome = [results |-> none, queried |-> {}, errors |-> {}]
      BY <1>1 DEF Find!NoOutcome
    <3> HIDE DEF none, X
    <3>2. outcome \in [results : X, queried : SUBSET Providers, errors : SUBSET Providers]
      BY <3>1
    <3> QED BY <3>2 DEF X
  <2>6. settings \in [Providers -> {"on", "off", "bad"}] /\ asked \subseteq Providers
    BY <1>1
  <2> QED BY <1>1, <1>2, <2>1, <2>2, <2>3, <2>4, <2>5, <2>6 DEF SearchTypes
<1>4. SearchControl
  <2>1. Taken(collected) = {} /\ outcome.results = <<>>
    BY <1>1, <1>2 DEF Taken, Find!NoOutcome
  <2>2. \E g : Lists(g, outcome.results, Taken(collected))
    BY <2>1, ListsNone
  <2>3. outcome.queried = {} /\ outcome.errors = {}
    BY <1>1 DEF Find!NoOutcome
  <2> QED BY <1>1, <1>2, <2>2, <2>3 DEF SearchControl
<1>5. Find!MergedExactly /\ Find!BestFirst
  BY <1>1 DEF Find!MergedExactly, Find!BestFirst
<1> QED BY <1>3, <1>4, <1>5 DEF SearchInv

LEMMA SubmitRight ==
  ASSUME SearchInv, Find!Submit \/ Find!Misconfigured
  PROVE  SearchInv'
<1>1. SearchTypes /\ SearchControl /\ state = "new"
  BY DEF SearchInv, Find!Submit, Find!Misconfigured
<1>2. DOMAIN future = {} /\ collected = 0 /\ outcome = Find!NoOutcome
  BY <1>1 DEF SearchControl
<1>3. PICK g : Lists(g, outcome.results, Taken(collected))
  BY <1>1 DEF SearchControl
<1>4. Taken(collected) = {} /\ outcome.results = <<>>
  BY <1>2 DEF Taken, Find!NoOutcome
<1>5. CASE Find!Submit
  <2> DEFINE W == Find!Wanted
  <2>1. /\ W \subseteq Providers
        /\ outcome' = [outcome EXCEPT !.queried = W]
        /\ future' = [p \in W |-> "pending"]
        /\ state' = IF W = {} THEN "done" ELSE "running"
        /\ UNCHANGED <<settings, asked, found, collected>>
    BY <1>5 DEF Find!Submit, Find!Wanted, Find!Enabled
  <2> HIDE DEF W
  <2>2. /\ outcome' \in [results : Seq(Find!Result), queried : SUBSET Providers, errors : SUBSET Providers]
        /\ outcome'.results = outcome.results /\ outcome'.queried = W /\ outcome'.errors = {}
    <3> DEFINE X == Seq(Find!Result)
    <3>1. outcome \in [results : X, queried : SUBSET Providers, errors : SUBSET Providers]
          /\ outcome.errors = {}
      BY <1>1, <1>2 DEF SearchTypes, Find!NoOutcome
    <3> HIDE DEF X
    <3>2. /\ outcome' \in [results : X, queried : SUBSET Providers, errors : SUBSET Providers]
          /\ outcome'.results = outcome.results /\ outcome'.queried = W /\ outcome'.errors = {}
      BY <2>1, <3>1
    <3> QED BY <3>2 DEF X
  <2>3. DOMAIN future' = W /\ (\A p \in W : future'[p] = "pending") /\ Find!Running' = {}
    BY <2>1 DEF Find!Running
  <2>4. SearchTypes'
    <3>1. Cardinality(Find!Running') <= Pool
      BY <2>3, SearchAssumption, FS_EmptySet
    <3> QED BY <1>1, <2>1, <2>2, <2>3, <3>1 DEF SearchTypes
  <2>5. Taken(collected)' = {}
    BY <2>3 DEF Taken
  <2>6. \E h : Lists(h, outcome.results, Taken(collected))'
    <3>1. Lists(g, outcome.results, Taken(collected))'
      BY <1>3, <1>4, <2>2, <2>5 DEF Lists
    <3> HIDE DEF Lists
    <3> QED BY <3>1
  <2>7. SearchControl'
    BY <1>2, <2>1, <2>2, <2>3, <2>6 DEF SearchControl
  <2>8. W # {} => Find!MergedExactly' /\ Find!BestFirst'
    BY <2>1 DEF Find!MergedExactly, Find!BestFirst
  <2>9. W = {} => Find!MergedExactly' /\ Find!BestFirst'
    <3>1. W = {} => Find!Answered' = {} /\ DOMAIN outcome'.results = {}
      BY <1>4, <2>2 DEF Find!Answered
    <3> QED BY <2>2, <3>1 DEF Find!MergedExactly, Find!BestFirst
  <2> QED BY <2>4, <2>7, <2>8, <2>9 DEF SearchInv
<1>6. CASE Find!Misconfigured
  <2>1. state' = "failed" /\ UNCHANGED <<settings, asked, future, found, collected, outcome>>
    BY <1>6 DEF Find!Misconfigured
  <2>2. SearchTypes'
    BY <1>1, <2>1 DEF SearchTypes, Find!Running
  <2>3. Taken(collected)' = Taken(collected)
    BY <2>1 DEF Taken
  <2>4. \E h : Lists(h, outcome.results, Taken(collected))'
    <3>1. Lists(g, outcome.results, Taken(collected))'
      BY <1>3, <2>1, <2>3 DEF Lists
    <3> HIDE DEF Lists
    <3> QED BY <3>1
  <2>5. SearchControl'
    BY <1>1, <1>2, <2>1, <2>4 DEF SearchControl
  <2>6. Find!MergedExactly' /\ Find!BestFirst'
    BY <2>1 DEF Find!MergedExactly, Find!BestFirst
  <2> QED BY <2>2, <2>5, <2>6 DEF SearchInv
<1> QED BY <1>5, <1>6

LEMMA ProviderRight ==
  ASSUME SearchInv, NEW p \in Providers, Find!ProviderStep(p)
  PROVE  SearchInv'
<1> DEFINE Ended == {"error", "result"}
<1>1. SearchTypes /\ SearchControl
  BY DEF SearchInv
<1>2. /\ p \in DOMAIN future /\ future[p] \in {"pending", "running"}
      /\ \E e \in {"running", "error", "result"} :
           /\ future' = [future EXCEPT ![p] = e]
           /\ e = "running" => Cardinality(Find!Running) < Pool
      /\ UNCHANGED <<settings, asked, state, collected, outcome>>
  <2>1. CASE Find!RunProvider(p)
    BY <2>1, SameCardinality DEF Find!RunProvider
  <2>2. CASE Find!ProviderFails(p)
    BY <2>2 DEF Find!ProviderFails, Find!Running
  <2>3. CASE Find!ProviderReturns(p)
    BY <2>3 DEF Find!ProviderReturns, Find!Running
  <2> QED BY <2>1, <2>2, <2>3 DEF Find!ProviderStep
<1>3. \/ found' = found
      \/ \E sent \in Seq(Find!Row) : Len(sent) <= MaxRows /\ found' = [found EXCEPT ![p] = sent]
  <2>1. ASSUME NEW n \in 0 .. MaxRows, NEW sent \in [1 .. n -> Find!Row]
        PROVE  sent \in Seq(Find!Row) /\ Len(sent) <= MaxRows
    <3>1. n \in Nat /\ n <= MaxRows
      BY SearchAssumption
    <3>2. sent \in Seq(Find!Row) /\ Len(sent) = n
      BY <3>1
    <3> QED BY <3>1, <3>2
  <2>2. MaxRows \in 0 .. MaxRows
    BY SearchAssumption
  <2>3. CASE Find!RunProvider(p)
    BY <2>3 DEF Find!RunProvider
  <2>4. CASE Find!ProviderFails(p)
    BY <2>1, <2>2, <2>4 DEF Find!ProviderFails
  <2>5. CASE Find!ProviderReturns(p)
    BY <2>1, <2>5 DEF Find!ProviderReturns
  <2> QED BY <2>3, <2>4, <2>5 DEF Find!ProviderStep
<1>4. PICK e \in {"running", "error", "result"} :
        /\ future' = [future EXCEPT ![p] = e]
        /\ e = "running" => Cardinality(Find!Running) < Pool
  BY <1>2
<1>5. /\ DOMAIN future' = DOMAIN future /\ future'[p] = e
      /\ \A q \in DOMAIN future : q # p => future'[q] = future[q]
      /\ future' \in [DOMAIN future' -> {"pending", "running", "error", "result"}]
  <2> DEFINE D == DOMAIN future
             X == {"pending", "running", "error", "result"}
  <2>1. future \in [D -> X] /\ p \in D /\ e \in X
    BY <1>1, <1>2 DEF SearchTypes
  <2> HIDE DEF D, X
  <2>2. future' \in [D -> X] /\ future'[p] = e /\ \A q \in D : q # p => future'[q] = future[q]
    BY <1>4, <2>1
  <2>3. DOMAIN future' = D
    BY <2>2
  <2> QED BY <2>2, <2>3 DEF D, X
<1>6. found' \in [Providers -> Seq(Find!Row)] /\ (\A q \in Providers : Len(found'[q]) <= MaxRows)
      /\ \A q : q # p => found'[q] = found[q]
  <2> DEFINE X == Seq(Find!Row)
  <2>1. found \in [Providers -> X] /\ \A q \in Providers : Len(found[q]) <= MaxRows
    BY <1>1 DEF SearchTypes
  <2>2. CASE found' = found
    BY <2>1, <2>2
  <2>3. CASE \E sent \in X : Len(sent) <= MaxRows /\ found' = [found EXCEPT ![p] = sent]
    <3>1. PICK sent \in X : Len(sent) <= MaxRows /\ found' = [found EXCEPT ![p] = sent]
      BY <2>3
    <3> HIDE DEF X
    <3>2. found' \in [Providers -> X] /\ (\A q \in Providers : Len(found'[q]) <= MaxRows)
      BY <2>1, <3>1
    <3>3. \A q : q # p => found'[q] = found[q]
      BY <2>1, <3>1
    <3> QED BY <3>2, <3>3 DEF X
  <2> QED BY <1>3, <2>2, <2>3
<1>7. \A n \in 1 .. collected : Find!Order[n] # p
  BY <1>1, <1>2 DEF SearchControl
<1>8. state = "running"
  <2>1. state \notin {"new", "failed"}
    BY <1>1, <1>2 DEF SearchControl
  <2>2. state # "done"
    <3>1. \E i \in 1 .. Len(Find!Order) : Find!Order[i] = p
      BY OrderFacts
    <3> QED BY <1>1, <1>2, <1>7, <3>1 DEF SearchControl
  <2> QED BY <1>1, <2>1, <2>2 DEF SearchTypes
<1>9. Cardinality(Find!Running') <= Pool
  <2>1. IsFiniteSet(Find!Running) /\ Cardinality(Find!Running) \in Nat
    <3>1. Find!Running \in SUBSET Providers
      BY <1>1 DEF SearchTypes, Find!Running
    <3>2. IsFiniteSet(Providers)
      BY SearchAssumption
    <3> QED BY <3>1, <3>2, FS_Subset, FS_CardinalityType
  <2>2. Pool \in Nat
    BY SearchAssumption
  <2>3. CASE e = "running"
    <3>1. Find!Running' \in SUBSET (Find!Running \cup {p})
      BY <1>5 DEF Find!Running
    <3>2. IsFiniteSet(Find!Running \cup {p})
          /\ Cardinality(Find!Running \cup {p}) <= Cardinality(Find!Running) + 1
      <4>1. p \notin Find!Running =>
              Cardinality(Find!Running \cup {p}) = Cardinality(Find!Running) + 1
              /\ IsFiniteSet(Find!Running \cup {p})
        BY <2>1, FS_AddElement
      <4>2. p \in Find!Running => Find!Running \cup {p} = Find!Running
        OBVIOUS
      <4>3. \A n \in Nat : n <= n + 1 /\ n + 1 <= n + 1
        OBVIOUS
      <4>4. CASE p \in Find!Running
        BY <2>1, <4>2, <4>3, <4>4
      <4>5. CASE p \notin Find!Running
        BY <2>1, <4>1, <4>3, <4>5
      <4> QED BY <4>4, <4>5
    <3>3. Cardinality(Find!Running') <= Cardinality(Find!Running \cup {p})
          /\ Cardinality(Find!Running') \in Nat /\ Cardinality(Find!Running \cup {p}) \in Nat
      BY <3>1, <3>2, FS_Subset, FS_CardinalityType
    <3>4. Cardinality(Find!Running) < Pool
      BY <1>4, <2>3
    <3> QED BY <2>1, <2>2, <3>2, <3>3, <3>4
  <2>4. CASE e # "running"
    <3>1. Find!Running' \in SUBSET Find!Running
      BY <1>5, <2>4 DEF Find!Running
    <3>2. Cardinality(Find!Running') <= Cardinality(Find!Running)
          /\ Cardinality(Find!Running') \in Nat
      BY <2>1, <3>1, FS_Subset, FS_CardinalityType
    <3>3. Cardinality(Find!Running) <= Pool
      BY <1>1 DEF SearchTypes
    <3> QED BY <2>1, <2>2, <3>2, <3>3
  <2> QED BY <2>3, <2>4
<1>10. SearchTypes'
  BY <1>1, <1>2, <1>5, <1>6, <1>9 DEF SearchTypes
<1>11. Taken(collected)' = Taken(collected)
  <2>1. ASSUME NEW t PROVE t \in Taken(collected)' <=> t \in Taken(collected)
    <3>1. CASE t[1] = p
      BY <1>2, <1>7, <3>1 DEF Taken
    <3>2. CASE t[1] # p
      <4>1. found'[t[1]] = found[t[1]]
        BY <1>6, <3>2
      <4>2. t[1] \in DOMAIN future' <=> t[1] \in DOMAIN future
        BY <1>5
      <4>3. t[1] \in DOMAIN future => future'[t[1]] = future[t[1]]
        BY <1>5, <3>2
      <4> QED BY <1>2, <4>1, <4>2, <4>3 DEF Taken
    <3> QED BY <3>1, <3>2
  <2> QED BY <2>1
<1>12. \E h : Lists(h, outcome.results, Taken(collected))'
  <2>1. PICK g : Lists(g, outcome.results, Taken(collected))
    BY <1>1, <1>8 DEF SearchControl
  <2>2. \A t \in Taken(collected) : found'[t[1]] = found[t[1]]
    BY <1>6, <1>7 DEF Taken
  <2>3. \A k \in 1 .. Len(outcome.results) : g[k] \in Taken(collected)
    BY <2>1 DEF Lists
  <2>4. \A k \in 1 .. Len(outcome.results) : found'[g[k][1]] = found[g[k][1]]
    BY <2>2, <2>3
  <2>5. Lists(g, outcome.results, Taken(collected))'
    BY <1>2, <1>11, <2>1, <2>4 DEF Lists
  <2> HIDE DEF Lists
  <2> QED BY <2>5
<1>13. SearchControl'
  <2>1. outcome.errors = { q \in DOMAIN future' :
                             future'[q] = "error" /\ \E n \in 1 .. collected : Find!Order[n] = q }
    BY <1>1, <1>5, <1>7 DEF SearchControl
  <2>2. \A n \in 1 .. collected :
          Find!Order[n] \in DOMAIN future' => future'[Find!Order[n]] \in Ended
    BY <1>1, <1>5, <1>7 DEF SearchControl
  <2> QED BY <1>1, <1>2, <1>5, <1>8, <1>12, <2>1, <2>2 DEF SearchControl
<1>14. Find!MergedExactly' /\ Find!BestFirst'
  BY <1>2, <1>8 DEF Find!MergedExactly, Find!BestFirst
<1> QED BY <1>10, <1>13, <1>14 DEF SearchInv

LEMMA SearchKeeps ==
  ASSUME SearchInv, Find!Next
  PROVE  SearchInv'
<1>1. CASE Find!Misconfigured \/ Find!Submit
  BY <1>1, SubmitRight
<1>2. ASSUME NEW p \in Providers, Find!ProviderStep(p) PROVE SearchInv'
  BY <1>2, ProviderRight
<1>3. CASE Find!Collect
  BY <1>3, CollectRight
<1>4. CASE Find!Finish
  BY <1>4, FinishRight
<1> QED BY <1>1, <1>2, <1>3, <1>4 DEF Find!Next

LEMMA SearchSame ==
  ASSUME SearchInv, UNCHANGED searchVars
  PROVE  SearchInv'
<1>1. UNCHANGED <<settings, asked, state, future, found, collected, outcome>>
  BY DEF searchVars
<1>2. SearchTypes'
  BY <1>1 DEF SearchInv, SearchTypes, Find!Running
<1>3. SearchControl'
  <2>1. Taken(collected)' = Taken(collected)
    BY <1>1 DEF Taken
  <2>2. state # "done" => \E g : Lists(g, outcome.results, Taken(collected))'
    <3>1. ASSUME NEW g, Lists(g, outcome.results, Taken(collected))
          PROVE  Lists(g, outcome.results, Taken(collected))'
      BY <1>1, <2>1, <3>1 DEF Lists
    <3> HIDE DEF Lists
    <3> QED BY <3>1 DEF SearchInv, SearchControl
  <2> QED BY <1>1, <2>2 DEF SearchInv, SearchControl
<1>4. Find!MergedExactly' /\ Find!BestFirst'
  <2>1. Find!Answered' = Find!Answered
    BY <1>1 DEF Find!Answered
  <2>2. \A r : Find!Reports(r)' = Find!Reports(r)
    BY <1>1, <2>1 DEF Find!Reports
  <2>3. Find!MergedExactly'
    BY <1>1, <2>1, <2>2 DEF SearchInv, Find!MergedExactly
  <2>4. Find!BestFirst'
    BY <1>1, <2>1 DEF SearchInv, Find!BestFirst
  <2> QED BY <2>3, <2>4
<1> QED BY <1>2, <1>3, <1>4 DEF SearchInv

LEMMA SearchTyped == SearchInv => Find!TypeOK
<1> SUFFICES ASSUME SearchInv PROVE Find!TypeOK
  OBVIOUS
<1>1. SearchTypes /\ SearchControl
  BY DEF SearchInv
<1>2. Find!Cardinality({p \in DOMAIN future : future[p] = "running"}) <= Pool
  BY <1>1, SameCardinality DEF SearchTypes, Find!Running
<1>3. \A p \in Providers : Len(found[p]) <= MaxRows /\ Find!ToSet(found[p]) \subseteq Find!Row
  <2>1. \A p \in Providers : found[p] \in Seq(Find!Row) /\ Len(found[p]) <= MaxRows
    BY <1>1 DEF SearchTypes
  <2> QED BY <2>1 DEF Find!ToSet
<1>4. \A p \in DOMAIN future : future[p] \in {"pending", "running", "error", "result"}
  BY <1>1 DEF SearchTypes
<1>5. outcome.queried \subseteq Providers /\ outcome.errors \subseteq outcome.queried
  BY <1>1 DEF SearchTypes, SearchControl
<1>6. \A i \in DOMAIN outcome.results :
        /\ outcome.results[i].infohash \in Hashes \cup {NoHash}
        /\ outcome.results[i].seeders \in Seeders
  <2>1. outcome.results \in Seq(Find!Result)
    BY <1>1 DEF SearchTypes
  <2>2. \A i \in DOMAIN outcome.results : outcome.results[i] \in Find!Result
    BY <2>1
  <2>3. \A r \in Find!Result : r.infohash \in Hashes \cup {NoHash} /\ r.seeders \in Seeders
    BY DEF Find!Result
  <2> QED BY <2>2, <2>3
<1> QED BY <1>1, <1>2, <1>3, <1>4, <1>5, <1>6 DEF Find!TypeOK, SearchTypes

(* ResultsRight, for any number of providers, rows, torrents and seeders    *)
(* and any limit: a failure is named and hides nothing that the others      *)
(* returned, each torrent is there once, with its best report and all its   *)
(* sources, and what the limit cuts is no better than what is listed        *)
(* (SearchService.search, dedupe, rank).                                    *)
THEOREM ResultsAlwaysRight == AnswersSpec => []ResultsRight
<1>1. AnswersInit => SearchInv
  BY SearchInit DEF AnswersInit
<1>2. SearchInv /\ [AnswersNext]_allVars => SearchInv'
  <2> SUFFICES ASSUME SearchInv, [AnswersNext]_allVars PROVE SearchInv'
    OBVIOUS
  <2>1. Find!Next \/ UNCHANGED searchVars
    BY DEF AnswersNext, About, Access, Api, Search, Panel, allVars
  <2> QED BY <2>1, SearchKeeps, SearchSame
<1>3. SearchInv => ResultsRight
  BY SearchTyped DEF SearchInv, ResultsRight
<1> QED BY <1>1, <1>2, <1>3, PTL DEF AnswersSpec
=============================================================================
