----------------------------- MODULE SearchPanel -----------------------------
(***************************************************************************)
(* The Search tab: searches run on threads of their own and their outcomes *)
(* come back as signals; a result is added from its row, which sorting     *)
(* moves, or from a context menu, which runs an event loop of its own.     *)
(***************************************************************************)
EXTENDS Integers, FiniteSets, Sequences

CONSTANTS
  Searches,    (* bound: the searches started                               *)
  Results,     (* search results                                            *)
  MaxResults,  (* bound: results of one outcome                             *)
  SearchInMenu (* whether a search may end while a menu is open             *)

Outcomes == UNION { { f \in [1 .. n -> Results] : \A i, j \in 1 .. n : f[i] = f[j] => i = j }
                    : n \in 0 .. MaxResults }
Indexes  == 1 .. MaxResults
NoMenu   == 0

VARIABLES
  enabled,     (* search_button                                             *)
  running,     (* _worker_refs whose search has not ended                   *)
  posted,      (* search_finished and search_failed on their way            *)
  finished,    (* threads that ended, whose finished() is on its way        *)
  refs,        (* _worker_refs                                              *)
  results,     (* _results                                                  *)
  rows,        (* the table: the index stashed on each row's title item     *)
  menu,        (* index the open menu was opened on                         *)
  pointed,     (* history: the result it was opened on                      *)
  added        (* history: what was clicked and what was added              *)

table == <<results, rows>>
vars  == <<enabled, running, posted, finished, refs, table, menu, pointed, added>>

(* search_finished or search_failed *)
Signal == [ search : Searches, failed : BOOLEAN, outcome : Outcomes ]

TypeOK ==
  /\ enabled \in BOOLEAN
  /\ running \subseteq Searches /\ finished \subseteq Searches /\ refs \subseteq Searches
  /\ posted \in Seq(Signal)
  /\ results \in Outcomes
  /\ DOMAIN rows = DOMAIN results /\ { rows[n] : n \in DOMAIN rows } = DOMAIN results
  /\ menu \in Indexes \cup {NoMenu}
  /\ pointed \subseteq Results /\ added \subseteq Results \X Results

Init ==
  /\ enabled = TRUE /\ running = {} /\ posted = <<>> /\ finished = {} /\ refs = {}
  /\ results = <<>> /\ rows = <<>> /\ menu = NoMenu /\ pointed = {} /\ added = {}

Idle == menu = NoMenu
EventLoop == Idle \/ SearchInMenu

-----------------------------------------------------------------------------
(* start_search: by the button while it is enabled, or by Return. *)
StartSearch(s) ==
  /\ Idle /\ s \notin running \cup finished \cup refs
  /\ \A i \in DOMAIN posted : posted[i].search # s
  /\ enabled' = FALSE
  /\ running' = running \cup {s} /\ refs' = refs \cup {s}
  /\ UNCHANGED <<posted, finished, table, menu, pointed, added>>

(* SearchWorker.run *)
WorkerRuns(s) ==
  /\ s \in running
  /\ running' = running \ {s}
  /\ \E o \in Outcomes, f \in BOOLEAN :
       posted' = Append(posted, [search |-> s, failed |-> f, outcome |-> IF f THEN <<>> ELSE o])
  /\ finished' = finished \cup {s}
  /\ UNCHANGED <<enabled, refs, table, menu, pointed, added>>

(* _release_worker, after the outcome was handled *)
ReleaseWorker(s) ==
  /\ EventLoop /\ s \in finished
  /\ \A i \in DOMAIN posted : posted[i].search # s
  /\ finished' = finished \ {s} /\ refs' = refs \ {s}
  /\ UNCHANGED <<enabled, running, posted, table, menu, pointed, added>>

(* The rows in some order: sorting is enabled. *)
Sorted(rs) == { f \in [DOMAIN rs -> DOMAIN rs] : { f[n] : n \in DOMAIN rs } = DOMAIN rs }

(* _on_search_finished, _populate_table *)
OnSearchFinished ==
  /\ EventLoop /\ posted # <<>> /\ ~Head(posted).failed
  /\ posted' = Tail(posted)
  /\ enabled' = TRUE
  /\ results' = Head(posted).outcome
  /\ rows' \in Sorted(results')
  /\ UNCHANGED <<running, finished, refs, menu, pointed, added>>

(* Mutant: a failed search leaves the button as it is. *)
FailsQuietly ==
  /\ EventLoop /\ posted # <<>> /\ Head(posted).failed
  /\ posted' = Tail(posted)
  /\ UNCHANGED <<enabled, running, finished, refs, table, menu, pointed, added>>

OnSearchFailed ==
  /\ EventLoop /\ posted # <<>> /\ Head(posted).failed
  /\ posted' = Tail(posted)
  /\ enabled' = TRUE
  /\ UNCHANGED <<running, finished, refs, table, menu, pointed, added>>

(* A click on a header. *)
Sort ==
  /\ Idle
  /\ rows' \in Sorted(results)
  /\ UNCHANGED <<enabled, running, posted, finished, refs, results, menu, pointed, added>>

(* What the user sees in a row: it was filled from its result and moves as  *)
(* a whole.                                                                 *)
Shown(n) == results[rows[n]]

(* Mutant: the row of the click is taken for the index. *)
TakesRow(n) == n

(* _row_result_index *)
row_result_index(n) == rows[n]

(* add_result_to_torrents, of the index *)
Adds(seen, index) == added' = IF index \in DOMAIN results THEN added \cup {<<seen, results[index]>>}
                              ELSE added

(* Its Add button, or a double click. *)
ClickRow(n) ==
  /\ Idle /\ n \in DOMAIN rows
  /\ Adds(Shown(n), row_result_index(n))
  /\ UNCHANGED <<enabled, running, posted, finished, refs, table, menu, pointed>>

(* _show_context_menu: the index is looked up, menu.exec runs. *)
OpenMenu(n) ==
  /\ Idle /\ n \in DOMAIN rows
  /\ menu' = row_result_index(n) /\ pointed' = {Shown(n)}
  /\ UNCHANGED <<enabled, running, posted, finished, refs, table, added>>

ChooseAdd ==
  /\ menu # NoMenu
  /\ \E seen \in pointed : Adds(seen, menu)
  /\ menu' = NoMenu /\ pointed' = {}
  /\ UNCHANGED <<enabled, running, posted, finished, refs, table>>

CloseMenu ==
  /\ menu # NoMenu
  /\ menu' = NoMenu /\ pointed' = {}
  /\ UNCHANGED <<enabled, running, posted, finished, refs, table, added>>

-----------------------------------------------------------------------------
Handle == OnSearchFinished \/ OnSearchFailed \/ \E s \in Searches : ReleaseWorker(s)

Next ==
  \/ \E s \in Searches : StartSearch(s) \/ WorkerRuns(s)
  \/ Handle \/ Sort
  \/ \E n \in Indexes : ClickRow(n) \/ OpenMenu(n)
  \/ ChooseAdd \/ CloseMenu

Spec == Init /\ [][Next]_vars

(* Requests time out, signals are delivered, a menu is closed. *)
FairSpec ==
  /\ Spec
  /\ \A s \in Searches : WF_vars(WorkerRuns(s))
  /\ WF_vars(Handle) /\ WF_vars(CloseMenu)

-----------------------------------------------------------------------------
(* Properties.                                                              *)

(* What is added is what the row showed when it was clicked or the menu     *)
(* opened on it, wherever sorting has moved it ("so actions (Add /          *)
(* double-click / context menu) resolve the right SearchResult").           *)
AddsWhatWasShown == \A pair \in added : pair[1] = pair[2]

(* The search button comes back, whatever came of the searches. *)
ButtonComesBack == []<>enabled

(* The wrapper of a thread is kept as long as the thread runs or its        *)
(* signals are on their way ("A reference to each in-flight worker is       *)
(* kept").                                                                  *)
WorkersKept ==
  /\ running \cup finished \subseteq refs
  /\ \A i \in DOMAIN posted : posted[i].search \in refs
=============================================================================
