-------------------------------- MODULE Stats --------------------------------
(***************************************************************************)
(* The statistics: the bytes every transfer reports are sampled once a     *)
(* second, the difference to the sample before is added to the totals of   *)
(* the run (session) and of all runs (lifetime); the latter are saved      *)
(* every few ticks and on exit, and loaded by the next run.                *)
(***************************************************************************)
EXTENDS Integers, FiniteSets, Functions

CONSTANTS
  Downloads, Transfers,   (* HTTP downloads; torrents                       *)
  Size,                   (* bound: bytes of a transfer                     *)
  SaveEvery,              (* SAVE_EVERY_N_TICKS                             *)
  MaxReceived,            (* bound: bytes received in all                   *)
  Restarts,               (* bound: subset of {"close", "kill"}             *)
  StartsOver              (* bound: whether transfers start over            *)

Items == Downloads \cup Transfers

VARIABLES
  up,        (* the process runs                                            *)
  listed,    (* transfers in the lists                                      *)
  size,      (* downloaded_size, all_time_download                          *)
  kept,      (* what a restart finds of it: sidecar, resume data            *)
  last,      (* last sample of each id: _last_download_bytes and its twin   *)
  session, lifetime,
  stats,     (* stats.json                                                  *)
  ticks,     (* _tick_count                                                 *)
  completed, (* lifetime_completed_*                                        *)
  received,  (* history: bytes received, over all runs                      *)
  finished,  (* history: completions announced, over all runs               *)
  pending,   (* history: bytes of each received since the last tick         *)
  seen       (* history: those of transfers that had been sampled before    *)

aggregator == <<last, session, lifetime, ticks, completed>>
vars == <<up, listed, size, kept, aggregator, stats, received, finished, pending, seen>>

TypeOK ==
  /\ up \in BOOLEAN /\ listed \subseteq Items
  /\ size \in [Items -> 0 .. Size] /\ kept \in [Items -> 0 .. Size]
  /\ DOMAIN last \subseteq Items /\ \A i \in DOMAIN last : last[i] \in 0 .. Size
  /\ session \in Nat /\ lifetime \in Nat /\ completed \in Nat
  /\ stats \in [bytes : Nat, completed : Nat]
  /\ ticks \in 0 .. SaveEvery - 1
  /\ received \in Nat /\ finished \in Nat /\ seen \in Nat /\ pending \in [Items -> 0 .. MaxReceived]

NoSamples == [i \in {} |-> 0]

(* StatsStore.load finds no file. *)
Init ==
  /\ up = TRUE /\ listed = {}
  /\ size = [i \in Items |-> 0] /\ kept = [i \in Items |-> 0]
  /\ last = NoSamples /\ session = 0 /\ lifetime = 0 /\ completed = 0 /\ ticks = 0
  /\ stats = [bytes |-> 0, completed |-> 0]
  /\ received = 0 /\ finished = 0
  /\ pending = [i \in Items |-> 0] /\ seen = 0

-----------------------------------------------------------------------------
(* The transfers.                                                           *)

AddItem(i) ==
  /\ up /\ i \notin listed /\ (i \in DOMAIN last => StartsOver)
  /\ listed' = listed \cup {i}
  /\ size' = [size EXCEPT ![i] = 0] /\ kept' = [kept EXCEPT ![i] = 0]
  /\ UNCHANGED <<up, aggregator, stats, received, finished, pending, seen>>

RemoveItem(i) ==
  /\ up /\ i \in listed
  /\ listed' = listed \ {i}
  /\ pending' = [pending EXCEPT ![i] = 0]
  /\ UNCHANGED <<up, size, kept, aggregator, stats, received, finished, seen>>

Receive(i) ==
  /\ up /\ i \in listed /\ size[i] < Size /\ received < MaxReceived
  /\ size' = [size EXCEPT ![i] = @ + 1]
  /\ received' = received + 1
  /\ pending' = [pending EXCEPT ![i] = @ + 1]
  /\ UNCHANGED <<up, listed, kept, aggregator, stats, finished, seen>>

(* The sidecar, or the resume data, is written. *)
Keep(i) ==
  /\ up /\ i \in listed
  /\ kept' = [kept EXCEPT ![i] = size[i]]
  /\ UNCHANGED <<up, listed, size, aggregator, stats, received, finished, pending, seen>>

(* A clean retry of a download; a torrent removed and added again. *)
StartOver(i) ==
  /\ up /\ StartsOver /\ i \in listed
  /\ size' = [size EXCEPT ![i] = 0] /\ kept' = [kept EXCEPT ![i] = 0]
  /\ UNCHANGED <<up, listed, aggregator, stats, received, finished, pending, seen>>

(* A run of a download begins with what its sidecar says; a torrent has     *)
(* had its counters from its resume data since it was restored.             *)
Continue(i) ==
  /\ up /\ i \in listed \cap Downloads /\ size[i] # kept[i]
  /\ size' = [size EXCEPT ![i] = kept[i]]
  /\ UNCHANGED <<up, listed, kept, aggregator, stats, received, finished, pending, seen>>

(* download_completed, torrent_completed *)
Complete(i) ==
  /\ up /\ i \in listed /\ size[i] = Size /\ finished < MaxReceived
  /\ completed' = completed + 1
  /\ finished' = finished + 1
  /\ UNCHANGED <<up, listed, size, kept, last, session, lifetime, ticks, stats, received, pending, seen>>

-----------------------------------------------------------------------------
(* The statistics.                                                          *)

(* Mutant: what a transfer has when first seen is new. *)
FromZero(i) == IF i \in DOMAIN last THEN last[i] ELSE 0

Prev(i) == IF i \in DOMAIN last THEN last[i] ELSE size[i]

(* record_download_progress, record_torrent_progress *)
Delta(i) == IF size[i] > Prev(i) THEN size[i] - Prev(i) ELSE 0

Samples == [i \in DOMAIN last \cup listed |-> IF i \in listed THEN size[i] ELSE last[i]]

Counted == SumFunctionOnSet([i \in Items |-> Delta(i)], listed)

(* History: of the bytes since the last tick those of a transfer that had   *)
(* been sampled before.                                                     *)
Watched(i) == IF i \in DOMAIN last THEN pending[i] ELSE 0

NextTick == (ticks + 1) % SaveEvery

SaveDue == ticks + 1 = SaveEvery

(* _tick *)
Tick ==
  /\ up
  /\ session' = session + Counted /\ lifetime' = lifetime + Counted
  /\ last' = Samples
  /\ ticks' = NextTick
  /\ IF SaveDue
     THEN stats' = [bytes |-> lifetime', completed |-> completed]
     ELSE UNCHANGED stats
  /\ seen' = seen + SumFunctionOnSet([i \in Items |-> Watched(i)], listed)
  /\ pending' = [i \in Items |-> 0]
  /\ UNCHANGED <<up, listed, size, kept, completed, received, finished>>

(* closeEvent: the timer is stopped, the totals are saved; the downloads    *)
(* and the torrents have been saved before.                                 *)
Close ==
  /\ up /\ "close" \in Restarts
  /\ up' = FALSE
  /\ stats' = [bytes |-> lifetime, completed |-> completed]
  /\ kept' = [i \in Items |-> IF i \in Transfers THEN size[i] ELSE kept[i]]
  /\ pending' = [i \in Items |-> 0]
  /\ UNCHANGED <<listed, size, aggregator, received, finished, seen>>

Kill ==
  /\ up /\ "kill" \in Restarts
  /\ up' = FALSE
  /\ pending' = [i \in Items |-> 0]
  /\ UNCHANGED <<listed, size, kept, aggregator, stats, received, finished, seen>>

(* A new run: StatsStore.load, and the lists restored. *)
Load ==
  /\ ~up
  /\ up' = TRUE
  /\ last' = NoSamples /\ session' = 0 /\ ticks' = 0
  /\ lifetime' = stats.bytes /\ completed' = stats.completed
  /\ size' = [i \in Items |-> IF i \in Transfers THEN kept[i] ELSE 0]
  /\ UNCHANGED <<listed, kept, stats, received, finished, pending, seen>>

-----------------------------------------------------------------------------
Next ==
  \/ \E i \in Items : \/ AddItem(i) \/ RemoveItem(i) \/ Receive(i) \/ Keep(i)
                      \/ StartOver(i) \/ Continue(i) \/ Complete(i)
  \/ Tick \/ Close \/ Kill \/ Load

Spec == Init /\ [][Next]_vars

-----------------------------------------------------------------------------
(* Properties.                                                              *)

(* No byte is counted twice, over restarts, retries and removals: the       *)
(* lifetime total never exceeds what was received (record_download_progress:*)
(* "that history was (or should have been) already counted").               *)
NeverOvercounts == lifetime <= received

(* Nothing is left out either: the total is what arrived between the first  *)
(* and the last sample of each transfer, whatever saves and restarts there  *)
(* were ("Only bytes that arrive after we start watching an id count"),     *)
(* and no completion is forgotten.                                          *)
CountsWhatItSaw == up => lifetime = seen /\ completed = finished
=============================================================================
