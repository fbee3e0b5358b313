----------------------------- MODULE SpeedLimiter -----------------------------
(***************************************************************************)
(* core/speed_limiter.py: the token bucket shared by the chunk workers of  *)
(* one download.  Its rate is set once, when the download is made; without *)
(* a limit acquire is a no-op and there is nothing to model.  Tokens and   *)
(* time are integers; a sleep that would end between two ticks ends at the *)
(* later one (a sleep may always last longer).                             *)
(***************************************************************************)
EXTENDS Integers

CONSTANTS
  Workers,
  Rate,        (* tokens per tick: bytes_per_second                         *)
  Capacity,    (* what the bucket takes: a quarter second, or 8 KB          *)
  Requests,    (* bound: sizes of the chunks that are acquired              *)
  LongSleep,   (* half a second in ticks: no sleep is longer                *)
  MaxElapsed   (* bound: ticks without a look at the bucket                 *)

ASSUME RateAssumption     == Rate \in Nat \ {0} /\ Capacity \in Nat \ {0}
ASSUME RequestsAssumption == Requests \subseteq Nat \ {0}
ASSUME TicksAssumption    == LongSleep \in Nat \ {0} /\ MaxElapsed \in Nat

VARIABLES
  tokens,
  elapsed,   (* ticks since last_refill                                     *)
  request,   (* of each worker: the num_bytes it acquires, 0 outside        *)
  sleep,     (* of each worker: ticks it still sleeps                       *)
  backlog    (* history: a leaky bucket that everything granted goes into   *)
             (* and that Rate leaves with every tick                        *)

vars == <<tokens, elapsed, request, sleep, backlog>>

TypeOK ==
  /\ tokens \in Nat /\ elapsed \in 0 .. MaxElapsed
  /\ request \in [Workers -> Requests \cup {0}]
  /\ sleep \in [Workers -> 0 .. LongSleep]
  /\ backlog \in Nat

-----------------------------------------------------------------------------
Lesser(a, b)  == IF a < b THEN a ELSE b
Greater(a, b) == IF a > b THEN a ELSE b

(* Mutant: a request larger than the bucket can never be met. *)
CapacityOnly(n) == Capacity

ceiling(n) == Greater(Capacity, n)

Refilled(n) == Lesser(ceiling(n), tokens + elapsed * Rate)

(* Mutant: time that has passed is counted again by the next request. *)
CountedOnce == elapsed

SinceRefill == 0

Init ==
  /\ tokens = Capacity /\ elapsed = 0
  /\ request = [w \in Workers |-> 0] /\ sleep = [w \in Workers |-> 0]
  /\ backlog = 0

Acquire(w, n) ==
  /\ request[w] = 0
  /\ request' = [request EXCEPT ![w] = n]
  /\ UNCHANGED <<tokens, elapsed, sleep, backlog>>

(* One turn of the loop, under the lock: refill, then take the tokens ...   *)
Grant(w) ==
  /\ request[w] > 0 /\ sleep[w] = 0
  /\ Refilled(request[w]) >= request[w]
  /\ tokens' = Refilled(request[w]) - request[w]
  /\ elapsed' = SinceRefill
  /\ request' = [request EXCEPT ![w] = 0]
  /\ backlog' = backlog + request[w]
  /\ UNCHANGED sleep

SleepTime(deficit) == Lesser((deficit + Rate - 1) \div Rate, LongSleep)

(* ... or sleep until they should be there, half a second at most.          *)
Sleep(w) ==
  /\ request[w] > 0 /\ sleep[w] = 0
  /\ Refilled(request[w]) < request[w]
  /\ tokens' = Refilled(request[w])
  /\ elapsed' = SinceRefill
  /\ sleep' = [sleep EXCEPT ![w] = SleepTime(request[w] - Refilled(request[w]))]
  /\ UNCHANGED <<request, backlog>>

Tick ==
  /\ elapsed < MaxElapsed
  /\ elapsed' = elapsed + 1
  /\ sleep' = [w \in Workers |-> Greater(0, sleep[w] - 1)]
  /\ backlog' = Greater(0, backlog - Rate)
  /\ UNCHANGED <<tokens, request>>

-----------------------------------------------------------------------------
Look(w) == Grant(w) \/ Sleep(w)

Next ==
  \/ \E w \in Workers : Look(w) \/ \E n \in Requests : Acquire(w, n)
  \/ Tick

Spec == Init /\ [][Next]_vars

(* A thread that has slept enough gets the lock, and time passes; nobody    *)
(* has to acquire anything.                                                 *)
FairSpec == Spec /\ WF_vars(Tick) /\ \A w \in Workers : WF_vars(Look(w))

-----------------------------------------------------------------------------
(* Properties.                                                              *)

(* "consumption stays under the rate": over any stretch of time, all the    *)
(* workers together are granted no more than Rate times its length and one  *)
(* burst, the capacity or the largest single request (module docstring,     *)
(* set_limit, acquire).                                                     *)
RateKept == backlog <= Capacity \/ \E n \in Requests : backlog <= n

(* "a single request larger than the burst capacity must still be           *)
(* satisfiable, otherwise tokens could never reach it and this would spin   *)
(* forever": while somebody waits, somebody is granted, whatever the others *)
(* do to the bucket.                                                        *)
Waiting   == \E w \in Workers : request[w] > 0
SomeGrant == \E w \in Workers : request[w] > 0 /\ request'[w] = 0
GoesOn    == []<>(~Waiting) \/ []<><<SomeGrant>>_vars
=============================================================================
