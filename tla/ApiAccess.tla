------------------------------- MODULE ApiAccess -------------------------------
(***************************************************************************)
(* How the API comes up and who may use it: the search for a port          *)
(* (start_api_server_with_fallback, ApiServerRunner), the key (ApiKeyStore *)
(* of api/auth.py) and the dialog that shows both.  The key is read by two *)
(* threads without a lock: the GUI, for the dialog, and the server's event *)
(* loop, for each request.                                                 *)
(***************************************************************************)
EXTENDS Integers, FiniteSets

CONSTANTS
  MaxAttempts,  (* max_attempts                                             *)
  Keys,         (* bound: the keys there are; each is generated once        *)
  None,
  Slow,         (* bound: a server may take longer to start than the GUI    *)
                (* waits                                                    *)
  Overlap,      (* bound: a request may overlap what the GUI does           *)
  MaxRuns       (* bound: starts of the application                         *)

ASSUME AttemptsAssumption == MaxAttempts \in Nat \ {0} /\ MaxRuns \in Nat \ {0}
ASSUME KeysAssumption     == Keys \cap {None, "no", "load"} = {}
ASSUME SwitchesAssumption == Slow \in BOOLEAN /\ Overlap \in BOOLEAN

VARIABLES
  runs,
  attempt,     (* of this start; the port is preferred_port + attempt        *)
  runner,      (* of each attempt: "none", "starting", "listening", "failed" *)
  api_server,  (* the attempt whose runner was returned, or None             *)
  taken,       (* ports of other programs                                    *)
  key_file,    (* a key, or None: absent or empty                            *)
  key,         (* ApiKeyStore._key                                           *)
  reading,     (* of each thread inside the property key: "no", "load" when  *)
               (* it has found _key None, or the key it has and will store   *)
  used,        (* the keys generated so far                                  *)
  shown        (* what the dialog last showed, None after a regeneration     *)

starting == <<attempt, runner, api_server>>
vars     == <<runs, starting, taken, key_file, key, reading, used, shown>>

Threads  == {"gui", "loop"}
Attempts == 0 .. MaxAttempts - 1

TypeOK ==
  /\ runs \in 0 .. MaxRuns /\ attempt \in 0 .. MaxAttempts
  /\ runner \in [Attempts -> {"none", "starting", "listening", "failed"}]
  /\ api_server \in Attempts \cup {None} /\ taken \subseteq Attempts
  /\ used \subseteq Keys /\ key_file \in used \cup {None} /\ key \in used \cup {None}
  /\ reading \in [Threads -> used \cup {"no", "load"}]
  /\ shown \in used \cup {None}

Waiting == attempt < MaxAttempts /\ api_server = None
Up      == api_server # None

-----------------------------------------------------------------------------
NoRunners == [a \in Attempts |-> "none"]

Init ==
  /\ runs = 0 /\ attempt = MaxAttempts /\ runner = NoRunners /\ api_server = None
  /\ taken \in SUBSET Attempts
  /\ used \in { U \in SUBSET Keys : Cardinality(U) <= 1 }
  /\ key_file \in (IF used = {} THEN {None} ELSE used) /\ key = None
  /\ reading = [t \in Threads |-> "no"] /\ shown = None

(* A start of the application, after the last one has ended: the first      *)
(* attempt.                                                                 *)
StartUp ==
  /\ runs < MaxRuns /\ runs' = runs + 1
  /\ ~Waiting /\ reading = [t \in Threads |-> "no"]
  /\ attempt' = 0 /\ runner' = [NoRunners EXCEPT ![0] = "starting"] /\ api_server' = None
  /\ key' = None
  /\ UNCHANGED <<taken, key_file, reading, used, shown>>

(* The server's thread: uvicorn binds its port or ends. *)
Bind(a) ==
  /\ runner[a] = "starting"
  /\ runner' = [runner EXCEPT ![a] = IF a \in taken THEN "failed" ELSE "listening"]
  /\ UNCHANGED <<runs, attempt, api_server, taken, key_file, key, reading, used, shown>>

(* Another program takes or leaves a port. *)
Others(a) ==
  /\ Waiting /\ runner[a] # "listening"
  /\ taken' = IF a \in taken THEN taken \ {a} ELSE taken \cup {a}
  /\ UNCHANGED <<runs, starting, key_file, key, reading, used, shown>>

(* start: the GUI thread polls until the server has started, ...            *)
Started ==
  /\ Waiting /\ runner[attempt] = "listening"
  /\ api_server' = attempt
  /\ UNCHANGED <<runs, attempt, runner, taken, key_file, key, reading, used, shown>>

NextPort == attempt + 1

Fallback ==
  /\ attempt' = NextPort
  /\ IF attempt' < MaxAttempts
     THEN runner' = [runner EXCEPT ![attempt'] = "starting"]
     ELSE UNCHANGED runner
  /\ UNCHANGED <<runs, api_server, taken, key_file, key, reading, used, shown>>

(* ... has failed, ...                                                      *)
Failed == Waiting /\ runner[attempt] = "failed" /\ Fallback

(* ... or five seconds are over; the runner is left to itself.              *)
TimesOut == Slow /\ Waiting /\ runner[attempt] = "starting" /\ Fallback

-----------------------------------------------------------------------------
(* The property key.                                                        *)

Enters(t) ==
  /\ Up /\ reading[t] = "no"
  /\ t = "loop" => Overlap \/ reading["gui"] = "no"
  /\ t = "gui"  => Overlap \/ reading["loop"] = "no"

(* The key is there: the dialog shows it, the loop compares with it.        *)
Has(t) ==
  /\ Enters(t) /\ key # None
  /\ IF t = "gui" THEN shown' = key /\ shown # key ELSE UNCHANGED shown
  /\ UNCHANGED <<runs, starting, taken, key_file, key, reading, used>>

Misses(t) ==
  /\ Enters(t) /\ key = None
  /\ reading' = [reading EXCEPT ![t] = "load"]
  /\ UNCHANGED <<runs, starting, taken, key_file, key, used, shown>>

(* Mutant: a new key is not written. *)
NotWritten(k) == key_file

FileWith(k) == k

(* _load_or_create: an absent or empty file gets a new key.                 *)
LoadOrCreate(t) ==
  /\ reading[t] = "load"
  /\ IF key_file # None
     THEN reading' = [reading EXCEPT ![t] = key_file] /\ UNCHANGED <<key_file, used>>
     ELSE \E k \in Keys \ used :
            /\ used' = used \cup {k} /\ key_file' = FileWith(k)
            /\ reading' = [reading EXCEPT ![t] = k]
  /\ UNCHANGED <<runs, starting, taken, key, shown>>

Stores(t) ==
  /\ reading[t] \in used
  /\ key' = reading[t] /\ reading' = [reading EXCEPT ![t] = "no"]
  /\ shown' = IF t = "gui" THEN reading[t] ELSE shown
  /\ UNCHANGED <<runs, starting, taken, key_file, used>>

(* The dialog's button: what it showed is void.                             *)
Regenerate ==
  /\ Up /\ shown # None /\ reading["gui"] = "no" /\ (Overlap \/ reading["loop"] = "no")
  /\ \E k \in Keys \ used : used' = used \cup {k} /\ key_file' = k /\ key' = k
  /\ shown' = None
  /\ UNCHANGED <<runs, starting, taken, reading>>

-----------------------------------------------------------------------------
Starting == Started \/ Failed \/ TimesOut

Next ==
  \/ StartUp \/ Starting \/ Regenerate
  \/ \E a \in Attempts : Bind(a) \/ Others(a)
  \/ \E t \in Threads : Has(t) \/ Misses(t) \/ LoadOrCreate(t) \/ Stores(t)

Spec == Init /\ [][Next]_vars

(* Threads run: a server binds or fails, and the GUI polls.                 *)
FairSpec == Spec /\ WF_vars(Starting) /\ \A a \in Attempts : WF_vars(Bind(a))

-----------------------------------------------------------------------------
(* Properties.                                                              *)

(* What the API Access dialog shows is what works, until the user has it    *)
(* regenerated and across restarts: the key of the file and of the memory   *)
(* are the one shown, and a server listens where the address points         *)
(* (ApiInfoDialog: "Both require the API key below").                       *)
ShownWorks ==
  /\ shown # None => key_file = shown /\ key \in {shown, None}
  /\ Up => runner[api_server] = "listening"

(* The application does come up, with a server or without.                  *)
StartEnds == Waiting ~> ~Waiting

(* "only searches for a free port if that one's taken"                      *)
(* (start_api_server_with_fallback).                                        *)
FallbackOnlyWhenTaken == [][
  attempt' = attempt + 1 => runner[attempt] = "failed"]_vars
=============================================================================
