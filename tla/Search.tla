------------------------------- MODULE Search -------------------------------
(***************************************************************************)
(* One torrent search (SearchService.search): the enabled providers are    *)
(* asked concurrently, their answers collected in the order of the         *)
(* settings, merged, ranked and cut to the limit of the query.             *)
(***************************************************************************)
EXTENDS Integers, FiniteSets, SequencesExt

CONSTANTS
  Providers,     (* the providers of the settings                           *)
  Pool,          (* threads of the pool                                     *)
  Hashes,        (* infohashes; NoHash is a row that has none we can read   *)
  NoHash,
  Titles,        (* numbered in their alphabetical order                    *)
  Seeders,       (* bound                                                   *)
  Log,           (* what a number of them adds to the score, in hundredths: *)
                 (* 1000 ln(1 + n)                                          *)
  MaxRows,       (* bound: rows of one answer                               *)
  Limit,         (* SearchQuery.limit                                       *)
  Malformed,     (* whether rows may be such that parsing them raises       *)
  BadSettings    (* whether the settings of a provider may be such that it  *)
                 (* cannot be made                                          *)

(* The dictionary of the settings has its names in some order. *)
Order == SetToSeq(Providers)

(* A row of an answer: one _parse_row keeps, one it drops, one it raises on. *)
Good == [ kind : {"good"}, title : Titles, infohash : Hashes \cup {NoHash}, seeders : Seeders,
          magnet : BOOLEAN ]
Row  == Good \cup [ kind : {"untitled"} \cup (IF Malformed THEN {"malformed"} ELSE {}) ]

(* models.SearchResult *)
Result == [ title : Titles, infohash : Hashes \cup {NoHash}, seeders : Seeders, magnet : BOOLEAN,
            sources : Seq(Providers) ]

VARIABLES
  settings,  (* of each provider: "on", "off" or "bad"                      *)
  asked,     (* the filter of the query, or all                             *)
  state,     (* "new", "running", "done" or "failed"                        *)
  future,    (* of each provider asked: "pending", "running", "error" or    *)
             (* "result"                                                    *)
  rows,      (* what it answered                                            *)
  collected, (* how many futures have been asked for their result           *)
  outcome    (* SearchOutcome                                               *)

vars == <<settings, asked, state, future, rows, collected, outcome>>

NoOutcome == [results |-> <<>>, queried |-> {}, errors |-> {}]

TypeOK ==
  /\ settings \in [Providers -> {"on", "off", "bad"}] /\ asked \subseteq Providers
  /\ state \in {"new", "running", "done", "failed"}
  /\ DOMAIN future \subseteq Providers
  /\ \A p \in DOMAIN future : future[p] \in {"pending", "running", "error", "result"}
  /\ Cardinality({p \in DOMAIN future : future[p] = "running"}) <= Pool
  /\ \A p \in Providers : Len(rows[p]) <= MaxRows /\ ToSet(rows[p]) \subseteq Row
  /\ collected \in 0 .. Len(Order)
  /\ outcome.queried \subseteq Providers /\ outcome.errors \subseteq outcome.queried
  /\ \A i \in DOMAIN outcome.results :
       /\ outcome.results[i].infohash \in Hashes \cup {NoHash}
       /\ outcome.results[i].seeders \in Seeders

Init ==
  /\ settings \in [Providers -> {"on", "off"} \cup (IF BadSettings THEN {"bad"} ELSE {})]
  /\ asked \in {Providers} \cup { {p} : p \in Providers }
  /\ state = "new" /\ future = [p \in {} |-> "pending"]
  /\ rows = [p \in Providers |-> <<>>]
  /\ collected = 0 /\ outcome = NoOutcome

-----------------------------------------------------------------------------
(* models and service: merging and ranking.                                 *)

(* SearchResult.identity *)
identity(r) == IF r.infohash # NoHash THEN <<"hash", r.infohash>> ELSE <<"title", r.title>>

(* _parse_row, of a row it keeps *)
Parsed(p, row) == [title |-> row.title, infohash |-> row.infohash, seeders |-> row.seeders,
                   magnet |-> row.magnet, sources |-> <<p>>]

Larger(m, n) == IF m > n THEN m ELSE n

Merge(r, s) ==
  [r EXCEPT !.sources = @ \o s.sources, !.seeders = Larger(@, s.seeders), !.magnet = @ \/ s.magnet]

(* The results so far with r taken in. *)
Absorb(r) == [merged \in Seq(Result) |->
  IF \E i \in DOMAIN merged : identity(merged[i]) = identity(r)
  THEN [i \in DOMAIN merged |->
          IF identity(merged[i]) = identity(r) THEN Merge(merged[i], r) ELSE merged[i]]
  ELSE Append(merged, r)]

dedupe(results) ==
  LET merged[n \in 0 .. Len(results)] ==
        IF n = 0 THEN <<>> ELSE Absorb(results[n])[merged[n - 1]]
  IN merged[Len(results)]

(* In hundredths: recency and size are the same for every row here. *)
score(r) == Log[r.seeders] + 150 * (Cardinality(ToSet(r.sources)) - 1)

(* A better score comes first, then the earlier title, and sorting is       *)
(* stable.                                                                  *)
Before(results, i, j) ==
  \/ score(results[i]) > score(results[j])
  \/ /\ score(results[i]) = score(results[j])
     /\ \/ results[i].title < results[j].title
        \/ results[i].title = results[j].title /\ i < j

(* rank, cut to the limit *)
Ranked[results \in Seq(Result)] ==
  LET place(i) == Cardinality({ j \in DOMAIN results : j = i \/ Before(results, j, i) })
      at(n)    == CHOOSE i \in DOMAIN results : place(i) = n
  IN [n \in 1 .. (IF Len(results) < Limit THEN Len(results) ELSE Limit) |-> results[at(n)]]

-----------------------------------------------------------------------------
Enabled == { p \in Providers : settings[p] = "on" }
Wanted  == Enabled \cap asked

(* enabled_providers raises: it makes every provider that is enabled,       *)
(* before the filter of the query is looked at.                             *)
Misconfigured ==
  /\ state = "new" /\ \E p \in Providers : settings[p] = "bad"
  /\ state' = "failed"
  /\ UNCHANGED <<settings, asked, future, rows, collected, outcome>>

Submit ==
  /\ state = "new" /\ \A p \in Providers : settings[p] # "bad"
  /\ outcome' = [outcome EXCEPT !.queried = Wanted]
  /\ future' = [p \in Wanted |-> "pending"]
  /\ state' = IF Wanted = {} THEN "done" ELSE "running"
  /\ UNCHANGED <<settings, asked, rows, collected>>

Running == { p \in DOMAIN future : future[p] = "running" }

(* A thread of the pool takes the next provider. *)
RunProvider(p) ==
  /\ state = "running" /\ p \in DOMAIN future /\ future[p] = "pending"
  /\ Cardinality(Running) < Pool
  /\ \A i, j \in DOMAIN Order :
       (Order[j] = p /\ i < j /\ Order[i] \in DOMAIN future) => future[Order[i]] # "pending"
  /\ future' = [future EXCEPT ![p] = "running"]
  /\ UNCHANGED <<settings, asked, state, rows, collected, outcome>>

(* It raises: for the request, or for a row that cannot be parsed; ... *)
ProviderFails(p) ==
  /\ p \in Running
  /\ future' = [future EXCEPT ![p] = "error"]
  /\ \/ UNCHANGED rows
     \/ /\ Malformed
        /\ \E answer \in [1 .. MaxRows -> Row] :
             /\ \E i \in DOMAIN answer : answer[i].kind = "malformed"
             /\ rows' = [rows EXCEPT ![p] = answer]
  /\ UNCHANGED <<settings, asked, state, collected, outcome>>

(* ... or returns. *)
ProviderReturns(p) ==
  /\ p \in Running
  /\ future' = [future EXCEPT ![p] = "result"]
  /\ \E n \in 0 .. MaxRows : \E answer \in [1 .. n -> Row] :
       /\ \A i \in 1 .. n : answer[i].kind # "malformed"
       /\ rows' = [rows EXCEPT ![p] = answer]
  /\ UNCHANGED <<settings, asked, state, collected, outcome>>

(* The results of p: row by row, without those that _parse_row drops. *)
Kept(p) ==
  LET kept[n \in 0 .. Len(rows[p])] ==
        IF n = 0 THEN <<>>
        ELSE IF rows[p][n].kind = "good" THEN Append(kept[n - 1], Parsed(p, rows[p][n]))
        ELSE kept[n - 1]
  IN kept[Len(rows[p])]

(* Mutant: the first failure ends the collecting. *)
StopsAtFailure ==
  /\ state = "running" /\ collected < Len(Order)
  /\ LET p == Order[collected + 1] IN
     /\ p \in DOMAIN future => future[p] \in {"error", "result"}
     /\ collected' = IF p \in DOMAIN future /\ future[p] = "error" THEN Len(Order) ELSE collected + 1
     /\ outcome' = IF p \notin DOMAIN future THEN outcome
                   ELSE IF future[p] = "result"
                   THEN [outcome EXCEPT !.results = @ \o Kept(p)]
                   ELSE [outcome EXCEPT !.errors = @ \cup {p}]
  /\ UNCHANGED <<settings, asked, state, future, rows>>

(* future.result(), in the order of the settings *)
Collect ==
  /\ state = "running" /\ collected < Len(Order)
  /\ LET p == Order[collected + 1] IN
     /\ p \in DOMAIN future => future[p] \in {"error", "result"}
     /\ outcome' = IF p \notin DOMAIN future THEN outcome
                   ELSE IF future[p] = "result"
                   THEN [outcome EXCEPT !.results = @ \o Kept(p)]
                   ELSE [outcome EXCEPT !.errors = @ \cup {p}]
  /\ collected' = collected + 1
  /\ UNCHANGED <<settings, asked, state, future, rows>>

Finish ==
  /\ state = "running" /\ collected = Len(Order)
  /\ outcome' = [outcome EXCEPT !.results = Ranked[dedupe(@)]]
  /\ state' = "done"
  /\ UNCHANGED <<settings, asked, future, rows, collected>>

ProviderStep(p) == RunProvider(p) \/ ProviderFails(p) \/ ProviderReturns(p)

Next == Misconfigured \/ Submit \/ (\E p \in Providers : ProviderStep(p)) \/ Collect \/ Finish

Spec == Init /\ [][Next]_vars

(* Requests time out, so that every provider ends. *)
FairSpec == Spec /\ WF_vars(Next)

-----------------------------------------------------------------------------
(* Properties.                                                              *)

Answered == { p \in outcome.queried : future[p] = "result" }
Reports(r) == { rep \in Answered \X (1 .. MaxRows) :
                  LET p == rep[1]  i == rep[2] IN
                  /\ i \in DOMAIN rows[p] /\ rows[p][i].kind = "good"
                  /\ identity(rows[p][i]) = identity(r) }

(* A failure is reported under its own name and under no other.  What the   *)
(* others returned is there, each torrent once, with the seeders of its     *)
(* best report and all its sources, whatever the order they answered in     *)
(* ("a failing provider ... never fails the search").                       *)
MergedExactly ==
  state = "done" =>
    /\ outcome.errors = outcome.queried \ Answered
    /\ \A i, j \in DOMAIN outcome.results :
         i # j => identity(outcome.results[i]) # identity(outcome.results[j])
    /\ \A i \in DOMAIN outcome.results :
         LET r == outcome.results[i] IN
         /\ { n \in 1 .. Len(Order) : \E rep \in Reports(r) : rep[1] = Order[n] }
              = { n \in 1 .. Len(Order) : Order[n] \in ToSet(r.sources) }
         /\ Len(r.sources) = Cardinality(Reports(r))
         /\ \A rep \in Reports(r) : rows[rep[1]][rep[2]].seeders <= r.seeders
         /\ \E rep \in Reports(r) : rows[rep[1]][rep[2]].seeders = r.seeders
         /\ r.magnet <=> \E rep \in Reports(r) : rows[rep[1]][rep[2]].magnet

(* No torrent left out for the limit has a better score than one that is    *)
(* listed, and none is left out below the limit.                            *)
BestFirst ==
  state = "done" =>
    LET rs == outcome.results
        listed == { identity(rs[i]) : i \in DOMAIN rs }
    IN \A p \in Answered : \A k \in DOMAIN rows[p] :
         (rows[p][k].kind = "good" /\ identity(rows[p][k]) \notin listed) =>
           /\ Len(rs) = Limit
           /\ \A i \in DOMAIN rs : score(rs[i]) >= Log[rows[p][k].seeders]

(* The search comes to its end. *)
SearchEnds == <>(state \in {"done", "failed"})

(* "one dead provider never fails the whole search"                         *)
NeverFails == state # "failed"

(* "Malformed rows cost the row, not the search": what else the provider    *)
(* sent is in the results.                                                  *)
RowCostsRow ==
  state = "done" =>
    \A p \in outcome.queried : \A k \in DOMAIN rows[p] :
      rows[p][k].kind = "good" =>
        \E i \in DOMAIN outcome.results : identity(outcome.results[i]) = identity(rows[p][k])

(* "Results are deduplicated by infohash": rows of one result had one.      *)
MergedByHash ==
  state = "done" =>
    \A i \in DOMAIN outcome.results :
      outcome.results[i].infohash = NoHash => Len(outcome.results[i].sources) = 1
=============================================================================
