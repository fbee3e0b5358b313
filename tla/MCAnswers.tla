----------------------------- MODULE MCAnswers -----------------------------
(* Whoever asks gets an answer: a start of the API server and its key       *)
(* (ApiAccess), requests to the servers while the window closes             *)
(* (ApiServer), a search across the providers (Search) and the search tab   *)
(* (SearchPanel). A behaviour is about one subject, the others stay as they *)
(* are.                                                                     *)
EXTENDS ApiAccess, Sequences

CONSTANTS Subjects, Requests, Path, NoPath, TheTorrent,
          Providers, Pool, NoHash, Hashes, Titles, Seeders, Log, MaxRows, Limit, Malformed, BadSettings,
          Searches, Results, MaxResults

ASSUME ResultsAssumption == MaxResults \in Nat \ {0}

(* 1000 ln(1 + n), for the seeders of the run *)
LogOfSeeders == [n \in Seeders |-> <<0, 693, 1099, 1386>>[n + 1]]

ASSUME SearchAssumption ==
  /\ IsFiniteSet(Providers) /\ Titles \subseteq Nat /\ Seeders \subseteq Nat
  /\ {Pool, MaxRows, Limit} \subseteq Nat \ {0}
  /\ Log \in [Seeders -> Nat] /\ \A k, n \in Seeders : k <= n => Log[k] <= Log[n]
  /\ Malformed \in BOOLEAN /\ BadSettings \in BOOLEAN

VARIABLES subject,
  phase, call, via, answer, server, loop, queue, timer, draining, settling, window,
  downloads, torrents, plain, resumable, savedDownloads, savedTorrents, ran,
  settings, asked, state, future, found, collected, outcome,
  enabled, running, posted, finished, refs, results, rows, menu, pointed, added

serverVars == <<phase, call, via, answer, server, loop, queue, timer, draining, settling,
                window, downloads, torrents, plain, resumable, savedDownloads,
                savedTorrents, ran>>

searchVars == <<settings, asked, state, future, found, collected, outcome>>

panelVars == <<enabled, running, posted, finished, refs, results, rows, menu, pointed, added>>

allVars == <<vars, serverVars, searchVars, panelVars, subject>>

Server == INSTANCE ApiServer
  WITH Threads <- 1, Paths <- {Path}, DefaultPath <- Path, Torrents <- {TheTorrent},
       Offered <- { "add_torrent", "get_torrent", "force_recheck", "select_files" },
       Clients <- { "rest", "mcp" }, Closing <- TRUE, Settling <- TRUE

Find == INSTANCE Search WITH rows <- found

Menu == INSTANCE SearchPanel WITH MaxResults <- 1, SearchInMenu <- TRUE
Rows == INSTANCE SearchPanel WITH SearchInMenu <- FALSE

AnswersInit ==
  /\ subject \in Subjects
  /\ Init /\ Server!Init /\ Menu!Init /\ Find!Init
  /\ subject # "access" => taken = {} /\ used = {}
  /\ subject # "server" => plain = {}
  /\ subject # "search" =>
       asked = Providers /\ \A p \in Providers : settings[p] = "on"

About(s, others) == subject = s /\ UNCHANGED <<others, subject>>

Access == About("access", <<serverVars, searchVars, panelVars>>)
Api    == About("server", <<vars, searchVars, panelVars>>)
Search == About("search", <<vars, serverVars, panelVars>>)
Panel(s)  == About(s, <<vars, serverVars, searchVars>>)

AnswersNext == \/ Access /\ Next
               \/ Api /\ Server!Next
               \/ Search /\ Find!Next
               \/ Panel("menu") /\ Menu!Next
               \/ Panel("rows") /\ Rows!Next

AnswersSpec == AnswersInit /\ [][AnswersNext]_allVars

(* The fairness of each module: the steps named there must go on. Only the  *)
(* steps of its subject can be taken, so those of different subjects share  *)
(* a condition.                                                             *)
Goes == \/ Access /\ Starting
        \/ Search /\ Find!Next
        \/ Panel("menu") /\ Menu!CloseMenu

GoesOn(n) == \/ Access /\ n \in Attempts /\ Bind(n)
             \/ Api /\ n \in Requests /\ Server!ServerStep(n)
             \/ Panel("menu") /\ ((n \in Searches /\ Menu!WorkerRuns(n)) \/ (n = 0 /\ Menu!Handle))

AnswersFairSpec ==
  AnswersSpec /\ WF_allVars(Goes) /\ \A n \in 0 .. 2 : WF_allVars(GoesOn(n))
-----------------------------------------------------------------------------
EveryRequestEnds == Server!EveryRequestEnds

(* What the providers gave is merged exactly, and a limit cuts the lowest.  *)
ResultsRight == subject = "search" =>
  Find!TypeOK /\ Find!MergedExactly /\ Find!BestFirst

(* A click adds the result the row shows, and the worker of a search that   *)
(* runs is kept.                                                            *)
RowsRight == subject = "rows" =>
  Rows!TypeOK /\ Rows!AddsWhatWasShown /\ Rows!WorkersKept

(* A start of the server ends, a search ends, and the button comes back.    *)
AskedEnds == /\ StartEnds
             /\ subject = "search" ~> state \in { "done", "failed" }
             /\ subject = "menu" ~> enabled
=============================================================================
