------------------------------ MODULE ApiServer ------------------------------
(***************************************************************************)
(* The REST and MCP server, the bridge that carries its calls to the GUI   *)
(* thread, and what the application controller does there to the two       *)
(* lists.  A REST request runs on a thread of the server's pool, an MCP    *)
(* tool on the server's event loop itself; both wait for the GUI thread.   *)
(* The GUI thread may be busy for any length of time: nothing is assumed   *)
(* of it.                                                                  *)
(***************************************************************************)
EXTENDS Integers, FiniteSets, Sequences

CONSTANTS
  Requests,    (* bound: each is one request; the id of what it adds        *)
  Threads,     (* size of the server's thread pool                          *)
  Paths,       (* destinations of downloads; NoPath in a request is none    *)
  NoPath, DefaultPath,
  Torrents,    (* info-hashes                                               *)
  Offered,     (* bound: the operations requests ask for                    *)
  Clients,     (* bound: "rest", "mcp" or both                              *)
  Closing,     (* bound: whether the window may be closed                   *)
  Settling,    (* whether libtorrent reports a new torrent as paused first  *)
  None

ASSUME ThreadsAssumption == Threads \in Nat \ {0}
ASSUME PathsAssumption == DefaultPath \in Paths /\ NoPath \notin Paths

(* models.Status *)
Terminal == { "COMPLETED", "ERROR", "STOPPED" }
Status   == { "PENDING", "STARTING", "DOWNLOADING", "VERIFYING", "PAUSED" } \cup Terminal

Download == [ path : Paths, status : Status ]
Torrent  == [ paused : BOOLEAN, auto_managed : BOOLEAN, finished : BOOLEAN, keep_seeding : BOOLEAN ]

DownloadOps == { "pause", "resume", "stop", "retry", "remove", "get" }
TorrentOps  == { "pause_torrent", "resume_torrent", "start_now", "remove_torrent",
                 "force_recheck", "select_files", "update_torrent", "get_torrent" }

(* What a request asks for, and of what. *)
Call ==
  [op : Offered \cap {"add"},                     on : Paths \cup {NoPath}, overwrite : BOOLEAN]
  \cup [op : Offered \cap {"list", "list_torrents"}, on : {None},   overwrite : {FALSE}]
  \cup [op : Offered \cap DownloadOps,               on : Requests, overwrite : {FALSE}]
  \cup [op : Offered \cap (TorrentOps \cup {"add_torrent"}), on : Torrents, overwrite : {FALSE}]

Answers == { "ok", "refused", "failed" }
Ended   == Answers \cup { "timeout", "dropped" }
Phase   == { "new", "sent", "waiting", "executed" } \cup Ended

VARIABLES
  phase, call, via, answer,   (* of each request                            *)
  server,                     (* "up", "stopping" or "down"                 *)
  loop,                       (* the MCP call that runs on the event loop   *)
  queue,                      (* GuiBridge._queue                           *)
  timer,                      (* GuiBridge._timer is active                 *)
  draining, settling,         (* _drain runs; add_torrent pumps events in   *)
                              (* it                                         *)
  window,                     (* "open", "joining", "closed" or "gone"      *)
  downloads, torrents,        (* the two lists                              *)
  plain, resumable,           (* files on disk: without, with a .progress   *)
  savedDownloads, savedTorrents,
  ran                         (* history: requests whose call was executed  *)

requests == <<phase, call, via, answer>>
bridge   == <<queue, timer, draining, settling>>
lists    == <<downloads, torrents, plain, resumable, savedDownloads, savedTorrents>>
vars     == <<requests, server, loop, bridge, window, lists, ran>>

TypeOK ==
  /\ phase \in [Requests -> Phase] /\ via \in [Requests -> {"rest", "mcp"}]
  /\ \A r \in Requests : phase[r] # "new" => call[r] \in Call
  /\ answer \in [Requests -> Answers]
  /\ server \in {"up", "stopping", "down"}
  /\ loop \in SUBSET Requests /\ Cardinality(loop) <= 1
  /\ queue \in Seq(Requests) /\ timer \in BOOLEAN
  /\ draining \in BOOLEAN /\ settling \in SUBSET Requests
  /\ window \in {"open", "joining", "closed", "gone"}
  /\ DOMAIN downloads \subseteq Requests /\ \A d \in DOMAIN downloads : downloads[d] \in Download
  /\ DOMAIN torrents \subseteq Torrents /\ \A t \in DOMAIN torrents : torrents[t] \in Torrent
  /\ plain \subseteq Paths /\ resumable \subseteq Paths /\ plain \cap resumable = {}
  /\ savedDownloads \subseteq Requests /\ savedTorrents \subseteq Torrents
  /\ ran \subseteq Requests

Empty == [x \in {} |-> x]

Init ==
  /\ phase = [r \in Requests |-> "new"] /\ via = [r \in Requests |-> "rest"]
  /\ call = [r \in Requests |-> None] /\ answer = [r \in Requests |-> "ok"]
  /\ server = "up" /\ loop = {}
  /\ queue = <<>> /\ timer = TRUE /\ draining = FALSE /\ settling = {}
  /\ window = "open"
  /\ downloads = Empty /\ torrents = Empty
  /\ plain \in SUBSET Paths /\ resumable = {}
  /\ savedDownloads = {} /\ savedTorrents = {}
  /\ ran = {}

With(f, x, v) == [y \in DOMAIN f \cup {x} |-> IF y = x THEN v ELSE f[y]]
Without(f, x) == [y \in DOMAIN f \ {x} |-> f[y]]

-----------------------------------------------------------------------------
(* The server's side.                                                       *)

(* A client's request reaches the server and passes the key check. *)
Send(r, c, v) ==
  /\ phase[r] = "new" /\ server = "up" /\ window # "gone"
  /\ phase' = [phase EXCEPT ![r] = "sent"]
  /\ call' = [call EXCEPT ![r] = c] /\ via' = [via EXCEPT ![r] = v]
  /\ UNCHANGED <<answer, server, loop, bridge, window, lists, ran>>

Busy == { r \in Requests : phase[r] \in {"waiting", "executed"} /\ via[r] = "rest" }

(* GuiBridge.call: the call is queued, the thread waits. *)
Posts(r) ==
  /\ phase' = [phase EXCEPT ![r] = "waiting"]
  /\ queue' = Append(queue, r)
  /\ UNCHANGED <<call, via, answer, server, timer, draining, settling, window, lists, ran>>

(* A route: the loop hands it to a thread of the pool. *)
RunRoute(r) ==
  /\ phase[r] = "sent" /\ via[r] = "rest" /\ loop = {} /\ server = "up" /\ window # "gone"
  /\ Cardinality(Busy) < Threads
  /\ loop' = loop
  /\ Posts(r)

(* A tool: it runs on the loop, which does nothing else until it returns. *)
RunTool(r) ==
  /\ phase[r] = "sent" /\ via[r] = "mcp" /\ loop = {} /\ server = "up" /\ window # "gone"
  /\ loop' = {r}
  /\ Posts(r)

Ends(r, how) ==
  /\ phase' = [phase EXCEPT ![r] = how]
  /\ loop' = loop \ {r}
  /\ UNCHANGED <<call, via, answer, server, bridge, window, lists, ran>>

(* done_event is set: the answer goes out over the loop. *)
Delivers(r) ==
  /\ phase[r] = "executed" /\ loop \subseteq {r} /\ window # "gone"
  /\ Ends(r, answer[r])

(* Mutant: done_event.wait() has no timeout. *)
NeverTimesOut(r) == FALSE /\ Ends(r, "timeout")

(* done_event.wait times out. *)
TimesOut(r) ==
  /\ phase[r] = "waiting" /\ window # "gone"
  /\ Ends(r, "timeout")

(* A server that stops runs nothing new; with the process goes all of it. *)
Drops(r) ==
  /\ \/ phase[r] = "sent" /\ server # "up"
     \/ phase[r] \in {"sent", "waiting", "executed"} /\ window = "gone"
  /\ Ends(r, "dropped")

ServerExits ==
  /\ server = "stopping" /\ window # "gone"
  /\ \A r \in Requests : phase[r] \notin {"waiting", "executed"}
  /\ server' = "down"
  /\ UNCHANGED <<requests, loop, bridge, window, lists, ran>>

-----------------------------------------------------------------------------
(* The controller, on the GUI thread.  An implementation says whether it    *)
(* accepts the call and what it does then; it changes nothing otherwise.    *)

IsActive(d) == downloads[d].status \notin Terminal
PathConflict(p, except) == \E d \in DOMAIN downloads \ except : IsActive(d) /\ downloads[d].path = p

(* Mutant: a finished download may be resumed. *)
ResumesFinished(s) == s \in Terminal \cup {"PAUSED"}

Pausable(s)  == s \in {"DOWNLOADING", "STARTING"}
Resumable(s) == s = "PAUSED"
Stoppable(s) == s \in {"DOWNLOADING", "PAUSED", "STARTING", "VERIFYING"}

PathOf(c) == IF c.on = NoPath THEN DefaultPath ELSE c.on

AcceptsDownload(c) ==
  /\ c.on \in DOMAIN downloads
  /\ c.op = "pause"  => Pausable(downloads[c.on].status)
  /\ c.op = "resume" => Resumable(downloads[c.on].status)
  /\ c.op = "stop"   => Stoppable(downloads[c.on].status)
  /\ c.op = "retry" /\ ~IsActive(c.on) => ~PathConflict(downloads[c.on].path, {c.on})

is_queued(h) == h.paused /\ ~h.finished /\ h.auto_managed

AcceptsTorrent(c) ==
  /\ c.on \in DOMAIN torrents
  /\ c.op = "start_now" => is_queued(torrents[c.on])

Accepts(c) ==
  \/ c.op \in { "list", "list_torrents", "add_torrent" }
  \/ c.op = "add" /\ (c.overwrite \/ PathOf(c) \notin plain) /\ ~PathConflict(PathOf(c), {})
  \/ c.op \in DownloadOps /\ AcceptsDownload(c)
  \/ c.op \in TorrentOps /\ AcceptsTorrent(c)

(* The download list after an accepted call of r (each saves it). *)
StatusAfter(c) ==
  LET s == downloads[c.on].status IN
  CASE c.op = "pause"  -> "PAUSED"
    [] c.op = "resume" -> "PENDING"
    [] c.op = "stop"   -> "STOPPED"
    [] c.op = "retry"  -> IF s \in Terminal THEN "PENDING" ELSE s
    [] OTHER -> s

DownloadsAfter(r, c) ==
  CASE c.op = "add"    -> With(downloads, r, [path |-> PathOf(c), status |-> "PENDING"])
    [] c.op = "remove" -> Without(downloads, c.on)
    [] c.op \in DownloadOps \ {"remove"} -> [downloads EXCEPT ![c.on].status = StatusAfter(c)]
    [] OTHER -> downloads

(* The torrent after an accepted call; keep is what an update sets. *)
TorrentAfter(c, keep) ==
  LET h == torrents[c.on] IN
  CASE c.op = "pause_torrent"  -> [h EXCEPT !.auto_managed = FALSE, !.paused = TRUE]
    [] c.op = "resume_torrent" -> [h EXCEPT !.auto_managed = TRUE, !.paused = FALSE,
                                            !.keep_seeding = @ \/ h.finished]
    [] c.op = "start_now"      -> [h EXCEPT !.auto_managed = FALSE, !.paused = FALSE]
    [] c.op = "force_recheck"  -> [h EXCEPT !.auto_managed = @ \/ h.paused, !.paused = FALSE]
    [] c.op = "select_files"   -> [h EXCEPT !.finished = keep]
    [] c.op = "update_torrent" -> [h EXCEPT !.keep_seeding = keep]
    [] OTHER -> h

NewTorrent == [paused |-> Settling, auto_managed |-> TRUE, finished |-> FALSE, keep_seeding |-> FALSE]

TorrentsAfter(c, keep) ==
  CASE c.op = "add_torrent"    -> IF c.on \in DOMAIN torrents THEN torrents
                                  ELSE With(torrents, c.on, NewTorrent)
    [] c.op = "remove_torrent" -> Without(torrents, c.on)
    [] c.op \in TorrentOps \ {"remove_torrent"} -> [torrents EXCEPT ![c.on] = TorrentAfter(c, keep)]
    [] OTHER -> torrents

-----------------------------------------------------------------------------
(* The GUI thread.                                                          *)

(* The timer fires: _drain runs until the queue is empty. *)
Tick ==
  /\ timer /\ ~draining /\ window \in {"open", "closed"} /\ queue # <<>>
  /\ draining' = TRUE
  /\ UNCHANGED <<requests, server, loop, queue, timer, settling, window, lists, ran>>

(* It sets the event of the call, whether anybody still waits or not. *)
Answered(r, a) ==
  /\ answer' = [answer EXCEPT ![r] = a]
  /\ phase' = IF phase[r] = "waiting" THEN [phase EXCEPT ![r] = "executed"] ELSE phase
  /\ ran' = ran \cup {r}

Draining == draining /\ settling = {} /\ window \in {"open", "closed"} /\ queue # <<>>

(* _drain: the next call is refused with an ApiError, ... *)
Refuse ==
  /\ Draining /\ ~Accepts(call[Head(queue)])
  /\ queue' = Tail(queue)
  /\ Answered(Head(queue), "refused")
  /\ UNCHANGED <<call, via, server, loop, timer, draining, settling, window, lists>>

(* ... or executed.  A torrent just added that libtorrent still reports as  *)
(* paused has add_torrent pump events before it answers.                    *)
Execute ==
  /\ Draining /\ Accepts(call[Head(queue)])
  /\ LET r == Head(queue)
         c == call[r] IN
     /\ queue' = Tail(queue)
     /\ downloads' = DownloadsAfter(r, c)
     /\ savedDownloads' = IF c.op \in {"add", "pause", "resume", "stop", "retry", "remove"}
                          THEN DOMAIN downloads' ELSE savedDownloads
     /\ \E keep \in BOOLEAN : torrents' = TorrentsAfter(c, keep)
     /\ savedTorrents' = IF c.op = "update_torrent" THEN DOMAIN torrents' ELSE savedTorrents
     /\ resumable' = IF c.op = "stop" THEN resumable \ {downloads[c.on].path}
                     ELSE resumable
     /\ plain' = plain \cup (resumable \ resumable')
     /\ IF c.op = "add_torrent" /\ torrents'[c.on].paused
        THEN settling' = {r} /\ UNCHANGED <<answer, phase, ran>>
        ELSE settling' = {} /\ Answered(r, "ok")
  /\ UNCHANGED <<call, via, server, loop, timer, draining, window>>

(* _settle_after_add ends, by its deadline at the latest; a torrent that    *)
(* was removed meanwhile cannot be described (KeyError).                    *)
Settled(r) ==
  /\ r \in settling /\ window \in {"open", "closed"}
  /\ settling' = {}
  /\ Answered(r, IF call[r].on \in DOMAIN torrents THEN "ok" ELSE "failed")
  /\ UNCHANGED <<call, via, server, loop, queue, timer, draining, window, lists>>

Drained ==
  /\ draining /\ settling = {} /\ window \in {"open", "closed"} /\ queue = <<>>
  /\ draining' = FALSE
  /\ UNCHANGED <<requests, server, loop, queue, timer, settling, window, lists, ran>>

(* The event loop handles events: at rest, or pumped by add_torrent. *)
HandlingEvents == window = "open" /\ (draining => settling # {})

(* Downloads and torrents move on their own. *)
Progress(d, s) ==
  /\ HandlingEvents /\ d \in DOMAIN downloads
  /\ \/ downloads[d].status = "PENDING" /\ s = "STARTING"
     \/ downloads[d].status = "STARTING" /\ s \in {"DOWNLOADING", "ERROR"}
     \/ downloads[d].status = "DOWNLOADING" /\ s \in {"VERIFYING", "ERROR"}
     \/ downloads[d].status = "VERIFYING" /\ s \in {"COMPLETED", "ERROR"}
  /\ downloads' = [downloads EXCEPT ![d].status = s]
  /\ LET p == downloads[d].path IN
     /\ resumable' = IF s = "DOWNLOADING" THEN resumable \cup {p}
                     ELSE IF s = "COMPLETED" THEN resumable \ {p} ELSE resumable
     /\ plain' = IF s = "DOWNLOADING" THEN plain \ {p}
                 ELSE IF s = "COMPLETED" THEN plain \cup {p} ELSE plain
  /\ savedDownloads' = IF s \in Terminal THEN DOMAIN downloads ELSE savedDownloads
  /\ UNCHANGED <<requests, server, loop, bridge, window, torrents, savedTorrents, ran>>

LtProgress(t) ==
  /\ HandlingEvents /\ t \in DOMAIN torrents
  /\ \E finished \in BOOLEAN, paused \in BOOLEAN :
       /\ paused # torrents[t].paused => torrents[t].auto_managed
       /\ torrents' = [torrents EXCEPT ![t].finished = finished, ![t].paused = paused]
  /\ UNCHANGED <<requests, server, loop, bridge, window, downloads, plain, resumable,
                 savedDownloads, savedTorrents, ran>>

UserRemovesTorrent(t) ==
  /\ HandlingEvents /\ t \in DOMAIN torrents
  /\ torrents' = Without(torrents, t)
  /\ UNCHANGED <<requests, server, loop, bridge, window, downloads, plain, resumable,
                 savedDownloads, savedTorrents, ran>>

(* closeEvent (for real): the server is told to stop and joined, ... *)
CloseEvent ==
  /\ HandlingEvents /\ Closing
  /\ window' = "joining" /\ server' = "stopping"
  /\ UNCHANGED <<requests, loop, bridge, lists, ran>>

(* Mutant: the bridge is left running. *)
LeavesBridge ==
  /\ window = "joining"
  /\ window' = "closed"
  /\ savedDownloads' = DOMAIN downloads /\ savedTorrents' = DOMAIN torrents
  /\ UNCHANGED <<requests, server, loop, bridge, downloads, torrents, plain, resumable, ran>>

(* ... for five seconds at most; then the bridge is stopped and the lists   *)
(* are saved.                                                               *)
JoinEnds ==
  /\ window = "joining"
  /\ window' = "closed" /\ timer' = FALSE
  /\ savedDownloads' = DOMAIN downloads /\ savedTorrents' = DOMAIN torrents
  /\ UNCHANGED <<requests, server, loop, queue, draining, settling, downloads, torrents, plain,
                 resumable, ran>>

(* The event loop returns, the process goes. *)
Exit ==
  /\ window = "closed" /\ ~draining
  /\ window' = "gone"
  /\ UNCHANGED <<requests, server, loop, bridge, lists, ran>>

-----------------------------------------------------------------------------
ServerStep(r) == RunRoute(r) \/ RunTool(r) \/ Delivers(r) \/ TimesOut(r) \/ Drops(r)

GuiStep == Tick \/ Refuse \/ Execute \/ Drained \/ \E r \in settling : Settled(r)

Next ==
  \/ \E r \in Requests : ServerStep(r) \/ \E c \in Call, v \in Clients : Send(r, c, v)
  \/ ServerExits
  \/ GuiStep
  \/ \E d \in DOMAIN downloads, s \in Status : Progress(d, s)
  \/ \E t \in Torrents : LtProgress(t) \/ UserRemovesTorrent(t)
  \/ CloseEvent \/ JoinEnds \/ Exit

Spec == Init /\ [][Next]_vars

(* The server's loop and threads run, and waits time out.  The GUI thread   *)
(* may hang.                                                                *)
FairSpec == Spec /\ \A r \in Requests : WF_vars(ServerStep(r))

-----------------------------------------------------------------------------
(* Properties.                                                              *)

(* Every request comes to an end, with a GUI that hangs, a loop held by a   *)
(* tool, a pool that is full and a server that stops.                       *)
EveryRequestEnds == \A r \in Requests : phase[r] = "sent" ~> phase[r] \in Ended

(* Two downloads that are not finished never have one destination, however  *)
(* requests are ordered and whichever of them nobody waits for any more     *)
(* (README, "Resume only resumes a paused download").                       *)
OnePathOneJob ==
  \A d, e \in DOMAIN downloads :
    d # e /\ IsActive(d) /\ IsActive(e) => downloads[d].path # downloads[e].path

(* What the process leaves behind is the lists as the last call left them.  *)
LeftAsSaved ==
  window = "gone" => savedDownloads = DOMAIN downloads /\ savedTorrents = DOMAIN torrents

(* A caller that was told of an error by then does not have its function    *)
(* executed afterwards (a call "blocks until" the function "has actually     *)
(* executed on the Qt main thread, then returns its result").               *)
NoLateEffect == [][\A r \in ran' \ ran : phase[r] # "timeout"]_vars

(* A retry that is answered with success found a finished download          *)
(* ("Retries a download that previously failed or was stopped").            *)
RetryRestarts ==
  [][\A r \in ran' \ ran :
       call[r].op = "retry" /\ answer'[r] = "ok" => downloads[call[r].on].status \in Terminal]_vars
=============================================================================
