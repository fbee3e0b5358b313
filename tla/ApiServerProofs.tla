--------------------------- MODULE ApiServerProofs ---------------------------
(***************************************************************************)
(* A theorem about the API's control of the download list, for any number  *)
(* of requests and threads, any paths, and whatever becomes of those who   *)
(* wait for an answer.                                                     *)
(***************************************************************************)
EXTENDS ApiServer, TLAPS

(* A download is its path and its status, nothing else. *)
Shaped(ds) == \A d \in DOMAIN ds : ds[d] = [path |-> ds[d].path, status |-> ds[d].status]

Alive(ds, d) == ds[d].status \notin Terminal

(* No two live downloads of ds have one destination. *)
Apart(ds) == \A d, e \in DOMAIN ds : d # e /\ Alive(ds, d) /\ Alive(ds, e) => ds[d].path # ds[e].path

ListInv == Shaped(downloads) /\ Apart(downloads)

LEMMA ApartMeans == OnePathOneJob <=> Apart(downloads)
BY DEF OnePathOneJob, Apart, Alive, IsActive

(* A new status for one of the downloads, live only if it was before or if  *)
(* no other live one has its path.                                          *)
LEMMA StatusKeeps ==
  ASSUME NEW ds, Shaped(ds), Apart(ds), NEW d \in DOMAIN ds, NEW s,
         \/ s \in Terminal \/ Alive(ds, d)
         \/ \A e \in DOMAIN ds \ {d} : Alive(ds, e) => ds[e].path # ds[d].path,
         NEW es, es = [ds EXCEPT ![d].status = s]
  PROVE  Shaped(es) /\ Apart(es)
<1>1. [ds[d] EXCEPT !.status = s] = [path |-> ds[d].path, status |-> s]
  BY DEF Shaped
<1>2. /\ DOMAIN es = DOMAIN ds
      /\ es[d] = [path |-> ds[d].path, status |-> s]
      /\ \A e \in DOMAIN ds \ {d} : es[e] = ds[e]
  BY <1>1
<1>3. Shaped(es)
  BY <1>2 DEF Shaped
<1>4. \A e \in DOMAIN ds : es[e].path = ds[e].path
  BY <1>2
<1>5. es[d].status = s
  BY <1>2
<1>6. \A e, f \in DOMAIN es : e # f /\ Alive(es, e) /\ Alive(es, f) => es[e].path # es[f].path
  <2> SUFFICES ASSUME NEW e \in DOMAIN ds, NEW f \in DOMAIN ds, e # f, Alive(es, e), Alive(es, f)
               PROVE  ds[e].path # ds[f].path
    BY <1>2, <1>4
  <2>1. CASE Alive(ds, e) /\ Alive(ds, f)
    BY <2>1 DEF Apart
  <2>2. CASE e = d /\ ~Alive(ds, d)
    BY <1>2, <1>5, <2>2 DEF Alive
  <2>3. CASE f = d /\ ~Alive(ds, d)
    BY <1>2, <1>5, <2>3 DEF Alive
  <2> QED BY <1>2, <2>1, <2>2, <2>3 DEF Alive
<1> QED BY <1>3, <1>6 DEF Apart

(* A download more, of a path no live one has. *)
LEMMA AddKeeps ==
  ASSUME NEW ds, Shaped(ds), Apart(ds), NEW r, NEW p, NEW s,
         \A e \in DOMAIN ds : Alive(ds, e) => ds[e].path # p,
         NEW es, es = With(ds, r, [path |-> p, status |-> s])
  PROVE  Shaped(es) /\ Apart(es)
<1>1. /\ DOMAIN es = DOMAIN ds \cup {r}
      /\ es[r] = [path |-> p, status |-> s]
      /\ \A e \in DOMAIN ds \ {r} : es[e] = ds[e]
  BY DEF With
<1>2. es[r].path = p /\ es[r].status = s
  BY <1>1
<1> QED BY <1>1, <1>2 DEF Shaped, Apart, Alive

LEMMA RemoveKeeps ==
  ASSUME NEW ds, Shaped(ds), Apart(ds), NEW d, NEW es, es = Without(ds, d)
  PROVE  Shaped(es) /\ Apart(es)
<1>1. DOMAIN es = DOMAIN ds \ {d} /\ \A e \in DOMAIN es : es[e] = ds[e]
  BY DEF Without
<1> QED BY <1>1 DEF Shaped, Apart, Alive

(* The list after a call that the controller accepts. *)
LEMMA CallKeeps ==
  ASSUME ListInv, NEW r, NEW c, Accepts(c)
  PROVE  Shaped(DownloadsAfter(r, c)) /\ Apart(DownloadsAfter(r, c))
<1>1. CASE c.op = "add"
  <2>1. \A e \in DOMAIN downloads : Alive(downloads, e) => downloads[e].path # PathOf(c)
    BY <1>1 DEF Accepts, DownloadOps, TorrentOps, PathConflict, IsActive, Alive
  <2>2. DownloadsAfter(r, c) = With(downloads, r, [path |-> PathOf(c), status |-> "PENDING"])
    BY <1>1 DEF DownloadsAfter, DownloadOps
  <2> QED BY <2>1, <2>2, AddKeeps DEF ListInv
<1>2. CASE c.op = "remove"
  BY <1>2, RemoveKeeps DEF ListInv, DownloadsAfter
<1>3. CASE c.op \in DownloadOps \ {"remove"}
  <2>1. AcceptsDownload(c)
    BY <1>3 DEF Accepts, DownloadOps, TorrentOps
  <2>2. DownloadsAfter(r, c) = [downloads EXCEPT ![c.on].status = StatusAfter(c)]
    BY <1>3 DEF DownloadsAfter, DownloadOps
  <2>3. \/ StatusAfter(c) \in Terminal \/ Alive(downloads, c.on)
        \/ \A e \in DOMAIN downloads \ {c.on} :
             Alive(downloads, e) => downloads[e].path # downloads[c.on].path
    <3> DEFINE s == downloads[c.on].status
    <3>1. CASE c.op = "retry" /\ s \in Terminal
      BY <2>1, <3>1 DEF AcceptsDownload, PathConflict, IsActive, Alive
    <3>2. CASE c.op = "retry" /\ s \notin Terminal
      BY <3>2 DEF Alive
    <3>3. CASE c.op = "pause"
      BY <2>1, <3>3 DEF AcceptsDownload, Pausable, Alive, Terminal
    <3>4. CASE c.op = "resume"
      BY <2>1, <3>4 DEF AcceptsDownload, Resumable, Alive, Terminal
    <3>5. CASE c.op = "stop"
      BY <3>5 DEF StatusAfter, Terminal
    <3>6. CASE c.op = "get"
      <4>1. StatusAfter(c) = s
        BY <3>6 DEF StatusAfter
      <4> QED BY <4>1 DEF Alive
    <3> QED BY <1>3, <3>1, <3>2, <3>3, <3>4, <3>5, <3>6 DEF DownloadOps
  <2> QED BY <2>1, <2>2, <2>3, StatusKeeps DEF ListInv, AcceptsDownload
<1>4. CASE c.op \notin {"add"} \cup DownloadOps
  <2>1. DownloadsAfter(r, c) = downloads
    BY <1>4 DEF DownloadsAfter, DownloadOps
  <2> QED BY <2>1 DEF ListInv
<1> QED BY <1>1, <1>2, <1>3, <1>4

LEMMA ListInit == ASSUME Init PROVE ListInv
BY DEF Init, Empty, ListInv, Shaped, Apart

LEMMA ListNext ==
  ASSUME ListInv, [Next]_vars
  PROVE  ListInv'
<1> USE DEF requests, bridge, lists
<1>1. ASSUME UNCHANGED downloads PROVE ListInv'
  BY <1>1 DEF ListInv, Shaped, Apart, Alive
<1>2. ASSUME NEW r \in Requests, ServerStep(r) PROVE ListInv'
  BY <1>1, <1>2 DEF ServerStep, RunRoute, RunTool, Posts, Delivers, TimesOut, Drops, Ends
<1>3. ASSUME NEW r \in Requests, NEW c \in Call, NEW v \in Clients, Send(r, c, v) PROVE ListInv'
  BY <1>1, <1>3 DEF Send
<1>4. CASE GuiStep
  <2>1. CASE Execute
    <3>1. PICK r, c : Accepts(c) /\ downloads' = DownloadsAfter(r, c)
      BY <2>1 DEF Execute
    <3>2. Shaped(downloads') /\ Apart(downloads')
      BY <3>1, CallKeeps
    <3> QED BY <3>2 DEF ListInv, Shaped, Apart, Alive
  <2>2. CASE Tick \/ Refuse \/ Drained \/ \E r \in settling : Settled(r)
    BY <1>1, <2>2 DEF Tick, Refuse, Drained, Settled
  <2> QED BY <1>4, <2>1, <2>2 DEF GuiStep
<1>5. ASSUME NEW d \in DOMAIN downloads, NEW s \in Status, Progress(d, s) PROVE ListInv'
  <2>1. Alive(downloads, d) /\ downloads' = [downloads EXCEPT ![d].status = s]
    BY <1>5 DEF Progress, Alive, Terminal
  <2>2. Shaped(downloads') /\ Apart(downloads')
    BY <2>1, StatusKeeps DEF ListInv
  <2> QED BY <2>2 DEF ListInv, Shaped, Apart, Alive
<1>6. ASSUME NEW t \in Torrents, LtProgress(t) \/ UserRemovesTorrent(t) PROVE ListInv'
  BY <1>1, <1>6 DEF LtProgress, UserRemovesTorrent
<1>7. CASE ServerExits \/ CloseEvent \/ JoinEnds \/ Exit \/ UNCHANGED vars
  BY <1>1, <1>7 DEF ServerExits, CloseEvent, JoinEnds, Exit, vars
<1> QED BY <1>2, <1>3, <1>4, <1>5, <1>6, <1>7 DEF Next

(* Two downloads that are not finished never have one destination, however  *)
(* calls are ordered in the queue and whoever still waits for them: what    *)
(* add_download and retry check on the GUI thread is still so when they act *)
(* (DownloadPanel._find_path_conflict).                                             *)
THEOREM DestinationsApart == Spec => []OnePathOneJob
<1>1. Spec => []ListInv
  BY ListInit, ListNext, PTL DEF Spec
<1>2. ListInv => OnePathOneJob
  BY ApartMeans DEF ListInv
<1> QED BY <1>1, <1>2, PTL

(* The window is closed by the user, not inside a call.                     *)
ClosedBetweenCalls == [][CloseEvent => ~draining]_vars

(* Once closing has begun no call runs, and none is begun after it: the     *)
(* timer of the bridge has stopped.                                         *)
Quiet ==
  /\ window \in { "open", "joining", "closed", "gone" }
  /\ window # "open" => ~draining
  /\ window \in { "closed", "gone" } =>
       /\ ~timer
       /\ savedDownloads = DOMAIN downloads /\ savedTorrents = DOMAIN torrents

LEMMA QuietNext ==
  ASSUME Quiet, [Next]_vars, [CloseEvent => ~draining]_vars
  PROVE  Quiet'
<1> USE DEF requests, bridge, lists
<1>1. ASSUME UNCHANGED <<window, draining, timer, lists>> PROVE Quiet'
  BY <1>1 DEF Quiet
<1>2. ASSUME NEW r \in Requests, ServerStep(r) PROVE Quiet'
  BY <1>1, <1>2 DEF ServerStep, RunRoute, RunTool, Posts, Delivers, TimesOut, Drops, Ends
<1>3. ASSUME NEW r \in Requests, NEW c \in Call, NEW v \in Clients, Send(r, c, v) PROVE Quiet'
  BY <1>1, <1>3 DEF Send
<1>4. ASSUME window' = window, timer' = timer, window = "open" \/ draining PROVE Quiet'
  BY <1>4 DEF Quiet
<1>5. CASE GuiStep
  <2>1. CASE Tick
    BY <2>1 DEF Tick, Quiet
  <2>2. CASE Refuse \/ Execute
    BY <1>4, <2>2 DEF Refuse, Execute, Draining
  <2>3. ASSUME NEW r \in settling, Settled(r) PROVE Quiet'
    BY <1>1, <2>3 DEF Settled
  <2>4. CASE Drained
    BY <2>4 DEF Drained, Quiet
  <2> QED BY <1>5, <2>1, <2>2, <2>3, <2>4 DEF GuiStep
<1>6. ASSUME NEW d \in DOMAIN downloads, NEW s \in Status, Progress(d, s) PROVE Quiet'
  BY <1>4, <1>6 DEF Progress, HandlingEvents
<1>7. ASSUME NEW t \in Torrents, LtProgress(t) \/ UserRemovesTorrent(t) PROVE Quiet'
  BY <1>4, <1>7 DEF LtProgress, UserRemovesTorrent, HandlingEvents
<1>8. CASE ServerExits \/ UNCHANGED vars
  BY <1>1, <1>8 DEF ServerExits, vars
<1>9. CASE CloseEvent
  <2>1. ~draining
    <3>1. window' # window
      BY <1>9 DEF CloseEvent, HandlingEvents
    <3> QED BY <1>9, <3>1 DEF vars
  <2> QED BY <1>9, <2>1 DEF CloseEvent, Quiet
<1>10. CASE JoinEnds \/ Exit
  BY <1>10 DEF JoinEnds, Exit, Quiet
<1> QED BY <1>2, <1>3, <1>5, <1>6, <1>7, <1>8, <1>9, <1>10 DEF Next

(* What the process leaves behind is the lists as the last call left them,  *)
(* however many calls are queued, answered or waited for when the window    *)
(* closes, as long as it is not closed inside add_torrent's event loop      *)
(* (GuiBridge.stop before the lists are saved, in closeEvent).              *)
THEOREM LeavesAsSaved == Spec /\ ClosedBetweenCalls => []LeftAsSaved
<1>1. Init => Quiet
  BY DEF Init, Quiet
<1>2. Quiet => LeftAsSaved
  BY DEF Quiet, LeftAsSaved
<1> QED BY <1>1, <1>2, QuietNext, PTL DEF Spec, ClosedBetweenCalls
=============================================================================
