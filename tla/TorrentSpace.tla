----------------------------- MODULE TorrentSpace -----------------------------
(***************************************************************************)
(* Where torrents put their files and whether they fit: core/storage.py,   *)
(* the guards of TorrentPanel that use it, and the settings that reach it  *)
(* through MainWindow.  A folder stands for the volume it is on; volumes   *)
(* come and go, the one of the application's own data is always there.     *)
(* Sizes count in blocks.  libtorrent is external: it writes blocks of     *)
(* torrents that are not paused, and moves files by copying.               *)
(***************************************************************************)
EXTENDS Integers, FiniteSets, Functions

CONSTANTS
  Torrents,
  Volumes,
  AppData,      (* the volume of the application's own folder               *)
  WorkingDir,   (* the volume of the process's working directory            *)
  None,
  Sizes,        (* bound: sizes of torrents                                 *)
  AppCapacity,  (* what the volume of the application's data takes, and ... *)
  Capacity,     (* ... any other                                            *)
  Headroom,     (* DEFAULT_HEADROOM_BYTES                                   *)
  Early,        (* bound: what libtorrent writes of a magnet between the    *)
                (* arrival of its metadata and the next _poll               *)
  Modes,        (* bound: ways torrents are added, "magnet" or "file"       *)
  Commands      (* bound: what the user does besides, of "move", "resume",  *)
                (* "settings", "unplug", "restart"; "dialog": accepts the   *)
                (* dialog as it is even while the folder is unavailable     *)

VARIABLES
  plugged,      (* the volumes that are there                               *)
  configured,   (* setting torrent_download_dir, or None                    *)
  default_save_path, unavailable_path,
  state,        (* of each torrent: "absent", "metadata", "arrived" (its    *)
                (* metadata have, _poll has not told the panel), "ready"    *)
  size, paused,
  save_path,    (* of its record                                            *)
  done,         (* its blocks on save_path                                  *)
  moving,       (* where its files are being copied to, or None             *)
  copied,       (* its blocks there                                         *)
  unchecked,    (* history: it writes though no check has allowed it to     *)
  early,        (* history: what it wrote before _poll                      *)
  chosen        (* history: the folders that were configured, or None, or   *)
                (* asked for with an addition                               *)

torrents == <<state, size, paused, save_path, done, moving, copied, unchecked, early>>
folders  == <<plugged, configured, default_save_path, unavailable_path>>
vars     == <<torrents, folders, chosen>>

TypeOK ==
  /\ plugged \subseteq Volumes /\ AppData \in plugged
  /\ {configured, default_save_path, unavailable_path} \subseteq Volumes \cup {None}
  /\ (unavailable_path = None) <=> (default_save_path # None)
  /\ state \in [Torrents -> {"absent", "metadata", "arrived", "ready"}]
  /\ size \in [Torrents -> Sizes] /\ paused \in [Torrents -> BOOLEAN]
  /\ save_path \in [Torrents -> Volumes] /\ moving \in [Torrents -> Volumes \cup {None}]
  /\ done \in [Torrents -> Nat] /\ copied \in [Torrents -> Nat]
  /\ \A t \in Torrents : copied[t] <= done[t] /\ done[t] <= size[t]
  /\ unchecked \in [Torrents -> BOOLEAN]
  /\ early \in [Torrents -> 0 .. Early]
  /\ chosen \subseteq Volumes \cup {None}

-----------------------------------------------------------------------------
(* core/storage.py                                                          *)

Usable(v) == v \in plugged

(* Mutant: a folder that cannot be used is replaced by the fallback. *)
FallsBack(c) == IF c # None /\ Usable(c) THEN c ELSE AppData

(* None stands for the ConfiguredPathUnavailableError it raises. *)
resolve_dir(c) == IF c = None THEN AppData ELSE IF Usable(c) THEN c ELSE None

Used(v) ==
  SumFunctionOnSet([t \in Torrents |-> (IF save_path[t] = v THEN done[t] ELSE 0)
                                       + (IF moving[t] = v THEN copied[t] ELSE 0)], Torrents)

Free(v) == (IF v = AppData THEN AppCapacity ELSE Capacity) - Used(v)

(* Unknown free space counts as fitting. *)
check_space(v, needed) == ~Usable(v) \/ needed + Headroom <= Free(v)

-----------------------------------------------------------------------------
(* A start of the application: MainWindow and TorrentPanel resolve the      *)
(* torrent folder, or remember that it is missing.                          *)
Opened ==
  /\ default_save_path' = resolve_dir(configured)
  /\ unavailable_path' = IF resolve_dir(configured) = None THEN configured ELSE None

Init ==
  /\ plugged \in { P \in SUBSET Volumes : AppData \in P }
  /\ configured \in Volumes \cup {None}
  /\ default_save_path = resolve_dir(configured)
  /\ unavailable_path = IF resolve_dir(configured) = None THEN configured ELSE None
  /\ state = [t \in Torrents |-> "absent"] /\ size \in [Torrents -> Sizes]
  /\ paused = [t \in Torrents |-> FALSE] /\ save_path = [t \in Torrents |-> AppData]
  /\ done = [t \in Torrents |-> 0] /\ copied = [t \in Torrents |-> 0]
  /\ moving = [t \in Torrents |-> None]
  /\ unchecked = [t \in Torrents |-> FALSE] /\ early = [t \in Torrents |-> 0]
  /\ chosen = {configured}

Restart ==
  /\ "restart" \in Commands /\ \A t \in Torrents : moving[t] = None /\ state[t] # "arrived"
  /\ Opened
  /\ UNCHANGED <<torrents, plugged, configured, chosen>>

(* open_settings, accepted: the settings are stored; a folder that cannot   *)
(* be used leaves the one in force.                                         *)
ApplySettings(c) ==
  /\ "settings" \in Commands
  /\ configured' = c /\ chosen' = chosen \cup {c}
  /\ IF resolve_dir(c) # None
     THEN default_save_path' = resolve_dir(c) /\ unavailable_path' = None
     ELSE UNCHANGED <<default_save_path, unavailable_path>>
  /\ UNCHANGED <<torrents, plugged>>

Unplug(v) ==
  /\ "unplug" \in Commands /\ v \in plugged \ {AppData}
  /\ plugged' = plugged \ {v}
  /\ UNCHANGED <<torrents, configured, default_save_path, unavailable_path, chosen>>

Replug(v) ==
  /\ v \notin plugged
  /\ plugged' = plugged \cup {v}
  /\ UNCHANGED <<torrents, configured, default_save_path, unavailable_path, chosen>>

(* add_torrent to folder d, which must be one that can be made.  A          *)
(* .torrent file brings its metadata, and no alert will tell of them.       *)
Added(t, d, mode) ==
  /\ state[t] = "absent" /\ Usable(d)
  /\ save_path' = [save_path EXCEPT ![t] = d]
  /\ state' = [state EXCEPT ![t] = IF mode = "file" THEN "ready" ELSE "metadata"]
  /\ unchecked' = [unchecked EXCEPT ![t] = (mode = "file")]
  /\ paused' = [paused EXCEPT ![t] = FALSE]
  /\ UNCHANGED <<size, done, moving, copied, early, folders>>

(* From the API, a search result or a folder browsed to: without a folder   *)
(* it is the default, and refused when that is unavailable.                 *)
AddTorrent(t, v, mode) ==
  /\ unavailable_path # None => v # None
  /\ Added(t, IF v = None THEN default_save_path ELSE v, mode)
  /\ chosen' = IF v = None THEN chosen ELSE chosen \cup {v}

(* From AddTorrentDialog, its folder left as the dialog filled it in; it is *)
(* never empty, so add_torrent does not see that there is no default.       *)
AcceptDialog(t, mode) ==
  /\ default_save_path # None \/ "dialog" \in Commands
  /\ Added(t, IF default_save_path # None THEN default_save_path ELSE WorkingDir, mode)
  /\ UNCHANGED chosen

LtMetadata(t) ==
  /\ state[t] = "metadata"
  /\ state' = [state EXCEPT ![t] = "arrived"]
  /\ UNCHANGED <<size, paused, save_path, done, moving, copied, unchecked, early, folders, chosen>>

(* on_metadata_received, _enforce_free_space: the size is the whole one,    *)
(* whatever has been written already.  The folder is that of the record,    *)
(* which a torrent on the move is leaving.                                  *)
OnMetadataReceived(t) ==
  /\ state[t] = "arrived"
  /\ state' = [state EXCEPT ![t] = "ready"]
  /\ paused' = [paused EXCEPT ![t] = @ \/ ~check_space(save_path[t], size[t])]
  /\ unchecked' = [unchecked EXCEPT ![t] = ~Usable(save_path[t]) \/ moving[t] # None]
  /\ UNCHANGED <<size, save_path, done, moving, copied, early, folders, chosen>>

(* A block is written where the files are. *)
LtBlock(t) ==
  /\ ~paused[t] /\ moving[t] = None /\ done[t] < size[t]
  /\ Usable(save_path[t]) /\ Free(save_path[t]) > 0
  /\ \/ state[t] = "ready" /\ UNCHANGED early
     \/ state[t] = "arrived" /\ early[t] < Early /\ early' = [early EXCEPT ![t] = @ + 1]
  /\ done' = [done EXCEPT ![t] = @ + 1]
  /\ UNCHANGED <<state, size, paused, save_path, moving, copied, unchecked, folders, chosen>>

PauseTorrent(t) ==
  /\ state[t] # "absent" /\ ~paused[t]
  /\ paused' = [paused EXCEPT ![t] = TRUE]
  /\ UNCHANGED <<state, size, save_path, done, moving, copied, unchecked, early, folders, chosen>>

(* Resuming is not checked again: it overrides a refusal. *)
ResumeTorrent(t) ==
  /\ "resume" \in Commands /\ state[t] # "absent" /\ paused[t]
  /\ paused' = [paused EXCEPT ![t] = FALSE]
  /\ unchecked' = [unchecked EXCEPT ![t] = @ \/ size[t] - done[t] + Headroom > Free(save_path[t])]
  /\ UNCHANGED <<state, size, save_path, done, moving, copied, early, folders, chosen>>

RemoveTorrent(t) ==
  /\ state[t] # "absent" /\ moving[t] = None
  /\ state' = [state EXCEPT ![t] = "absent"] /\ done' = [done EXCEPT ![t] = 0]
  /\ early' = [early EXCEPT ![t] = 0]
  /\ UNCHANGED <<size, paused, save_path, moving, copied, unchecked, folders, chosen>>

(* move_torrents, of the torrents selected: each is checked against the     *)
(* space that is free at this moment, and the move is started.  What is     *)
(* not there yet will be written to the new place unchecked.                *)
MayMove(t, d) ==
  /\ state[t] # "absent" /\ moving[t] = None /\ save_path[t] # d
  /\ Usable(d) /\ check_space(d, done[t])

MoveTorrents(S, d) ==
  /\ "move" \in Commands /\ \E t \in S : MayMove(t, d)
  /\ moving' = [t \in Torrents |-> IF t \in S /\ MayMove(t, d) THEN d ELSE moving[t]]
  /\ unchecked' = [t \in Torrents |-> unchecked[t]
                     \/ (t \in S /\ MayMove(t, d) /\ done[t] < size[t])]
  /\ chosen' = chosen \cup {d}
  /\ UNCHANGED <<state, size, paused, save_path, done, copied, early, folders>>

LtCopy(t) ==
  /\ moving[t] # None /\ copied[t] < done[t] /\ Usable(moving[t]) /\ Free(moving[t]) > 0
  /\ copied' = [copied EXCEPT ![t] = @ + 1]
  /\ UNCHANGED <<state, size, paused, save_path, done, moving, unchecked, early, folders, chosen>>

LtMoved(t) ==
  /\ moving[t] # None /\ copied[t] = done[t]
  /\ save_path' = [save_path EXCEPT ![t] = moving[t]]
  /\ moving' = [moving EXCEPT ![t] = None] /\ copied' = [copied EXCEPT ![t] = 0]
  /\ early' = [early EXCEPT ![t] = 0]
  /\ UNCHANGED <<state, size, paused, done, unchecked, folders, chosen>>

(* The copy runs out of space, or of its volume. *)
LtMoveFailed(t) ==
  /\ moving[t] # None /\ copied[t] < done[t]
  /\ ~Usable(moving[t]) \/ Free(moving[t]) = 0
  /\ moving' = [moving EXCEPT ![t] = None] /\ copied' = [copied EXCEPT ![t] = 0]
  /\ UNCHANGED <<state, size, paused, save_path, done, unchecked, early, folders, chosen>>

-----------------------------------------------------------------------------
Libtorrent(t) == LtMetadata(t) \/ LtBlock(t) \/ LtCopy(t) \/ LtMoved(t) \/ LtMoveFailed(t)

Command(t) ==
  \/ PauseTorrent(t) \/ ResumeTorrent(t) \/ RemoveTorrent(t)
  \/ \E v \in Volumes \cup {None}, mode \in Modes : AddTorrent(t, v, mode)
  \/ \E mode \in Modes : AcceptDialog(t, mode)

Next ==
  \/ \E t \in Torrents : Libtorrent(t) \/ OnMetadataReceived(t) \/ Command(t)
  \/ \E S \in SUBSET Torrents, d \in Volumes : MoveTorrents(S, d)
  \/ \E c \in Volumes \cup {None} : ApplySettings(c)
  \/ \E v \in Volumes : Unplug(v) \/ Replug(v)
  \/ Restart

Spec == Init /\ [][Next]_vars

-----------------------------------------------------------------------------
(* Properties.                                                              *)

(* A volume keeps its headroom (storage.py, lesson 2) unless a torrent      *)
(* writes there that no check has allowed to, up to what was written        *)
(* before _poll: across additions, moves, resumptions and restarts, one     *)
(* torrent at a time.                                                       *)
HeadroomKept ==
  \A v \in Volumes :
    LET there == { t \in Torrents : v \in {save_path[t], moving[t]} /\ state[t] # "absent" } IN
    \/ \E t \in there : unchecked[t]
    \/ Free(v) + SumFunctionOnSet(early, there) >= Headroom

(* No torrent is put anywhere but in a folder somebody chose: a missing     *)
(* drive never redirects one to the system drive (storage.py, MainWindow).  *)
NeverRedirected ==
  \A t \in Torrents : state[t] # "absent" =>
     save_path[t] \in chosen \/ (save_path[t] = AppData /\ None \in chosen)

(* "Before a torrent starts writing, its size is checked against free       *)
(* space on the target drive" (README): nothing is written before, other    *)
(* than against a deliberate Resume.                                        *)
CheckedBeforeWriting == [][\A t \in Torrents : done'[t] > done[t] => ~unchecked[t]]_vars

(* "a move to another drive must fit (with headroom)" (move_torrents):      *)
(* what is on its way to a volume fits there whenever another move starts.  *)
OnTheirWay(v) == SumFunctionOnSet([t \in Torrents |-> done[t] - copied[t]],
                                 { t \in Torrents : moving[t] = v })

MovesFit == [][\A v \in Volumes :
  (\E t \in Torrents : moving[t] # v /\ moving'[t] = v) => OnTheirWay(v)' + Headroom <= Free(v)]_vars
=============================================================================
