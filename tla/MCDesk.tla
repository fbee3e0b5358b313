------------------------------- MODULE MCDesk -------------------------------
(* Four small parts of the desktop application, side by side: the token     *)
(* bucket of the download threads (SpeedLimiter), the Add dialog            *)
(* (AddDialog), the settings file with and without faults (Preferences) and *)
(* the space check of torrents (TorrentSpace). A behaviour is about one     *)
(* subject, the others stay as they are.                                    *)
EXTENDS SpeedLimiter, FiniteSets, TLC

CONSTANTS Subjects, None,
  Addresses, NamedAddresses, BadText, NewPaths, ProbesAtOnce, General, Video,   \* the Add dialog
  Keys, Clipboard, InDialog, Values, On, Default, Mishaps,      \* the settings
  Torrent, Drives, AppData, Sizes, AppSpace, DriveSpace, Headroom, Early   \* the volumes

ASSUME SettingsAssumption == Clipboard \in Keys /\ {On, Default} \subseteq Values

(* None is no volume; an empty one has its headroom. *)
ASSUME SpaceAssumption ==
  /\ AppData \in Drives /\ None \notin Drives
  /\ {Headroom, Early, AppSpace, DriveSpace} \subseteq Nat /\ Sizes \subseteq Nat
  /\ Headroom <= AppSpace /\ Headroom <= DriveSpace

VARIABLES subject,
  dialog, url_input, verify_tls, path_input, category_input, category_auto_set, info, info_of,
  probes, category_by, there, added,
  phase, file, torn, settings, connected, wanted,
  plugged, configured, default_save_path, unavailable_path, state, size, paused, save_path,
  done, moving, copied, unchecked, early, chosen

dialogVars == <<dialog, url_input, verify_tls, path_input, category_input, category_auto_set,
                info, info_of, probes, category_by, there, added>>

settingsVars == <<phase, file, torn, settings, connected, wanted>>

spaceVars == <<plugged, configured, default_save_path, unavailable_path, state, size, paused,
               save_path, done, moving, copied, unchecked, early, chosen>>

allVars == <<vars, dialogVars, settingsVars, spaceVars, subject>>

(* URLs whose server gives a file name, under a certificate that does not   *)
(* verify, and URLs whose server gives none.                                *)
Dialog == INSTANCE AddDialog
  WITH phase <- dialog, Urls <- Addresses,
       Guess <- [u \in Addresses |-> IF u \in NamedAddresses THEN Video ELSE None],
       BadCertificate <- NamedAddresses,
       Categories <- {General, Video}, DEFAULT_CATEGORY <- General, Paths <- NewPaths,
       MaxProbes <- ProbesAtOnce, Reserved <- NewPaths

(* The settings, with and without mishaps. *)
MayGoWrong(s) == s = "faults"

Prefs(s) == INSTANCE Preferences
  WITH Faults <- IF MayGoWrong(s) THEN Mishaps ELSE {}, EditsWhile <- MayGoWrong(s)

Space == INSTANCE TorrentSpace
  WITH Torrents <- {Torrent}, Volumes <- Drives, WorkingDir <- AppData,
       AppCapacity <- AppSpace, Capacity <- DriveSpace, Modes <- {"magnet", "file"},
       Commands <- {"move", "resume", "settings", "unplug", "restart"}

DeskInit ==
  /\ subject \in Subjects
  /\ Init /\ Dialog!Init /\ Prefs("settings")!Init /\ Space!Init
  /\ subject # "dialog" => verify_tls /\ there = {}
  /\ subject \notin {"settings", "faults"} => file = <<>>
  /\ subject # "space" => plugged = Drives /\ chosen = {AppData} /\ size = CHOOSE f \in [{Torrent} -> Sizes] : TRUE

About(s, others) == subject = s /\ UNCHANGED <<others, subject>>

Limiter     == About("limiter", <<dialogVars, settingsVars, spaceVars>>)
Window      == About("dialog", <<vars, settingsVars, spaceVars>>)
Settings(s) == About(s, <<vars, dialogVars, spaceVars>>)
Volumes     == About("space", <<vars, dialogVars, settingsVars>>)

DeskNext == \/ Limiter /\ Next
            \/ Window /\ Dialog!Next
            \/ \E s \in {"settings", "faults"} : Settings(s) /\ Prefs(s)!Next
            \/ Volumes /\ Space!Next

DeskSpec == DeskInit /\ [][DeskNext]_allVars

(* The fairness of SpeedLimiter and AddDialog. *)
DeskFairSpec ==
  /\ DeskSpec
  /\ WF_allVars(Limiter /\ Tick)
  /\ \A w \in Workers : WF_allVars(Limiter /\ Look(w))
  /\ \A p \in Dialog!Probe : WF_allVars(Window /\ Dialog!ProbeAnswers(p))
-----------------------------------------------------------------------------
(* What the user typed stays, and no probe leaves the label at              *)
(* "Fetching...".                                                           *)
DialogRight == Dialog!UserKeeps /\ Dialog!FetchEnds

(* Without faults every choice survives; with and without, the clipboard is *)
(* connected at most once, and only while its setting is on.                *)
SettingsRight == \A s \in {"settings", "faults"} : subject = s =>
  /\ Prefs(s)!TypeOK /\ Prefs(s)!PromptsOnce
  /\ ~MayGoWrong(s) => Prefs(s)!ChoicesKept

(* The headroom stays, and no torrent lands in a folder nobody chose.       *)
SpaceRight == subject = "space" =>
  Space!TypeOK /\ Space!HeadroomKept /\ Space!NeverRedirected
=============================================================================
