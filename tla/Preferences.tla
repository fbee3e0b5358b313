----------------------------- MODULE Preferences -----------------------------
(***************************************************************************)
(* The settings: AppSettingsStore (core/app_settings.py), the dialog       *)
(* (SettingsDialog.get_settings) and what accepting it changes             *)
(* (DownloadPanel.apply_settings).  Nested dictionaries are merged key by  *)
(* key, so that a key here is a path into them.  A setting has few values. *)
(* The user edits some keys in the dialog and may edit any in the file,    *)
(* which the README asks for where the dialog has no field.                *)
(***************************************************************************)
EXTENDS Integers, FiniteSets, Functions

CONSTANTS
  Keys,
  Clipboard,    (* the key clipboard_monitor_enabled                         *)
  InDialog,     (* the keys the dialog has a field for                       *)
  Values,       (* bound: the values of a setting                            *)
  On,           (* the one that turns the clipboard monitor on               *)
  Default,      (* the one that is the default of every key                  *)
  Faults,       (* bound: what goes wrong, of "kill", "disk"                 *)
  EditsWhile    (* bound: the file is edited while the application runs      *)

VARIABLES
  phase,       (* "down", "running", "dialog": it is open, or "saving": the  *)
               (* file is truncated and not written yet                      *)
  file,        (* what settings.json holds: some keys; none when absent      *)
  torn,        (* it is not JSON                                             *)
  settings,    (* DownloadPanel.settings                                     *)
  connected,   (* how often the clipboard's signal is connected              *)
  wanted       (* history: what the user last chose for each key             *)

vars == <<phase, file, torn, settings, connected, wanted>>

Settings == [Keys -> Values]
Stored   == UNION { [K -> Values] : K \in SUBSET Keys }

TypeOK ==
  /\ phase \in {"down", "running", "dialog", "saving"}
  /\ file \in Stored /\ torn \in BOOLEAN
  /\ settings \in Settings /\ wanted \in Settings
  /\ connected \in Nat

-----------------------------------------------------------------------------
(* load: the file over the defaults; a file that is not JSON counts as {}.  *)
Loaded == [k \in Keys |-> IF ~torn /\ k \in DOMAIN file THEN file[k] ELSE Default]

Init ==
  /\ phase = "down" /\ file \in Stored /\ torn = FALSE
  /\ settings = [k \in Keys |-> Default] /\ connected = 0
  /\ wanted = Loaded

StartUp ==
  /\ phase = "down" /\ phase' = "running"
  /\ settings' = Loaded
  /\ connected' = IF settings'[Clipboard] = On THEN 1 ELSE 0
  /\ UNCHANGED <<file, torn, wanted>>

OpenSettings ==
  /\ phase = "running" /\ phase' = "dialog"
  /\ UNCHANGED <<file, torn, settings, connected, wanted>>

Cancel ==
  /\ phase = "dialog" /\ phase' = "running"
  /\ UNCHANGED <<file, torn, settings, connected, wanted>>

(* Mutant: what the dialog has no field for is dropped, which is its        *)
(* default again when it is read.                                           *)
OwnKeysOnly(chosen) == [k \in Keys |-> IF k \in InDialog THEN chosen[k] ELSE Default]

(* get_settings: everything that was given, overlaid with the fields.       *)
GetSettings(chosen) == [k \in Keys |-> IF k \in InDialog THEN chosen[k] ELSE settings[k]]

Connected(new) ==
  IF new[Clipboard] = On /\ settings[Clipboard] # On THEN connected + 1
  ELSE IF new[Clipboard] # On /\ settings[Clipboard] = On THEN 0 ELSE connected

(* OK: apply_settings replaces the settings, and save opens the file, which *)
(* empties it.                                                              *)
Accept(chosen) ==
  /\ phase = "dialog" /\ phase' = "saving"
  /\ settings' = GetSettings(chosen)
  /\ connected' = Connected(GetSettings(chosen))
  /\ torn' = TRUE
  /\ wanted' = [k \in Keys |-> IF k \in InDialog THEN chosen[k] ELSE wanted[k]]
  /\ UNCHANGED file

SaveSettings ==
  /\ phase = "saving" /\ phase' = "running"
  /\ file' = settings /\ torn' = FALSE
  /\ UNCHANGED <<settings, connected, wanted>>

(* The disk is full: an OSError after the truncation, which is logged.      *)
SaveFails ==
  /\ "disk" \in Faults /\ phase = "saving" /\ phase' = "running"
  /\ UNCHANGED <<file, torn, settings, connected, wanted>>

Quit ==
  /\ phase = "running" /\ phase' = "down"
  /\ UNCHANGED <<file, torn, settings, connected, wanted>>

Kill ==
  /\ "kill" \in Faults /\ phase \in {"dialog", "saving"} /\ phase' = "down"
  /\ UNCHANGED <<file, torn, settings, connected, wanted>>

(* The user edits or creates the file by hand, all of it or a part.         *)
EditFile(s) ==
  /\ phase = "down" \/ (EditsWhile /\ phase = "running")
  /\ file' = s /\ torn' = FALSE
  /\ wanted' = [k \in Keys |-> IF k \in DOMAIN s THEN s[k] ELSE Default]
  /\ UNCHANGED <<phase, settings, connected>>

-----------------------------------------------------------------------------
Next ==
  \/ StartUp \/ OpenSettings \/ Cancel \/ SaveSettings \/ SaveFails \/ Quit \/ Kill
  \/ \E chosen \in Settings : (\A k \in Keys \ InDialog : chosen[k] = settings[k]) /\ Accept(chosen)
  \/ \E s \in Stored : EditFile(s)

Spec == Init /\ [][Next]_vars

-----------------------------------------------------------------------------
(* Properties.                                                              *)

(* What the user chose last, in the dialog or in the file while the         *)
(* application was closed, is what the application runs with, after any     *)
(* number of restarts: a partial file keeps the defaults of the rest, and   *)
(* the dialog keeps what it has no field for (_deep_merge, get_settings).   *)
ChoicesKept == phase \in {"running", "dialog", "saving"} => settings = wanted

(* One prompt for each copied link, exactly while the setting is on,        *)
(* however often the settings are accepted (apply_settings).                *)
PromptsOnce == phase # "down" => connected = IF settings[Clipboard] = On THEN 1 ELSE 0

(* "set by editing settings.json directly (the app picks them up on         *)
(* restart)" (README), also of a file edited while the application runs.    *)
RestartPicksUp == [][phase = "down" /\ phase' = "running" => settings' = wanted]_vars
=============================================================================
