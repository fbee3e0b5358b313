------------------------------- MODULE AddDialog -------------------------------
(***************************************************************************)
(* AddDownloadDialog (gui/dialogs.py) and what DownloadPanel does around   *)
(* it: a URL arrives by hand, by drag and drop or from the clipboard; each *)
(* change of it starts a probe on the thread pool, whose answer fills in   *)
(* what the user has not; the user accepts, is asked about a file that is  *)
(* there, and the download is added.  Probes are not cancelled and answer  *)
(* in any order.  A file name stands for its URL.                          *)
(***************************************************************************)
EXTENDS Integers, FiniteSets, FiniteSetsExt

CONSTANTS
  Urls,
  Guess,       (* of each URL: the category of the file name its server      *)
               (* gives, or None when it gives no name                       *)
  BadCertificate,  (* URLs whose certificate does not verify                 *)
  Categories, DEFAULT_CATEGORY,
  Paths,       (* bound: what the user types or browses to as save location  *)
  None,
  BadText,     (* text that is no URL                                        *)
  MaxProbes,   (* bound: probes at a time                                    *)
  Reserved     (* paths of downloads in the list that are not terminal       *)

VARIABLES
  phase,       (* "closed", "open", "asking": the question about a file      *)
  url_input,   (* a URL, BadText, or None when empty                         *)
  verify_tls,
  path_input,  (* a path the user gave, a URL for the name it was filled in  *)
               (* from, or None when empty                                   *)
  category_input, category_auto_set,
  info,        (* info_label: "enter", "invalid", "fetching", "size", "error" *)
  info_of,     (* history: the probe info comes from, or None                *)
  probes,      (* requests of this dialog that have not answered             *)
  category_by, (* history: who chose the category, "user" or "dialog"        *)
  there,       (* files without a sidecar                                    *)
  added        (* history: the last download added, or None                  *)

fields == <<url_input, verify_tls, path_input, category_input, category_auto_set, category_by>>
shown  == <<info, info_of, probes>>
vars   == <<phase, fields, shown, there, added>>

Text == Urls \cup {BadText, None}
Probe == [url : Urls, tls : BOOLEAN]

TypeOK ==
  /\ phase \in {"closed", "open", "asking"}
  /\ url_input \in Text /\ verify_tls \in BOOLEAN
  /\ path_input \in Paths \cup Urls \cup {None}
  /\ category_input \in Categories /\ category_auto_set \in BOOLEAN
  /\ info \in {"enter", "invalid", "fetching", "size", "error"}
  /\ info_of \in Probe \cup {None} /\ (info \in {"size", "error"}) <=> (info_of # None)
  /\ probes \in [Probe -> 0 .. MaxProbes]
  /\ category_by \in {"user", "dialog"} /\ there \subseteq Paths \cup Urls
  /\ phase = "asking" => url_input \in Urls /\ path_input # None
  /\ added # None => /\ added.path \in (Paths \cup Urls) \ Reserved
                     /\ added.url \in Urls /\ added.allow_overwrite \in BOOLEAN

-----------------------------------------------------------------------------
NoProbes == [p \in Probe |-> 0]
(* Bound: MaxProbes. *)
Room     == MapThenSumSet(LAMBDA p : probes[p], Probe) < MaxProbes

(* fetch_metadata: a probe for text u, next to those that have not answered. *)
FetchMetadata(u, tls, running) ==
  /\ info_of' = None
  /\ info' = IF u = None THEN "enter" ELSE IF u = BadText THEN "invalid" ELSE "fetching"
  /\ probes' = IF u \in Urls THEN [running EXCEPT ![[url |-> u, tls |-> tls]] = @ + 1]
               ELSE running

Init ==
  /\ phase = "closed" /\ url_input = None /\ verify_tls \in BOOLEAN /\ path_input = None
  /\ category_input = DEFAULT_CATEGORY /\ category_auto_set = TRUE /\ category_by = "dialog"
  /\ info = "enter" /\ info_of = None /\ probes = NoProbes
  /\ there \in SUBSET (Paths \cup Urls) /\ added = None

(* The button opens it without a URL; a dropped link and a link copied while *)
(* the clipboard is watched open it with one.  A new dialog hears nothing of *)
(* the probes of an old one.                                                 *)
OpenDialog(u) ==
  /\ phase = "closed" /\ u # BadText
  /\ phase' = "open" /\ url_input' = u /\ path_input' = None
  /\ category_input' = DEFAULT_CATEGORY /\ category_auto_set' = TRUE /\ category_by' = "dialog"
  /\ FetchMetadata(u, verify_tls, NoProbes)
  /\ UNCHANGED <<verify_tls, there, added>>

EditUrl(u) ==
  /\ phase = "open" /\ u # url_input /\ Room
  /\ url_input' = u
  /\ FetchMetadata(u, verify_tls, probes)
  /\ UNCHANGED <<phase, verify_tls, path_input, category_input, category_auto_set, category_by,
                 there, added>>

ToggleTls ==
  /\ phase = "open" /\ Room
  /\ verify_tls' = ~verify_tls
  /\ FetchMetadata(url_input, ~verify_tls, probes)
  /\ UNCHANGED <<phase, url_input, path_input, category_input, category_auto_set, category_by,
                 there, added>>

(* Typed, browsed to, or cleared. *)
EditPath(p) ==
  /\ phase = "open"
  /\ path_input' = p
  /\ UNCHANGED <<phase, url_input, verify_tls, category_input, category_auto_set, category_by,
                 shown, there, added>>

ChooseCategory(c) ==
  /\ phase = "open" /\ c # category_input
  /\ category_input' = c /\ category_auto_set' = FALSE /\ category_by' = "user"
  /\ UNCHANGED <<phase, url_input, verify_tls, path_input, shown, there, added>>

Category(u) == IF category_auto_set /\ Guess[u] # None THEN Guess[u] ELSE category_input

Answered(p) == /\ probes[p] > 0 /\ probes' = [probes EXCEPT ![p] = @ - 1] /\ info_of' = p

(* Mutant: the name of the file just probed replaces whatever is there. *)
NewName(u) == IF Guess[u] # None THEN u ELSE path_input

Path(u) == IF Guess[u] # None /\ path_input = None THEN u ELSE path_input

OnMetadataFetched(p) ==
  /\ Answered(p)
  /\ p.tls => p.url \notin BadCertificate
  /\ info' = "size"
  /\ path_input' = Path(p.url) /\ category_input' = Category(p.url)
  /\ UNCHANGED <<phase, url_input, verify_tls, category_auto_set, category_by, there, added>>

OnFetchError(p) ==
  /\ Answered(p)
  /\ info' = "error"
  /\ UNCHANGED <<phase, fields, there, added>>

(* add_download: without a path, or with one that is taken, it refuses.     *)
AddDownload(allow) ==
  added' = IF path_input # None /\ path_input \notin Reserved
           THEN [url |-> url_input, path |-> path_input, allow_overwrite |-> allow] ELSE added

MustAsk == path_input # None /\ path_input \in there

(* OK: _on_accept and _confirm_overwrite_if_needed. *)
Accept ==
  /\ phase = "open"
  /\ IF url_input \notin Urls
     THEN info' = "invalid" /\ info_of' = None /\ UNCHANGED <<phase, added, probes>>
     ELSE /\ UNCHANGED shown
          /\ IF MustAsk
             THEN phase' = "asking" /\ UNCHANGED added
             ELSE phase' = "closed" /\ AddDownload(FALSE)
  /\ UNCHANGED <<fields, there>>

(* The answer to "Replace it?". *)
Answer(yes) ==
  /\ phase = "asking" /\ phase' = "closed"
  /\ IF yes THEN AddDownload(TRUE) ELSE UNCHANGED added
  /\ UNCHANGED <<fields, shown, there>>

Reject ==
  /\ phase = "open" /\ phase' = "closed"
  /\ UNCHANGED <<fields, shown, there, added>>

-----------------------------------------------------------------------------
ProbeAnswers(p) == OnMetadataFetched(p) \/ OnFetchError(p)

Next ==
  \/ \E u \in Text : OpenDialog(u) \/ EditUrl(u)
  \/ ToggleTls
  \/ \E p \in Paths \cup {None} : EditPath(p)
  \/ \E c \in Categories : ChooseCategory(c)
  \/ \E p \in Probe : ProbeAnswers(p)
  \/ Accept \/ Reject
  \/ \E yes \in BOOLEAN : Answer(yes)

Spec == Init /\ [][Next]_vars

(* Probes have timeouts: each answers. *)
FairSpec == Spec /\ \A p \in Probe : WF_vars(ProbeAnswers(p))

-----------------------------------------------------------------------------
(* Properties.                                                              *)

(* What the user chose is his: no answer, however late and of whatever URL, *)
(* replaces the save location once there is one, or the category he chose   *)
(* (on_metadata_fetched, _on_category_manually_changed), whatever number of *)
(* probes guessed before.                                                   *)
UserKeeps == [][
  (\E p \in Probe : probes'[p] < probes[p] /\ phase = "open" /\ phase' = "open") =>
     /\ path_input # None => path_input' = path_input
     /\ category_by = "user" => category_input' = category_input]_vars

(* "Fetching..." does not stay: whatever probes overlap, the label comes to *)
(* say something, or there is nothing to fetch any more.                    *)
FetchEnds == (phase = "open" /\ info = "fetching") ~> (info # "fetching" \/ phase # "open")

(* "Re-probe when toggled, so a cert error shown in File Info clears (or    *)
(* appears) to reflect what the actual download will do" (dialogs.py):      *)
(* once nothing is under way, the label speaks of the URL and the TLS       *)
(* setting the download will use.                                           *)
InfoReflects ==
  phase = "open" /\ probes = NoProbes /\ info_of # None =>
    info_of = [url |-> url_input, tls |-> verify_tls]
=============================================================================
