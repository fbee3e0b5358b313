------------------------------ MODULE DeskProofs ------------------------------
(***************************************************************************)
(* Theorems about the small parts of the desktop application: the token    *)
(* bucket for any number of workers, any rate and capacity; the settings   *)
(* for any set of keys and values; the volumes for any of them, of any     *)
(* capacity; the Add dialog for any URLs, paths and number of probes.      *)
(***************************************************************************)
EXTENDS MCDesk, FiniteSetTheorems, TLAPS

(* The token bucket: the helpers on numbers.                                *)
LEMMA LesserFact ==
  ASSUME NEW a \in Int, NEW b \in Int
  PROVE  Lesser(a, b) \in {a, b} /\ Lesser(a, b) <= a /\ Lesser(a, b) <= b
BY DEF Lesser

LEMMA GreaterFact ==
  ASSUME NEW a \in Int, NEW b \in Int
  PROVE  Greater(a, b) \in {a, b} /\ a <= Greater(a, b) /\ b <= Greater(a, b)
BY DEF Greater

(* What a refill leaves in the bucket.                                      *)
LEMMA RefilledFact ==
  ASSUME TypeOK, NEW n \in Requests
  PROVE  /\ Refilled(n) \in Nat
         /\ Refilled(n) <= tokens + elapsed * Rate
         /\ Refilled(n) <= Capacity \/ Refilled(n) <= n
<1> DEFINE all == tokens + elapsed * Rate
<1>1. n \in Nat /\ Rate \in Nat /\ Capacity \in Nat
  BY RequestsAssumption, RateAssumption
<1>2. elapsed \in Nat /\ tokens \in Nat
  BY TicksAssumption DEF TypeOK
<1>3. elapsed * Rate \in Nat
  BY <1>1, <1>2
<1>4. all \in Nat
  BY <1>2, <1>3
<1>5. ceiling(n) \in {Capacity, n} /\ ceiling(n) \in Nat
  BY <1>1, GreaterFact DEF ceiling
<1>6. Refilled(n) \in {ceiling(n), all} /\ Refilled(n) <= ceiling(n) /\ Refilled(n) <= all
  <2> HIDE DEF all
  <2>1. Refilled(n) = Lesser(ceiling(n), all)
    BY DEF Refilled, all
  <2> QED BY <2>1, <1>4, <1>5, LesserFact
<1> HIDE DEF all
<1>7. Refilled(n) \in Nat
  BY <1>4, <1>5, <1>6
<1>8. Refilled(n) <= Capacity \/ Refilled(n) <= n
  BY <1>5, <1>6
<1> QED BY <1>6, <1>7, <1>8 DEF all

(* A sleep fits into its type: it is never negative and never longer than   *)
(* half a second.                                                           *)
LEMMA SleepFact ==
  ASSUME NEW deficit \in Nat
  PROVE  SleepTime(deficit) \in 0 .. LongSleep
<1>1. Rate \in Nat /\ Rate > 0 /\ LongSleep \in Nat
  BY RateAssumption, TicksAssumption
<1>2. deficit + Rate - 1 \in Nat
  BY <1>1
<1>3. (deficit + Rate - 1) \div Rate \in Nat
  BY <1>1, <1>2
<1> QED BY <1>1, <1>3, LesserFact DEF SleepTime

(* A worker inside acquire asks for one of the sizes.                       *)
LEMMA RequestFact ==
  ASSUME TypeOK, NEW w \in Workers, request[w] > 0
  PROVE  request[w] \in Requests /\ request[w] \in Nat
<1>1. request[w] \in Requests \cup {0}
  BY DEF TypeOK
<1>2. request[w] # 0
  <2>1. CASE request[w] = 0
    <3>1. 0 > 0
      BY <2>1
    <3> QED BY <3>1
  <2> QED BY <2>1
<1> QED BY <1>1, <1>2, RequestsAssumption

(* Every variable keeps its type (acquire and set_limit of SpeedLimiter).   *)
LEMMA TypeStep == TypeOK /\ [Next]_vars => TypeOK'
<1> SUFFICES ASSUME TypeOK, [Next]_vars PROVE TypeOK'
  OBVIOUS
<1> USE DEF TypeOK
<1>1. CASE UNCHANGED vars
  BY <1>1 DEF vars
<1>2. ASSUME NEW w \in Workers, NEW n \in Requests, Acquire(w, n) PROVE TypeOK'
  BY <1>2 DEF Acquire
<1>3. ASSUME NEW w \in Workers, Grant(w) PROVE TypeOK'
  <2>1. request[w] \in Requests /\ request[w] \in Nat
    BY <1>3, RequestFact DEF Grant
  <2>2. Refilled(request[w]) \in Nat
    BY <2>1, RefilledFact
  <2>3. tokens' \in Nat /\ backlog' \in Nat
    BY <1>3, <2>1, <2>2 DEF Grant
  <2>4. elapsed' \in 0 .. MaxElapsed
    BY <1>3, TicksAssumption DEF Grant, SinceRefill
  <2> QED BY <1>3, <2>3, <2>4 DEF Grant
<1>4. ASSUME NEW w \in Workers, Sleep(w) PROVE TypeOK'
  <2>1. request[w] \in Requests /\ request[w] \in Nat
    BY <1>4, RequestFact DEF Sleep
  <2>2. Refilled(request[w]) \in Nat
    BY <2>1, RefilledFact
  <2>3. request[w] - Refilled(request[w]) \in Nat
    BY <1>4, <2>1, <2>2 DEF Sleep
  <2>4. SleepTime(request[w] - Refilled(request[w])) \in 0 .. LongSleep
    BY <2>3, SleepFact
  <2>5. elapsed' \in 0 .. MaxElapsed
    BY <1>4, TicksAssumption DEF Sleep, SinceRefill
  <2> QED BY <1>4, <2>2, <2>4, <2>5 DEF Sleep
<1>5. CASE Tick
  <2>1. elapsed' \in 0 .. MaxElapsed
    BY <1>5, TicksAssumption DEF Tick
  <2>2. sleep' \in [Workers -> 0 .. LongSleep]
    BY <1>5, TicksAssumption DEF Tick, Greater
  <2>3. backlog' \in Nat
    BY <1>5, RateAssumption DEF Tick, Greater
  <2> QED BY <1>5, <2>1, <2>2, <2>3 DEF Tick
<1> QED BY <1>1, <1>2, <1>3, <1>4, <1>5 DEF Next, Look

LEMMA TypeInit == Init => TypeOK
BY RateAssumption, TicksAssumption DEF Init, TypeOK

THEOREM TypeCorrect == Spec => []TypeOK
BY TypeInit, TypeStep, PTL DEF Spec

(* The bound of RateKept for some burst: the capacity or one of the         *)
(* requests.                                                                *)
Burst(b) == b = Capacity \/ b \in Requests

(* What is in the bucket, what time has earned, and what is still to drain  *)
(* make at most one burst, unless all has drained; and the bucket alone     *)
(* never holds more than a burst.  RateKept itself says nothing of tokens,  *)
(* so it is not inductive.                                                  *)
InOneBurst(level, gained, owed) ==
  \/ owed = 0 /\ \E b \in Nat : Burst(b) /\ level <= b
  \/ \E b \in Nat : Burst(b) /\ level + gained + owed <= b

RateInv == InOneBurst(tokens, elapsed * Rate, backlog)

LEMMA RateInit == Init => RateInv
<1> SUFFICES ASSUME Init PROVE RateInv
  OBVIOUS
<1>1. Capacity \in Nat /\ Burst(Capacity) /\ tokens <= Capacity /\ backlog = 0
  BY RateAssumption DEF Init, Burst
<1> QED BY <1>1 DEF RateInv, InOneBurst

(* A refill followed by taking n tokens, or none, keeps to one burst.       *)
LEMMA RefillKeeps ==
  ASSUME TypeOK, RateInv, NEW n \in Requests
  PROVE  /\ InOneBurst(Refilled(n), 0, backlog)
         /\ Refilled(n) >= n => InOneBurst(Refilled(n) - n, 0, backlog + n)
<1>1. n \in Nat /\ n > 0 /\ Capacity \in Nat /\ backlog \in Nat /\ tokens \in Nat
  BY RequestsAssumption, RateAssumption DEF TypeOK
<1>2. elapsed * Rate \in Nat
  BY RateAssumption, TicksAssumption DEF TypeOK
<1>3. /\ Refilled(n) \in Nat /\ Refilled(n) <= tokens + elapsed * Rate
      /\ Refilled(n) <= Capacity \/ Refilled(n) <= n
  BY RefilledFact
<1>4. \E b \in Nat : Burst(b) /\ Refilled(n) <= b
  BY <1>1, <1>3 DEF Burst
<1>5. CASE backlog = 0
  <2>1. PICK b \in Nat : Burst(b) /\ Refilled(n) <= b
    BY <1>4
  <2>2. Refilled(n) - n + 0 + (backlog + n) <= b
    BY <1>1, <1>3, <1>5, <2>1
  <2> QED BY <1>4, <1>5, <2>1, <2>2 DEF InOneBurst
<1>6. CASE backlog # 0
  <2>1. PICK b \in Nat : Burst(b) /\ tokens + elapsed * Rate + backlog <= b
    BY <1>6 DEF RateInv, InOneBurst
  <2>2. Refilled(n) + 0 + backlog <= b /\ Refilled(n) - n + 0 + (backlog + n) <= b
    BY <1>1, <1>2, <1>3, <2>1
  <2> QED BY <2>1, <2>2 DEF InOneBurst
<1> QED BY <1>5, <1>6

LEMMA RateStep == TypeOK /\ RateInv /\ [Next]_vars => RateInv'
<1> SUFFICES ASSUME TypeOK, RateInv, [Next]_vars PROVE RateInv'
  OBVIOUS
<1>1. CASE UNCHANGED vars
  BY <1>1 DEF vars, RateInv
<1>2. ASSUME NEW w \in Workers, NEW n \in Requests, Acquire(w, n) PROVE RateInv'
  BY <1>2 DEF Acquire, RateInv
<1>3. ASSUME NEW w \in Workers, Look(w) PROVE RateInv'
  <2>1. request[w] \in Requests /\ request[w] \in Nat /\ Rate \in Nat
    BY <1>3, RequestFact, RateAssumption DEF Look, Grant, Sleep
  <2>2. elapsed' * Rate = 0
    BY <1>3, <2>1 DEF Look, Grant, Sleep, SinceRefill
  <2>3. CASE Grant(w)
    BY <2>1, <2>2, <2>3, RefillKeeps DEF Grant, RateInv
  <2>4. CASE Sleep(w)
    BY <2>1, <2>2, <2>4, RefillKeeps DEF Sleep, RateInv
  <2> QED BY <1>3, <2>3, <2>4 DEF Look
<1>4. CASE Tick
  <2>1. Rate \in Nat /\ elapsed \in Nat /\ tokens \in Nat /\ backlog \in Nat
    BY RateAssumption, TicksAssumption DEF TypeOK
  <2>2. elapsed' * Rate = elapsed * Rate + Rate /\ elapsed * Rate \in Nat
    BY <1>4, <2>1 DEF Tick
  <2>3. tokens' = tokens /\ backlog' = IF backlog > Rate THEN backlog - Rate ELSE 0
    BY <1>4, <2>1 DEF Tick, Greater
  <2>4. \E b \in Nat : Burst(b) /\ tokens <= b
    BY <2>1, <2>2 DEF RateInv, InOneBurst
  <2>5. CASE backlog > Rate
    <3>1. PICK b \in Nat : Burst(b) /\ tokens + elapsed * Rate + backlog <= b
      BY <2>1, <2>5 DEF RateInv, InOneBurst
    <3>2. tokens' + elapsed' * Rate + backlog' <= b
      BY <2>1, <2>2, <2>3, <2>5, <3>1
    <3> QED BY <3>1, <3>2 DEF RateInv, InOneBurst
  <2>6. CASE ~(backlog > Rate)
    BY <2>3, <2>4, <2>6 DEF RateInv, InOneBurst
  <2> QED BY <2>5, <2>6
<1> QED BY <1>1, <1>2, <1>3, <1>4 DEF Next

LEMMA RateInvImplies == TypeOK /\ RateInv => RateKept
<1> SUFFICES ASSUME TypeOK, RateInv PROVE RateKept
  OBVIOUS
<1>1. tokens \in Nat /\ backlog \in Nat /\ elapsed * Rate \in Nat /\ Capacity \in Nat
  BY RateAssumption, TicksAssumption DEF TypeOK
<1>2. PICK b \in Nat : Burst(b) /\ backlog <= b
  BY <1>1 DEF RateInv, InOneBurst
<1> QED BY <1>2 DEF Burst, RateKept

(* Over any stretch of time the workers are granted no more than the rate   *)
(* allows and one burst (acquire: "consumption stays under the rate"), for  *)
(* every rate, capacity, number of workers and size of requests.            *)
THEOREM RateAlwaysKept == Spec => []RateKept
<1>1. Spec => [](TypeOK /\ RateInv)
  BY TypeInit, TypeStep, RateInit, RateStep, PTL DEF Spec
<1> QED BY <1>1, RateInvImplies, PTL


-----------------------------------------------------------------------------
(* The settings.  Between two saves the file says what the user wants, and  *)
(* so does the application while it runs, unless something went wrong.      *)
FileInv(s) == phase # "saving" => ~torn /\ Prefs(s)!Loaded = wanted

SettingsInv(s) ==
  /\ Prefs(s)!TypeOK /\ Prefs(s)!PromptsOnce
  /\ ~MayGoWrong(s) => FileInv(s) /\ Prefs(s)!ChoicesKept

LEMMA FullFile ==
  ASSUME NEW s, NEW f \in Prefs(s)!Settings
  PROVE  f \in Prefs(s)!Stored /\ DOMAIN f = Keys
BY DEF Prefs!Settings, Prefs!Stored

LEMMA EditedFile ==
  ASSUME NEW s, NEW f \in Prefs(s)!Stored
  PROVE  [k \in Keys |-> IF k \in DOMAIN f THEN f[k] ELSE Default] \in Prefs(s)!Settings
BY SettingsAssumption DEF Prefs!Settings, Prefs!Stored

LEMMA LoadedType ==
  ASSUME NEW s, Prefs(s)!TypeOK
  PROVE  Prefs(s)!Loaded \in Prefs(s)!Settings
BY SettingsAssumption DEF Prefs!TypeOK, Prefs!Loaded, Prefs!Settings, Prefs!Stored

LEMMA MergedType ==
  ASSUME NEW s, NEW f \in Prefs(s)!Settings, NEW g \in Prefs(s)!Settings
  PROVE  [k \in Keys |-> IF k \in InDialog THEN f[k] ELSE g[k]] \in Prefs(s)!Settings
BY DEF Prefs!Settings

LEMMA SettingsTyped ==
  ASSUME NEW s, Prefs(s)!TypeOK, [Prefs(s)!Next]_settingsVars
  PROVE  Prefs(s)!TypeOK'
<1> USE DEF Prefs!TypeOK
<1>1. CASE Prefs(s)!StartUp
  BY <1>1, LoadedType DEF Prefs!StartUp
<1>2. CASE \/ Prefs(s)!OpenSettings \/ Prefs(s)!Cancel \/ Prefs(s)!SaveFails \/ Prefs(s)!Quit
           \/ Prefs(s)!Kill \/ UNCHANGED settingsVars
  BY <1>2 DEF Prefs!OpenSettings, Prefs!Cancel, Prefs!SaveFails, Prefs!Quit, Prefs!Kill, settingsVars
<1>3. CASE Prefs(s)!SaveSettings
  BY <1>3, FullFile DEF Prefs!SaveSettings
<1>4. ASSUME NEW new \in Prefs(s)!Settings, Prefs(s)!Accept(new)
      PROVE  Prefs(s)!TypeOK'
  <2>1. Prefs(s)!GetSettings(new) \in Prefs(s)!Settings
    BY MergedType DEF Prefs!GetSettings
  <2>2. [k \in Keys |-> IF k \in InDialog THEN new[k] ELSE wanted[k]] \in Prefs(s)!Settings
    BY MergedType
  <2>3. Prefs(s)!Connected(Prefs(s)!GetSettings(new)) \in Nat
    BY DEF Prefs!Connected
  <2> QED BY <1>4, <2>1, <2>2, <2>3 DEF Prefs!Accept
<1>5. ASSUME NEW f \in Prefs(s)!Stored, Prefs(s)!EditFile(f)
      PROVE  Prefs(s)!TypeOK'
  BY <1>5, EditedFile DEF Prefs!EditFile
<1> QED BY <1>1, <1>2, <1>3, <1>4, <1>5 DEF Prefs!Next

LEMMA PromptedOnce ==
  ASSUME NEW s, Prefs(s)!PromptsOnce, [Prefs(s)!Next]_settingsVars
  PROVE  Prefs(s)!PromptsOnce'
<1> USE DEF Prefs!PromptsOnce
<1>1. CASE Prefs(s)!StartUp
  BY <1>1 DEF Prefs!StartUp
<1>2. CASE \/ Prefs(s)!OpenSettings \/ Prefs(s)!Cancel \/ Prefs(s)!SaveSettings \/ Prefs(s)!SaveFails
           \/ Prefs(s)!Quit \/ Prefs(s)!Kill \/ UNCHANGED settingsVars
  BY <1>2 DEF Prefs!OpenSettings, Prefs!Cancel, Prefs!SaveSettings, Prefs!SaveFails, Prefs!Quit,
              Prefs!Kill, settingsVars
<1>3. ASSUME NEW new \in Prefs(s)!Settings, Prefs(s)!Accept(new)
      PROVE  Prefs(s)!PromptsOnce'
  BY <1>3 DEF Prefs!Accept, Prefs!Connected
<1>4. ASSUME NEW f \in Prefs(s)!Stored, Prefs(s)!EditFile(f)
      PROVE  Prefs(s)!PromptsOnce'
  BY <1>4 DEF Prefs!EditFile
<1> QED BY <1>1, <1>2, <1>3, <1>4 DEF Prefs!Next

LEMMA ChoicesStay ==
  ASSUME NEW s, ~MayGoWrong(s), Prefs(s)!TypeOK, FileInv(s), Prefs(s)!ChoicesKept,
         [Prefs(s)!Next]_settingsVars
  PROVE  FileInv(s)' /\ Prefs(s)!ChoicesKept'
<1> USE DEF FileInv, Prefs!ChoicesKept
<1>1. UNCHANGED <<file, torn>> => Prefs(s)!Loaded' = Prefs(s)!Loaded
  BY DEF Prefs!Loaded
<1>2. CASE \/ Prefs(s)!StartUp \/ Prefs(s)!OpenSettings \/ Prefs(s)!Cancel \/ Prefs(s)!Quit
           \/ UNCHANGED settingsVars
  BY <1>1, <1>2 DEF Prefs!StartUp, Prefs!OpenSettings, Prefs!Cancel, Prefs!Quit, Prefs!TypeOK,
                    settingsVars
<1>3. CASE Prefs(s)!SaveSettings
  <2>1. settings \in Prefs(s)!Settings /\ file' = settings /\ torn' = FALSE /\ settings = wanted
        /\ UNCHANGED <<settings, wanted>>
    BY <1>3 DEF Prefs!SaveSettings, Prefs!TypeOK
  <2>2. Prefs(s)!Loaded' = settings
    BY <2>1, FullFile DEF Prefs!Loaded, Prefs!Settings
  <2> QED BY <2>1, <2>2
<1>4. ASSUME NEW new \in Prefs(s)!Settings, Prefs(s)!Accept(new)
      PROVE  FileInv(s)' /\ Prefs(s)!ChoicesKept'
  <2>1. settings = wanted /\ phase' = "saving" /\ settings' = Prefs(s)!GetSettings(new)
        /\ wanted' = [k \in Keys |-> IF k \in InDialog THEN new[k] ELSE wanted[k]]
    BY <1>4 DEF Prefs!Accept
  <2> QED BY <2>1 DEF Prefs!GetSettings
<1>5. ASSUME NEW f \in Prefs(s)!Stored, Prefs(s)!EditFile(f)
      PROVE  FileInv(s)' /\ Prefs(s)!ChoicesKept'
  <2>1. phase = "down" /\ phase' = "down" /\ file' = f /\ torn' = FALSE
        /\ wanted' = [k \in Keys |-> IF k \in DOMAIN f THEN f[k] ELSE Default]
    BY <1>5 DEF Prefs!EditFile
  <2>2. Prefs(s)!Loaded' = wanted'
    BY <2>1 DEF Prefs!Loaded
  <2> QED BY <2>1, <2>2
<1>6. ~Prefs(s)!SaveFails /\ ~Prefs(s)!Kill
  BY DEF Prefs!SaveFails, Prefs!Kill
<1> QED BY <1>2, <1>3, <1>4, <1>5, <1>6 DEF Prefs!Next

LEMMA SettingsStart ==
  ASSUME NEW s, Prefs("settings")!Init
  PROVE  SettingsInv(s)
<1>1. /\ phase = "down" /\ file \in Prefs(s)!Stored /\ torn = FALSE /\ connected = 0
      /\ settings = [k \in Keys |-> Default] /\ wanted = Prefs(s)!Loaded
  BY DEF Prefs!Init, Prefs!Stored, Prefs!Loaded
<1>2. settings \in Prefs(s)!Settings
  BY <1>1, SettingsAssumption DEF Prefs!Settings
<1>3. wanted \in Prefs(s)!Settings
  BY <1>1, SettingsAssumption DEF Prefs!Loaded, Prefs!Settings, Prefs!Stored
<1> QED BY <1>1, <1>2, <1>3
        DEF SettingsInv, FileInv, Prefs!TypeOK, Prefs!PromptsOnce, Prefs!ChoicesKept

SettingsSteady == \A s \in {"settings", "faults"} : subject = s => SettingsInv(s)

(* For any keys and values: what the user chose last, in the dialog or in   *)
(* the file while the application was closed, is what the application runs  *)
(* with, as long as nothing fails (_deep_merge, get_settings); and whatever *)
(* fails, the clipboard's signal is connected once while its setting is on, *)
(* and not at all while it is off (apply_settings).                         *)
THEOREM SettingsAlwaysRight == DeskSpec => []SettingsRight
<1>1. DeskInit => SettingsSteady
  BY SettingsStart DEF DeskInit, SettingsSteady
<1>2. SettingsSteady /\ [DeskNext]_allVars => SettingsSteady'
  <2> SUFFICES ASSUME SettingsSteady, [DeskNext]_allVars,
                      NEW s \in {"settings", "faults"}, subject' = s
               PROVE  SettingsInv(s)'
    BY DEF SettingsSteady
  <2>1. subject = s /\ [Prefs(s)!Next]_settingsVars
    BY DEF DeskNext, About, Limiter, Window, Settings, Volumes, allVars
  <2>2. SettingsInv(s)
    BY <2>1 DEF SettingsSteady
  <2> QED BY <2>1, <2>2, SettingsTyped, PromptedOnce, ChoicesStay DEF SettingsInv, MayGoWrong
<1>3. SettingsSteady => SettingsRight
  BY DEF SettingsSteady, SettingsRight, SettingsInv
<1> QED BY <1>1, <1>2, <1>3, PTL DEF DeskSpec

-----------------------------------------------------------------------------
(* The volumes, with one torrent.                                           *)
St    == state[Torrent]
Home  == save_path[Torrent]
Dest  == moving[Torrent]
Got   == done[Torrent]
Over  == copied[Torrent]
Ahead == early[Torrent]
Unchecked == unchecked[Torrent]

(* What a volume takes. *)
Takes(v) == IF v = AppData THEN AppSpace ELSE DriveSpace

(* A check counts for one folder: that of a move for what is there already, *)
(* that of the metadata for the whole torrent, unless it is moving.         *)
FitsWhere ==
  /\ St \in {"absent", "metadata"} => Got = 0 /\ Ahead = 0
  /\ St = "absent" => Dest = None
  /\ Dest = None => Over = 0
  /\ Dest # None => Dest # Home /\ Got + Headroom <= Takes(Dest)
  /\ Dest # None /\ ~Unchecked => Got = size[Torrent]
  /\ St = "arrived" \/ (St = "ready" /\ ~Unchecked) => Got + Headroom <= Takes(Home) + Ahead
  /\ St = "ready" /\ ~Unchecked /\ ~paused[Torrent] => size[Torrent] + Headroom <= Takes(Home)

Stands(v) == v \in chosen \/ (v = AppData /\ None \in chosen)

(* A folder in use, in force or on its way was chosen. *)
FoldersChosen ==
  /\ configured \in chosen
  /\ default_save_path # None => Stands(default_save_path)
  /\ St # "absent" => Stands(Home)
  /\ Dest # None => Dest \in chosen

SpaceInv == Space!TypeOK /\ FitsWhere /\ FoldersChosen

LEMMA SpaceNumbers ==
  ASSUME Space!TypeOK
  PROVE  /\ Headroom \in Nat /\ Early \in Nat /\ size[Torrent] \in Nat /\ Got \in Nat /\ Over \in Nat
         /\ Ahead \in Nat /\ Got <= size[Torrent] /\ Over <= Got
         /\ \A v : Takes(v) \in Nat /\ Headroom <= Takes(v)
<1>1. Headroom \in Nat /\ Early \in Nat
  BY SpaceAssumption
<1>2. \A v : Takes(v) \in Nat /\ Headroom <= Takes(v)
  BY SpaceAssumption DEF Takes
<1>3. size[Torrent] \in Nat
  BY SpaceAssumption DEF Space!TypeOK
<1>4. Got \in Nat /\ Got <= size[Torrent]
  BY <1>3 DEF Space!TypeOK, Got
<1>5. Over \in Nat /\ Over <= Got
  BY <1>4 DEF Space!TypeOK, Got, Over
<1>6. Ahead \in Nat
  BY <1>1 DEF Space!TypeOK, Ahead
<1> QED BY <1>1, <1>2, <1>3, <1>4, <1>5, <1>6

(* A sum over no folder, and over one. *)
LEMMA NoSum == \A f : Space!SumFunctionOnSet(f, {}) = 0
<1> TAKE f
<1> DEFINE IsSum(g) == g = [s \in SUBSET {} |-> IF s = {} THEN 0
                             ELSE f[CHOOSE y \in s : TRUE] + g[s \ {CHOOSE y \in s : TRUE}]]
<1>1. IsSum([s \in SUBSET {} |-> 0])
  OBVIOUS
<1>2. PICK h : IsSum(h) /\ Space!SumFunctionOnSet(f, {}) = h[{}]
  BY <1>1 DEF Space!SumFunctionOnSet, Space!FoldFunctionOnSet, Space!MapThenFoldSet
<1> QED BY <1>2

LEMMA OneSum ==
  ASSUME NEW f, NEW x, f[x] \in Int
  PROVE  Space!SumFunctionOnSet(f, {x}) = f[x]
<1> DEFINE IsSum(g) == g = [s \in SUBSET {x} |-> IF s = {} THEN 0
                             ELSE f[CHOOSE y \in s : TRUE] + g[s \ {CHOOSE y \in s : TRUE}]]
           g0 == [s \in SUBSET {x} |-> IF s = {} THEN 0 ELSE f[x]]
<1>1. ASSUME NEW s \in SUBSET {x}, s # {}
      PROVE  (CHOOSE y \in s : TRUE) = x /\ s \ {x} = {}
  OBVIOUS
<1>2. IsSum(g0)
  <2>1. ASSUME NEW s \in SUBSET {x}
        PROVE  g0[s] = IF s = {} THEN 0
                       ELSE f[CHOOSE y \in s : TRUE] + g0[s \ {CHOOSE y \in s : TRUE}]
    BY <1>1
  <2> QED BY <2>1
<1>3. PICK h : IsSum(h) /\ Space!SumFunctionOnSet(f, {x}) = h[{x}]
  BY <1>2 DEF Space!SumFunctionOnSet, Space!FoldFunctionOnSet, Space!MapThenFoldSet
<1>4. h[{}] = 0 /\ h[{x}] = f[x] + h[{}]
  BY <1>1, <1>3
<1> QED BY <1>3, <1>4

LEMMA FreeIs ==
  ASSUME Space!TypeOK, NEW v
  PROVE  Space!Free(v) = Takes(v) - ((IF Home = v THEN Got ELSE 0) + (IF Dest = v THEN Over ELSE 0))
<1> DEFINE f == [t \in {Torrent} |-> (IF save_path[t] = v THEN done[t] ELSE 0)
                                     + (IF moving[t] = v THEN copied[t] ELSE 0)]
<1>1. f[Torrent] = (IF Home = v THEN Got ELSE 0) + (IF Dest = v THEN Over ELSE 0)
  BY DEF Home, Got, Dest, Over
<1>2. f[Torrent] \in Int
  BY <1>1, SpaceNumbers
<1>3. Space!Used(v) = Space!SumFunctionOnSet(f, {Torrent})
  BY DEF Space!Used
<1> HIDE DEF f
<1>4. Space!Used(v) = f[Torrent]
  BY <1>2, <1>3, OneSum
<1> QED BY <1>1, <1>4 DEF Space!Free, Takes

LEMMA HeadroomLeft ==
  ASSUME Space!TypeOK, FitsWhere
  PROVE  Space!HeadroomKept
<1> SUFFICES ASSUME NEW v \in Drives
             PROVE  LET inUse == { t \in {Torrent} : v \in {save_path[t], moving[t]} /\ state[t] # "absent" } IN
                    \/ \E t \in inUse : unchecked[t]
                    \/ Space!Free(v) + Space!SumFunctionOnSet(early, inUse) >= Headroom
  BY DEF Space!HeadroomKept
<1> DEFINE inUse == { t \in {Torrent} : v \in {save_path[t], moving[t]} /\ state[t] # "absent" }
<1>0. v # None
  BY SpaceAssumption
<1>1. CASE v \in {Home, Dest} /\ St # "absent"
  <2>1. inUse = {Torrent}
    BY <1>1 DEF Home, Dest, St
  <2>2. Space!SumFunctionOnSet(early, inUse) = Ahead
    BY <2>1, OneSum, SpaceNumbers DEF Ahead
  <2>3. Unchecked \/ Space!Free(v) + Ahead >= Headroom
    <3>1. SUFFICES ASSUME ~Unchecked PROVE Space!Free(v) + Ahead >= Headroom
      OBVIOUS
    <3>2. St \in {"absent", "metadata", "arrived", "ready"}
      BY DEF Space!TypeOK, St
    <3>3. CASE v = Home
      <4>1. Dest # v
        BY <1>0, <3>3 DEF FitsWhere
      <4>2. Space!Free(v) = Takes(v) - Got
        BY <3>3, <4>1, FreeIs, SpaceNumbers
      <4>3. Got + Headroom <= Takes(v) + Ahead
        BY <1>1, <3>1, <3>2, <3>3, SpaceNumbers DEF FitsWhere
      <4> QED BY <4>2, <4>3, SpaceNumbers
    <3>4. CASE v = Dest /\ v # Home
      <4>1. Space!Free(v) = Takes(v) - Over
        BY <3>4, FreeIs, SpaceNumbers
      <4>2. Got + Headroom <= Takes(v)
        BY <1>0, <3>4 DEF FitsWhere
      <4> QED BY <4>1, <4>2, SpaceNumbers
    <3> QED BY <1>1, <3>3, <3>4
  <2> QED BY <2>1, <2>2, <2>3 DEF Unchecked
<1>2. CASE ~(v \in {Home, Dest} /\ St # "absent")
  <2>1. inUse = {}
    BY <1>2 DEF Home, Dest, St
  <2>2. Space!SumFunctionOnSet(early, inUse) = 0
    BY <2>1, NoSum
  <2>3. Space!Free(v) = Takes(v)
    <3>1. CASE St = "absent"
      BY <1>0, <3>1, FreeIs, SpaceNumbers DEF FitsWhere
    <3>2. CASE Home # v /\ Dest # v
      BY <3>2, FreeIs, SpaceNumbers
    <3> QED BY <1>2, <3>1, <3>2
  <2> QED BY <2>2, <2>3, SpaceNumbers
<1> QED BY <1>1, <1>2

LEMMA SpaceStarts ==
  ASSUME Space!Init
  PROVE  SpaceInv
<1>1. St = "absent" /\ Got = 0 /\ Over = 0 /\ Ahead = 0 /\ Dest = None
  BY DEF Space!Init, St, Got, Over, Ahead, Dest
<1>2. FitsWhere
  BY <1>1 DEF FitsWhere
<1>3. FoldersChosen
  BY <1>1 DEF Space!Init, Space!resolve_dir, FoldersChosen, Stands
<1>4. Space!TypeOK
  <2>1. \A t \in {Torrent} : size[t] \in Nat /\ done[t] = 0 /\ copied[t] = 0
    BY SpaceAssumption DEF Space!Init
  <2>2. (unavailable_path = None) <=> (default_save_path # None)
    BY SpaceAssumption DEF Space!Init, Space!resolve_dir
  <2>3. {configured, default_save_path, unavailable_path} \subseteq Drives \cup {None}
    BY SpaceAssumption DEF Space!Init, Space!resolve_dir
  <2>4. 0 \in 0 .. Early
    BY SpaceAssumption
  <2>5. plugged \subseteq Drives /\ AppData \in plugged /\ chosen \subseteq Drives \cup {None}
    BY DEF Space!Init
  <2>6. /\ state \in [{Torrent} -> {"absent", "metadata", "arrived", "ready"}]
        /\ size \in [{Torrent} -> Sizes] /\ paused \in [{Torrent} -> BOOLEAN]
        /\ save_path \in [{Torrent} -> Drives] /\ moving \in [{Torrent} -> Drives \cup {None}]
        /\ done \in [{Torrent} -> Nat] /\ copied \in [{Torrent} -> Nat]
        /\ unchecked \in [{Torrent} -> BOOLEAN] /\ early \in [{Torrent} -> 0 .. Early]
    BY <2>4, SpaceAssumption DEF Space!Init
  <2> QED BY <2>1, <2>2, <2>3, <2>5, <2>6 DEF Space!TypeOK
<1> QED BY <1>2, <1>3, <1>4 DEF SpaceInv

(* What leaves the torrent as it is keeps what it needs. *)
LEMMA SameTorrent ==
  ASSUME FitsWhere, UNCHANGED Space!torrents
  PROVE  FitsWhere'
BY DEF Space!torrents, FitsWhere, St, Home, Dest, Got, Over, Ahead, Unchecked

LEMMA SameFolders ==
  ASSUME FoldersChosen, UNCHANGED <<state, save_path, moving, default_save_path, configured>>,
         chosen \subseteq chosen'
  PROVE  FoldersChosen'
BY DEF FoldersChosen, Stands, St, Home, Dest

(* A folder that is resolved anew was chosen, or none was. *)
LEMMA Resolved ==
  ASSUME NEW c \in Drives \cup {None}, c \in chosen', Space!resolve_dir(c) # None
  PROVE  \/ Space!resolve_dir(c) \in chosen'
         \/ Space!resolve_dir(c) = AppData /\ None \in chosen'
BY SpaceAssumption DEF Space!resolve_dir

LEMMA FoldersStep ==
  ASSUME SpaceInv,
         \/ Space!Restart
         \/ \E c \in Drives \cup {None} : Space!ApplySettings(c)
         \/ \E v \in Drives : Space!Unplug(v) \/ Space!Replug(v)
  PROVE  SpaceInv'
<1> USE DEF SpaceInv
<1>1. UNCHANGED Space!torrents
  BY DEF Space!Restart, Space!ApplySettings, Space!Unplug, Space!Replug
<1>2. FitsWhere'
  BY <1>1, SameTorrent
<1>3. UNCHANGED <<state, save_path, moving>>
  BY <1>1 DEF Space!torrents
<1>4. ASSUME plugged' \subseteq Drives, AppData \in plugged', chosen' \subseteq Drives \cup {None},
             {configured', default_save_path', unavailable_path'} \subseteq Drives \cup {None},
             (unavailable_path' = None) <=> (default_save_path' # None)
      PROVE  Space!TypeOK'
  BY <1>1, <1>4 DEF Space!TypeOK, Space!torrents
<1>5. ASSUME NEW c \in Drives \cup {None}, c \in chosen', chosen \subseteq chosen', configured' \in chosen',
             \/ default_save_path' = Space!resolve_dir(c)
             \/ UNCHANGED default_save_path
      PROVE  FoldersChosen'
  <2>1. ASSUME default_save_path' # None PROVE Stands(default_save_path)'
    <3>1. CASE default_save_path' = Space!resolve_dir(c)
      BY <1>5, <2>1, <3>1, Resolved DEF Stands
    <3>2. CASE UNCHANGED default_save_path
      BY <1>5, <2>1, <3>2 DEF FoldersChosen, Stands
    <3> QED BY <1>5, <3>1, <3>2
  <2> QED BY <1>3, <1>5, <2>1 DEF FoldersChosen, Stands, St, Home, Dest
<1>6. CASE Space!Restart
  <2>1. /\ UNCHANGED <<plugged, configured, chosen>>
        /\ default_save_path' = Space!resolve_dir(configured)
        /\ unavailable_path' = IF Space!resolve_dir(configured) = None THEN configured ELSE None
    BY <1>6 DEF Space!Restart, Space!Opened
  <2>2. configured \in Drives \cup {None} /\ configured \in chosen
    BY DEF Space!TypeOK, FoldersChosen
  <2>3. FoldersChosen'
    BY <1>5, <2>1, <2>2
  <2>4. Space!resolve_dir(configured) \in Drives \cup {None} /\ (configured = None => Space!resolve_dir(configured) # None)
    BY <2>2, SpaceAssumption DEF Space!resolve_dir
  <2>5. Space!TypeOK'
    BY <1>4, <2>1, <2>2, <2>4 DEF Space!TypeOK
  <2> QED BY <1>2, <2>3, <2>5
<1>7. ASSUME NEW c \in Drives \cup {None}, Space!ApplySettings(c) PROVE SpaceInv'
  <2>1. configured' = c /\ chosen' = chosen \cup {c} /\ UNCHANGED plugged
    BY <1>7 DEF Space!ApplySettings
  <2>2. \/ /\ Space!resolve_dir(c) # None
           /\ default_save_path' = Space!resolve_dir(c) /\ unavailable_path' = None
        \/ UNCHANGED <<default_save_path, unavailable_path>>
    BY <1>7 DEF Space!ApplySettings
  <2>3. FoldersChosen'
    BY <1>5, <2>1, <2>2
  <2>4. Space!resolve_dir(c) \in Drives \cup {None}
    BY SpaceAssumption DEF Space!resolve_dir
  <2>5. Space!TypeOK'
    BY <1>4, <2>1, <2>2, <2>4 DEF Space!TypeOK
  <2> QED BY <1>2, <2>3, <2>5
<1>8. ASSUME NEW v \in Drives, Space!Unplug(v) \/ Space!Replug(v) PROVE SpaceInv'
  <2>1. /\ UNCHANGED <<configured, default_save_path, unavailable_path, chosen>>
        /\ plugged' \subseteq Drives /\ AppData \in plugged'
    BY <1>8, SpaceAssumption DEF Space!Unplug, Space!Replug, Space!TypeOK
  <2>2. FoldersChosen'
    BY <1>3, <2>1, SameFolders
  <2>3. Space!TypeOK'
    BY <1>4, <2>1 DEF Space!TypeOK
  <2> QED BY <1>2, <2>2, <2>3
<1> QED BY <1>6, <1>7, <1>8

(* The torrent.  Adding it, to folder d. *)
LEMMA AddingKeeps ==
  ASSUME SpaceInv, NEW d \in Drives, NEW mode \in {"magnet", "file"},
         Space!Added(Torrent, d, mode), chosen' \subseteq Drives \cup {None},
         chosen \subseteq chosen', d \in chosen' \/ (d = AppData /\ None \in chosen')
  PROVE  SpaceInv'
<1> USE DEF SpaceInv
<1>1. /\ St = "absent" /\ save_path' = [save_path EXCEPT ![Torrent] = d]
      /\ state' = [state EXCEPT ![Torrent] = IF mode = "file" THEN "ready" ELSE "metadata"]
      /\ unchecked' = [unchecked EXCEPT ![Torrent] = (mode = "file")]
      /\ paused' = [paused EXCEPT ![Torrent] = FALSE]
      /\ UNCHANGED <<size, done, moving, copied, early>>
      /\ UNCHANGED <<plugged, configured, default_save_path, unavailable_path>>
  BY DEF Space!Added, Space!folders, St
<1>2. Space!TypeOK'
  BY <1>1 DEF Space!TypeOK
<1>3. /\ St' = IF mode = "file" THEN "ready" ELSE "metadata"
      /\ Unchecked' = (mode = "file")
      /\ Home' = d
      /\ UNCHANGED <<Got, Over, Ahead, Dest>>
  BY <1>1 DEF Space!TypeOK, St, Unchecked, Home, Got, Over, Ahead, Dest
<1>4. FitsWhere'
  BY <1>1, <1>3 DEF FitsWhere
<1>5. FoldersChosen'
  BY <1>1, <1>3 DEF FoldersChosen, FitsWhere, Stands
<1> QED BY <1>2, <1>4, <1>5

LEMMA AddStep ==
  ASSUME SpaceInv, NEW mode \in {"magnet", "file"},
         \/ \E v \in Drives \cup {None} : Space!AddTorrent(Torrent, v, mode)
         \/ Space!AcceptDialog(Torrent, mode)
  PROVE  SpaceInv'
<1> USE DEF SpaceInv
<1>1. ASSUME NEW v \in Drives \cup {None}, Space!AddTorrent(Torrent, v, mode) PROVE SpaceInv'
  <2>1. CASE v = None
    <3>1. default_save_path # None /\ default_save_path \in Drives
      BY <1>1, <2>1 DEF Space!AddTorrent, Space!TypeOK
    <3>2. Space!Added(Torrent, default_save_path, mode) /\ chosen' = chosen
      BY <1>1, <2>1 DEF Space!AddTorrent
    <3>3. Stands(default_save_path)
      BY <3>1 DEF FoldersChosen
    <3> QED BY <3>1, <3>2, <3>3, AddingKeeps DEF Stands, Space!TypeOK
  <2>2. CASE v # None
    <3>1. Space!Added(Torrent, v, mode) /\ chosen' = chosen \cup {v} /\ v \in Drives
      BY <1>1, <2>2 DEF Space!AddTorrent
    <3> QED BY <3>1, AddingKeeps DEF Space!TypeOK
  <2> QED BY <2>1, <2>2
<1>2. CASE Space!AcceptDialog(Torrent, mode)
  <2>1. default_save_path # None /\ default_save_path \in Drives
    BY <1>2 DEF Space!AcceptDialog, Space!TypeOK
  <2>2. Space!Added(Torrent, default_save_path, mode) /\ chosen' = chosen
    BY <1>2, <2>1 DEF Space!AcceptDialog
  <2>3. Stands(default_save_path)
    BY <2>1 DEF FoldersChosen
  <2> QED BY <2>1, <2>2, <2>3, AddingKeeps DEF Stands, Space!TypeOK
<1> QED BY <1>1, <1>2

LEMMA PauseStep ==
  ASSUME SpaceInv, Space!PauseTorrent(Torrent) \/ Space!RemoveTorrent(Torrent)
  PROVE  SpaceInv'
<1> USE DEF SpaceInv
<1>1. CASE Space!PauseTorrent(Torrent)
  <2>1. /\ paused' = [paused EXCEPT ![Torrent] = TRUE]
        /\ UNCHANGED <<state, size, save_path, done, moving, copied, unchecked, early, chosen>>
        /\ UNCHANGED <<plugged, configured, default_save_path, unavailable_path>>
    BY <1>1 DEF Space!PauseTorrent, Space!folders
  <2>2. Space!TypeOK'
    BY <2>1 DEF Space!TypeOK
  <2>3. FitsWhere'
    BY <2>1 DEF FitsWhere, Space!TypeOK, St, Unchecked, Home, Got, Over, Ahead, Dest
  <2>4. FoldersChosen'
    BY <2>1, SameFolders
  <2> QED BY <2>2, <2>3, <2>4
<1>2. CASE Space!RemoveTorrent(Torrent)
  <2>1. /\ Dest = None /\ state' = [state EXCEPT ![Torrent] = "absent"]
        /\ done' = [done EXCEPT ![Torrent] = 0] /\ early' = [early EXCEPT ![Torrent] = 0]
        /\ UNCHANGED <<size, paused, save_path, moving, copied, unchecked, chosen>>
        /\ UNCHANGED <<plugged, configured, default_save_path, unavailable_path>>
    BY <1>2 DEF Space!RemoveTorrent, Space!folders, Dest
  <2>2. St' = "absent" /\ Got' = 0 /\ Ahead' = 0 /\ UNCHANGED <<Over, Dest, Home, Unchecked>> /\ Over = 0
    BY <2>1 DEF Space!TypeOK, FitsWhere, St, Unchecked, Home, Got, Over, Ahead, Dest
  <2>3. Space!TypeOK'
    <3>1. 0 \in 0 .. Early
      BY SpaceAssumption
    <3>2. copied[Torrent] = 0
      BY <2>2 DEF Over
    <3>3. size[Torrent] \in Nat
      BY SpaceNumbers
    <3> QED BY <2>1, <3>1, <3>2, <3>3 DEF Space!TypeOK
  <2>4. FitsWhere'
    BY <2>1, <2>2 DEF FitsWhere
  <2>5. FoldersChosen'
    BY <2>1, <2>2 DEF FoldersChosen, Stands
  <2> QED BY <2>3, <2>4, <2>5
<1> QED BY <1>1, <1>2

LEMMA ResumeStep ==
  ASSUME SpaceInv, Space!ResumeTorrent(Torrent)
  PROVE  SpaceInv'
<1> USE DEF SpaceInv
<1>1. /\ paused' = [paused EXCEPT ![Torrent] = FALSE]
      /\ unchecked' = [unchecked EXCEPT ![Torrent] =
                         @ \/ size[Torrent] - done[Torrent] + Headroom > Space!Free(Home)]
      /\ UNCHANGED <<state, size, save_path, done, moving, copied, early, chosen>>
      /\ UNCHANGED <<plugged, configured, default_save_path, unavailable_path>>
  BY DEF Space!ResumeTorrent, Space!folders, Home
<1>2. UNCHANGED <<St, Home, Dest, Got, Over, Ahead>> /\ UNCHANGED size[Torrent]
  BY <1>1 DEF St, Home, Dest, Got, Over, Ahead
<1>3. (size[Torrent] - done[Torrent] + Headroom > Space!Free(Home)) \in BOOLEAN
  OBVIOUS
<1>4. unchecked' \in [{Torrent} -> BOOLEAN]
  <2> DEFINE b == unchecked[Torrent] \/ size[Torrent] - done[Torrent] + Headroom > Space!Free(Home)
  <2>1. b \in BOOLEAN
    OBVIOUS
  <2>2. unchecked' = [unchecked EXCEPT ![Torrent] = b]
    BY <1>1
  <2> HIDE DEF b
  <2> QED BY <2>1, <2>2 DEF Space!TypeOK
<1>5. Space!TypeOK'
  BY <1>1, <1>4 DEF Space!TypeOK
<1>6. Unchecked' <=> Unchecked \/ size[Torrent] - Got + Headroom > Space!Free(Home)
  BY <1>1 DEF Unchecked, Got, Space!TypeOK
<1>7. ~Unchecked' => ~Unchecked /\ ~(size[Torrent] - Got + Headroom > Space!Free(Home))
  BY <1>6
<1>8. ASSUME ~Unchecked', St = "ready" PROVE size[Torrent] + Headroom <= Takes(Home)
  <2>1. Home # None
    BY SpaceAssumption DEF Space!TypeOK, Home
  <2>2. Dest # Home
    BY <2>1 DEF FitsWhere
  <2>3. Space!Free(Home) = Takes(Home) - Got
    BY <2>2, FreeIs, SpaceNumbers
  <2> QED BY <1>7, <1>8, <2>3, SpaceNumbers
<1>9. FitsWhere'
  BY <1>2, <1>7, <1>8 DEF FitsWhere
<1>10. FoldersChosen'
  BY <1>1, SameFolders
<1> QED BY <1>5, <1>9, <1>10

LEMMA MetadataStep ==
  ASSUME SpaceInv, Space!OnMetadataReceived(Torrent)
  PROVE  SpaceInv'
<1> USE DEF SpaceInv
<1> DEFINE fits == Space!check_space(Home, size[Torrent])
           blind == ~Space!Usable(Home) \/ Dest # None
<1>1. /\ St = "arrived" /\ state' = [state EXCEPT ![Torrent] = "ready"]
      /\ paused' = [paused EXCEPT ![Torrent] = @ \/ ~fits]
      /\ unchecked' = [unchecked EXCEPT ![Torrent] = blind]
      /\ UNCHANGED <<size, save_path, done, moving, copied, early, chosen>>
      /\ UNCHANGED <<plugged, configured, default_save_path, unavailable_path>>
  BY DEF Space!OnMetadataReceived, Space!folders, Home, St, Dest
<1>2. UNCHANGED <<Home, Dest, Got, Over, Ahead>> /\ UNCHANGED size[Torrent] /\ St' = "ready"
  BY <1>1 DEF Home, Dest, Got, Over, Ahead, St, Space!TypeOK
<1>3. fits \in BOOLEAN /\ blind \in BOOLEAN
  BY DEF Space!check_space
<1>4. ASSUME ~blind, fits PROVE size[Torrent] + Headroom <= Takes(Home)
  <2>1. Home # None
    BY SpaceAssumption DEF Space!TypeOK, Home
  <2>2. Space!Free(Home) = Takes(Home) - Got
    BY <1>4, <2>1, FreeIs, SpaceNumbers
  <2>3. size[Torrent] + Headroom <= Space!Free(Home)
    BY <1>4 DEF Space!check_space
  <2> QED BY <2>2, <2>3, SpaceNumbers
<1>5. blind => ~Space!Usable(Home) \/ Dest # None
  OBVIOUS
<1>6. ~blind => Dest = None
  OBVIOUS
<1> HIDE DEF fits, blind
<1>7. Unchecked' = blind /\ paused'[Torrent] = (paused[Torrent] \/ ~fits)
  BY <1>1 DEF Unchecked, Space!TypeOK
<1>8. Space!TypeOK'
  <2>1. (paused[Torrent] \/ ~fits) \in BOOLEAN
    BY <1>3
  <2>2. paused' \in [{Torrent} -> BOOLEAN] /\ unchecked' \in [{Torrent} -> BOOLEAN]
    BY <1>1, <1>3, <2>1 DEF Space!TypeOK
  <2>3. state' \in [{Torrent} -> {"absent", "metadata", "arrived", "ready"}]
    BY <1>1 DEF Space!TypeOK
  <2> QED BY <1>1, <2>2, <2>3 DEF Space!TypeOK
<1>9. FitsWhere'
  <2>1. Got + Headroom <= Takes(Home) + Ahead
    BY <1>1 DEF FitsWhere
  <2>2. ~Unchecked' => Dest = None
    BY <1>6, <1>7
  <2>3. ~Unchecked' /\ ~paused'[Torrent] => size[Torrent] + Headroom <= Takes(Home)
    BY <1>4, <1>7
  <2> QED BY <1>1, <1>2, <2>1, <2>2, <2>3 DEF FitsWhere
<1>10. FoldersChosen'
  BY <1>1, <1>2 DEF FoldersChosen, Stands
<1> QED BY <1>8, <1>9, <1>10

LEMMA MoveStep ==
  ASSUME SpaceInv, NEW S \in SUBSET {Torrent}, NEW d \in Drives, Space!MoveTorrents(S, d)
  PROVE  SpaceInv'
<1> USE DEF SpaceInv
<1>1. /\ Torrent \in S /\ Space!MayMove(Torrent, d)
      /\ moving' = [t \in {Torrent} |-> IF t \in S /\ Space!MayMove(t, d) THEN d ELSE moving[t]]
      /\ unchecked' = [t \in {Torrent} |-> unchecked[t] \/ (t \in S /\ Space!MayMove(t, d) /\ done[t] < size[t])]
      /\ chosen' = chosen \cup {d}
      /\ UNCHANGED <<state, size, paused, save_path, done, copied, early>>
      /\ UNCHANGED <<plugged, configured, default_save_path, unavailable_path>>
  BY DEF Space!MoveTorrents, Space!folders
<1>2. /\ Dest' = d /\ UNCHANGED <<St, Home, Got, Over, Ahead>> /\ UNCHANGED <<size, paused>>
  BY <1>1 DEF St, Home, Dest, Got, Over, Ahead
<1>3. Unchecked' <=> Unchecked \/ Got < size[Torrent]
  BY <1>1 DEF Unchecked, Got
<1>4. St # "absent" /\ Dest = None /\ Home # d /\ Space!Usable(d) /\ Space!check_space(d, Got)
  BY <1>1 DEF Space!MayMove, St, Dest, Home, Got
<1>5. Got + Headroom <= Takes(d)
  <2>1. d # None
    BY SpaceAssumption
  <2>2. Space!Free(d) = Takes(d)
    BY <1>4, <2>1, FreeIs, SpaceNumbers
  <2> QED BY <1>4, <2>2 DEF Space!check_space
<1>6. ~Unchecked' => ~Unchecked /\ Got = size[Torrent]
  BY <1>3, SpaceNumbers
<1>7. FitsWhere'
  <2>1. d # None
    BY SpaceAssumption
  <2> QED BY <1>2, <1>4, <1>5, <1>6, <2>1 DEF FitsWhere
<1>8. FoldersChosen'
  BY <1>1, <1>2 DEF FoldersChosen, Stands
<1>9. Space!TypeOK'
  <2>1. moving' \in [{Torrent} -> Drives \cup {None}]
    BY <1>1 DEF Space!TypeOK
  <2>2. unchecked' \in [{Torrent} -> BOOLEAN]
    <3> DEFINE b(t) == unchecked[t] \/ (t \in S /\ Space!MayMove(t, d) /\ done[t] < size[t])
    <3>1. \A t \in {Torrent} : b(t) \in BOOLEAN
      OBVIOUS
    <3>2. unchecked' = [t \in {Torrent} |-> b(t)]
      BY <1>1
    <3> HIDE DEF b
    <3> QED BY <3>1, <3>2
  <2> QED BY <1>1, <2>1, <2>2 DEF Space!TypeOK
<1> QED BY <1>7, <1>8, <1>9

(* What libtorrent does. *)
LEMMA LtStep ==
  ASSUME SpaceInv, Space!Libtorrent(Torrent)
  PROVE  SpaceInv'
<1> USE DEF SpaceInv
<1>1. CASE Space!LtMetadata(Torrent)
  <2>1. /\ St = "metadata" /\ state' = [state EXCEPT ![Torrent] = "arrived"]
        /\ UNCHANGED <<size, paused, save_path, done, moving, copied, unchecked, early, chosen>>
        /\ UNCHANGED <<plugged, configured, default_save_path, unavailable_path>>
    BY <1>1 DEF Space!LtMetadata, Space!folders, St
  <2>2. St' = "arrived" /\ UNCHANGED <<Home, Dest, Got, Over, Ahead, Unchecked>>
    BY <2>1 DEF Space!TypeOK, St, Home, Dest, Got, Over, Ahead, Unchecked
  <2>3. Got + Headroom <= Takes(Home) + Ahead
    BY <2>1, SpaceNumbers DEF FitsWhere
  <2>4. FitsWhere'
    BY <2>1, <2>2, <2>3 DEF FitsWhere
  <2>5. FoldersChosen'
    BY <2>1, <2>2 DEF FoldersChosen, Stands
  <2>6. Space!TypeOK'
    BY <2>1 DEF Space!TypeOK
  <2> QED BY <2>4, <2>5, <2>6
<1>2. CASE Space!LtBlock(Torrent)
  <2>1. /\ ~paused[Torrent] /\ Dest = None /\ Got < size[Torrent]
        /\ \/ St = "ready" /\ UNCHANGED early
           \/ St = "arrived" /\ Ahead < Early /\ early' = [early EXCEPT ![Torrent] = @ + 1]
        /\ done' = [done EXCEPT ![Torrent] = @ + 1]
        /\ UNCHANGED <<state, size, paused, save_path, moving, copied, unchecked, chosen>>
        /\ UNCHANGED <<plugged, configured, default_save_path, unavailable_path>>
    BY <1>2 DEF Space!LtBlock, Space!folders, St, Dest, Got, Ahead
  <2>2. /\ Got' = Got + 1 /\ UNCHANGED <<St, Home, Dest, Over, Unchecked>> /\ UNCHANGED <<size, paused>>
        /\ \/ St = "ready" /\ Ahead' = Ahead
           \/ St = "arrived" /\ Ahead' = Ahead + 1
    BY <2>1 DEF Space!TypeOK, St, Home, Dest, Got, Over, Ahead, Unchecked
  <2>3. St = "arrived" \/ (St = "ready" /\ ~Unchecked) => Got' + Headroom <= Takes(Home) + Ahead'
    <3>1. CASE St = "arrived"
      BY <2>2, <3>1, SpaceNumbers DEF FitsWhere
    <3>2. CASE St = "ready" /\ ~Unchecked
      <4>1. size[Torrent] + Headroom <= Takes(Home)
        BY <2>1, <3>2 DEF FitsWhere
      <4> QED BY <2>1, <2>2, <3>2, <4>1, SpaceNumbers
    <3> QED BY <3>1, <3>2
  <2>4. FitsWhere'
    BY <2>1, <2>2, <2>3 DEF FitsWhere
  <2>5. FoldersChosen'
    BY <2>1, SameFolders
  <2>6. Space!TypeOK'
    <3>1. done' \in [{Torrent} -> Nat] /\ copied'[Torrent] <= done'[Torrent] /\ done'[Torrent] <= size[Torrent]
      BY <2>1, SpaceNumbers DEF Space!TypeOK, Got, Over
    <3>2. early' \in [{Torrent} -> 0 .. Early]
      BY <2>1, SpaceNumbers DEF Space!TypeOK, Ahead
    <3> QED BY <2>1, <3>1, <3>2 DEF Space!TypeOK
  <2> QED BY <2>4, <2>5, <2>6
<1>3. CASE Space!LtCopy(Torrent)
  <2>1. /\ Dest # None /\ Over < Got /\ copied' = [copied EXCEPT ![Torrent] = @ + 1]
        /\ UNCHANGED <<state, size, paused, save_path, done, moving, unchecked, early, chosen>>
        /\ UNCHANGED <<plugged, configured, default_save_path, unavailable_path>>
    BY <1>3 DEF Space!LtCopy, Space!folders, Dest, Got, Over
  <2>2. UNCHANGED <<St, Home, Dest, Got, Ahead, Unchecked>>
    BY <2>1 DEF St, Home, Dest, Got, Ahead, Unchecked
  <2>3. FitsWhere'
    BY <2>1, <2>2 DEF FitsWhere
  <2>4. FoldersChosen'
    BY <2>1, SameFolders
  <2>5. Space!TypeOK'
    <3>1. copied' \in [{Torrent} -> Nat] /\ copied'[Torrent] <= done[Torrent]
      BY <2>1, SpaceNumbers DEF Space!TypeOK, Got, Over
    <3> QED BY <2>1, <3>1 DEF Space!TypeOK
  <2> QED BY <2>3, <2>4, <2>5
<1>4. CASE Space!LtMoved(Torrent)
  <2>1. /\ Dest # None
        /\ save_path' = [save_path EXCEPT ![Torrent] = Dest]
        /\ moving' = [moving EXCEPT ![Torrent] = None] /\ copied' = [copied EXCEPT ![Torrent] = 0]
        /\ early' = [early EXCEPT ![Torrent] = 0]
        /\ UNCHANGED <<state, size, paused, done, unchecked, chosen>>
        /\ UNCHANGED <<plugged, configured, default_save_path, unavailable_path>>
    BY <1>4 DEF Space!LtMoved, Space!folders, Dest
  <2>2. /\ Home' = Dest /\ Dest' = None /\ Over' = 0 /\ Ahead' = 0 /\ UNCHANGED <<St, Got, Unchecked>>
    BY <2>1 DEF Space!TypeOK, St, Home, Dest, Got, Over, Ahead, Unchecked
  <2>3. FitsWhere'
    BY <2>1, <2>2, SpaceNumbers DEF FitsWhere
  <2>4. FoldersChosen'
    BY <2>1, <2>2 DEF FoldersChosen, Stands
  <2>5. Space!TypeOK'
    <3>1. 0 \in 0 .. Early
      BY SpaceAssumption
    <3>2. Dest \in Drives
      BY <2>1 DEF Space!TypeOK, Dest
    <3>3. copied' \in [{Torrent} -> Nat] /\ copied'[Torrent] <= done[Torrent]
      BY <2>1, SpaceNumbers DEF Space!TypeOK, Got
    <3> QED BY <2>1, <3>1, <3>2, <3>3 DEF Space!TypeOK
  <2> QED BY <2>3, <2>4, <2>5
<1>5. CASE Space!LtMoveFailed(Torrent)
  <2>1. /\ moving' = [moving EXCEPT ![Torrent] = None] /\ copied' = [copied EXCEPT ![Torrent] = 0]
        /\ UNCHANGED <<state, size, paused, save_path, done, unchecked, early, chosen>>
        /\ UNCHANGED <<plugged, configured, default_save_path, unavailable_path>>
    BY <1>5 DEF Space!LtMoveFailed, Space!folders
  <2>2. Dest' = None /\ Over' = 0 /\ UNCHANGED <<St, Home, Got, Ahead, Unchecked>>
    BY <2>1 DEF Space!TypeOK, St, Home, Dest, Got, Over, Ahead, Unchecked
  <2>3. FitsWhere'
    BY <2>1, <2>2 DEF FitsWhere
  <2>4. FoldersChosen'
    BY <2>1, <2>2 DEF FoldersChosen, Stands
  <2>5. Space!TypeOK'
    <3>1. copied' \in [{Torrent} -> Nat] /\ copied'[Torrent] <= done[Torrent]
      BY <2>1, SpaceNumbers DEF Space!TypeOK, Got
    <3> QED BY <2>1, <3>1 DEF Space!TypeOK
  <2> QED BY <2>3, <2>4, <2>5
<1> QED BY <1>1, <1>2, <1>3, <1>4, <1>5 DEF Space!Libtorrent

SpaceSteady == subject = "space" => SpaceInv

(* For any volumes, sizes and headroom, across additions, moves,            *)
(* resumptions, restarts and volumes that come and go: a volume keeps its   *)
(* headroom unless a torrent writes there that no check has allowed to      *)
(* (check_space), and no torrent is in a folder that nobody chose           *)
(* (resolve_dir).                                                           *)
THEOREM SpaceAlwaysRight == DeskSpec => []SpaceRight
<1>1. DeskInit => SpaceSteady
  BY SpaceStarts DEF DeskInit, SpaceSteady
<1>2. SpaceSteady /\ [DeskNext]_allVars => SpaceSteady'
  <2> SUFFICES ASSUME SpaceSteady, [DeskNext]_allVars, subject' = "space"
               PROVE  SpaceInv'
    BY DEF SpaceSteady
  <2>1. subject = "space" /\ (Space!Next \/ UNCHANGED spaceVars)
    BY DEF DeskNext, About, Limiter, Window, Settings, Volumes, allVars
  <2>2. SpaceInv
    BY <2>1 DEF SpaceSteady
  <2>3. CASE UNCHANGED spaceVars
    <3>1. UNCHANGED Space!torrents /\ UNCHANGED Space!folders /\ UNCHANGED chosen
      BY <2>3 DEF spaceVars, Space!torrents, Space!folders
    <3>2. FitsWhere'
      BY <2>2, <3>1, SameTorrent DEF SpaceInv
    <3>3. FoldersChosen'
      BY <2>2, <3>1, SameFolders DEF SpaceInv, Space!torrents, Space!folders
    <3>4. Space!TypeOK'
      BY <2>2, <3>1 DEF SpaceInv, Space!TypeOK, Space!torrents, Space!folders
    <3> QED BY <3>2, <3>3, <3>4 DEF SpaceInv
  <2>4. CASE Space!Next
    <3>1. ASSUME Space!Command(Torrent) PROVE SpaceInv'
      BY <2>2, <3>1, PauseStep, ResumeStep, AddStep DEF Space!Command
    <3>2. ASSUME Space!Libtorrent(Torrent) \/ Space!OnMetadataReceived(Torrent) PROVE SpaceInv'
      BY <2>2, <3>2, LtStep, MetadataStep
    <3>3. ASSUME NEW S \in SUBSET {Torrent}, NEW d \in Drives, Space!MoveTorrents(S, d) PROVE SpaceInv'
      BY <2>2, <3>3, MoveStep
    <3> QED BY <2>2, <2>4, <3>1, <3>2, <3>3, FoldersStep DEF Space!Next
  <2> QED BY <2>1, <2>3, <2>4
<1>3. SpaceSteady => SpaceRight
  <2> SUFFICES ASSUME SpaceInv
               PROVE  Space!TypeOK /\ Space!HeadroomKept /\ Space!NeverRedirected
    BY DEF SpaceSteady, SpaceRight
  <2>1. Space!NeverRedirected
    BY DEF SpaceInv, FoldersChosen, Stands, St, Home, Space!NeverRedirected
  <2> QED BY <2>1, HeadroomLeft DEF SpaceInv
<1> QED BY <1>1, <1>2, <1>3, PTL DEF DeskSpec
-----------------------------------------------------------------------------
(* The Add dialog. Once the user has chosen a category no probe guesses.    *)
DialogInv ==
  /\ probes \in [Dialog!Probe -> Int] /\ verify_tls \in BOOLEAN
  /\ category_by = "user" => category_auto_set = FALSE

(* A probe is started, or none. *)
LEMMA FetchCounts ==
  ASSUME NEW u, NEW tls \in BOOLEAN, NEW f \in [Dialog!Probe -> Int],
         Dialog!FetchMetadata(u, tls, f)
  PROVE  probes' \in [Dialog!Probe -> Int]
<1>1. CASE u \in Addresses
  <2> DEFINE q == [url |-> u, tls |-> tls]
  <2>1. q \in Dialog!Probe
    BY <1>1 DEF Dialog!Probe
  <2>2. probes' = [f EXCEPT ![q] = @ + 1]
    BY <1>1 DEF Dialog!FetchMetadata
  <2> HIDE DEF q
  <2> QED BY <2>1, <2>2
<1>2. CASE u \notin Addresses
  BY <1>2 DEF Dialog!FetchMetadata
<1> QED BY <1>1, <1>2

(* A step that takes an answer keeps what the user chose. *)
LEMMA DialogKeeps ==
  ASSUME DialogInv, [Dialog!Next]_dialogVars
  PROVE  /\ DialogInv'
         /\ (\E p \in Dialog!Probe : probes'[p] < probes[p] /\ dialog = "open" /\ dialog' = "open") =>
              /\ path_input # None => path_input' = path_input
              /\ category_by = "user" => category_input' = category_input
<1> USE DEF DialogInv
<1>1. ASSUME UNCHANGED <<category_by, category_auto_set, path_input, category_input>>,
             probes' \in [Dialog!Probe -> Int], verify_tls' \in BOOLEAN
      PROVE  /\ DialogInv'
             /\ path_input' = path_input /\ category_input' = category_input
  BY <1>1
<1>2. ASSUME NEW u, Dialog!OpenDialog(u)
      PROVE  DialogInv' /\ dialog # "open"
  <2>1. [p \in Dialog!Probe |-> 0] \in [Dialog!Probe -> Int]
    OBVIOUS
  <2>2. probes' \in [Dialog!Probe -> Int]
    BY <1>2, <2>1, FetchCounts DEF Dialog!OpenDialog, Dialog!NoProbes
  <2> QED BY <1>2, <2>2 DEF Dialog!OpenDialog
<1>3. ASSUME NEW u, Dialog!EditUrl(u) \/ Dialog!ToggleTls
      PROVE  /\ UNCHANGED <<category_by, category_auto_set, path_input, category_input>>
             /\ probes' \in [Dialog!Probe -> Int] /\ verify_tls' \in BOOLEAN
  <2>1. CASE Dialog!EditUrl(u)
    <3>1. Dialog!FetchMetadata(u, verify_tls, probes)
      BY <2>1 DEF Dialog!EditUrl
    <3> QED BY <2>1, <3>1, FetchCounts DEF Dialog!EditUrl
  <2>2. CASE Dialog!ToggleTls
    <3>1. Dialog!FetchMetadata(url_input, ~verify_tls, probes)
      BY <2>2, Zenon DEF Dialog!ToggleTls
    <3>2. (~verify_tls) \in BOOLEAN
      OBVIOUS
    <3>3. probes' \in [Dialog!Probe -> Int]
      BY <3>1, <3>2, FetchCounts, Zenon
    <3>4. UNCHANGED <<category_by, category_auto_set, path_input, category_input>>
      BY <2>2 DEF Dialog!ToggleTls
    <3>5. verify_tls' \in BOOLEAN
      BY <2>2, <3>2, Zenon DEF Dialog!ToggleTls
    <3> QED BY <3>3, <3>4, <3>5
  <2> QED BY <1>3, <2>1, <2>2
<1>4. ASSUME NEW p \in Dialog!Probe, UNCHANGED probes, probes'[p] < probes[p] PROVE FALSE
  BY <1>4
<1>5. ASSUME NEW p, Dialog!EditPath(p)
      PROVE  DialogInv' /\ UNCHANGED probes
  BY <1>5 DEF Dialog!EditPath, Dialog!shown
<1>6. ASSUME NEW c, Dialog!ChooseCategory(c)
      PROVE  DialogInv' /\ UNCHANGED probes
  BY <1>6 DEF Dialog!ChooseCategory, Dialog!shown
<1>7. ASSUME NEW p \in Dialog!Probe, Dialog!ProbeAnswers(p)
      PROVE  /\ DialogInv'
             /\ path_input # None => path_input' = path_input
             /\ category_by = "user" => category_input' = category_input
  <2>1. probes' = [probes EXCEPT ![p] = @ - 1]
    BY <1>7 DEF Dialog!ProbeAnswers, Dialog!OnMetadataFetched, Dialog!OnFetchError, Dialog!Answered
  <2>2. probes' \in [Dialog!Probe -> Int]
    BY <2>1
  <2> QED
    BY <1>7, <2>2 DEF Dialog!ProbeAnswers, Dialog!OnMetadataFetched, Dialog!OnFetchError,
                      Dialog!Path, Dialog!Category, Dialog!fields
<1>8. ASSUME \/ Dialog!Accept \/ Dialog!Reject \/ \E yes \in BOOLEAN : Dialog!Answer(yes)
      PROVE  DialogInv' /\ UNCHANGED probes
  BY <1>8 DEF Dialog!Accept, Dialog!Reject, Dialog!Answer, Dialog!fields, Dialog!shown
<1>9. CASE UNCHANGED dialogVars
  BY <1>9 DEF dialogVars
<1> QED
  BY <1>1, <1>2, <1>3, <1>4, <1>5, <1>6, <1>7, <1>8, <1>9 DEF Dialog!Next

DialogSteady == subject = "dialog" => DialogInv

(* For any URLs, paths and number of probes: no answer, however late and of *)
(* whatever URL, replaces the save location once there is one, or the       *)
(* category the user chose (on_metadata_fetched,                            *)
(* _on_category_manually_changed).                                          *)
THEOREM UserAlwaysKeeps == DeskSpec => Dialog!UserKeeps
<1>1. DeskInit => DialogSteady
  BY DEF DeskInit, DialogSteady, DialogInv, Dialog!Init, Dialog!NoProbes
<1>2. DialogSteady /\ [DeskNext]_allVars => DialogSteady'
  <2> SUFFICES ASSUME DialogSteady, [DeskNext]_allVars, subject' = "dialog"
               PROVE  DialogInv'
    BY DEF DialogSteady
  <2>1. subject = "dialog" /\ [Dialog!Next]_dialogVars
    BY DEF DeskNext, About, Limiter, Window, Settings, Volumes, allVars
  <2> QED BY <2>1, DialogKeeps DEF DialogSteady
<1>3. DialogSteady /\ [DeskNext]_allVars =>
        [(\E p \in Dialog!Probe : probes'[p] < probes[p] /\ dialog = "open" /\ dialog' = "open") =>
           /\ path_input # None => path_input' = path_input
           /\ category_by = "user" => category_input' = category_input]_(Dialog!vars)
  <2> SUFFICES ASSUME DialogSteady, [DeskNext]_allVars,
                      ~UNCHANGED Dialog!vars
               PROVE  (\E p \in Dialog!Probe : probes'[p] < probes[p] /\ dialog = "open" /\ dialog' = "open") =>
                        /\ path_input # None => path_input' = path_input
                        /\ category_by = "user" => category_input' = category_input
    OBVIOUS
  <2>1. subject = "dialog" /\ [Dialog!Next]_dialogVars
    BY DEF DeskNext, About, Limiter, Window, Settings, Volumes, allVars, dialogVars,
           Dialog!vars, Dialog!fields, Dialog!shown
  <2> QED BY <2>1, DialogKeeps DEF DialogSteady
<1> QED BY <1>1, <1>2, <1>3, PTL DEF DeskSpec, Dialog!UserKeeps
=============================================================================
