---------------------------- MODULE LocalProofs ----------------------------
(***************************************************************************)
(* What is kept on one machine (MCLocal): every part has an inductive      *)
(* invariant of its own, kept by its own steps, since the parts share no   *)
(* variable; the theorems at the end put them together.                    *)
(***************************************************************************)
EXTENDS MCLocal, WellFoundedInduction, FiniteSetTheorems, TLAPS

-----------------------------------------------------------------------------
(* The service definition *)

\* What each command has done by the step it is at.
ServiceInv ==
    /\ svOs \in {"linux", "macos", "windows"}
    /\ svFile \in BOOLEAN /\ svKnown \in BOOLEAN /\ svEnabled \in BOOLEAN
    /\ svRunning \in BOOLEAN /\ svDoomed \in BOOLEAN
    /\ ServiceTypeOK /\ InstalledMeansEnabled
    /\ svOs = "linux" => svAt \in {"none", "write", "reload", "enable"}
    /\ svOs = "macos" => svAt \in {"none", "write", "load"}
    /\ svOs = "windows" => svAt \in {"none", "create", "describe"}
    /\ svAt \in {"reload", "enable"} => svFile
    /\ svAt = "enable" => svKnown
    /\ svAt = "describe" => svKnown /\ svEnabled
    /\ svAt # "none" => svSaid = "nothing"

\* The step of an install after each of its steps.
LEMMA StepsAfter ==
    /\ svOs = "linux" => /\ Steps(svOs)[1] = "write" /\ StepAfter("write") = "reload"
                         /\ StepAfter("reload") = "enable" /\ StepAfter("enable") = "end"
    /\ svOs = "macos" => /\ Steps(svOs)[1] = "write" /\ StepAfter("write") = "load" /\ StepAfter("load") = "end"
    /\ svOs = "windows" => /\ Steps(svOs)[1] = "create" /\ StepAfter("create") = "describe"
                           /\ StepAfter("describe") = "end"
<1>1. CASE svOs = "linux"
  <2> DEFINE s == <<"write", "reload", "enable", "end">>
  <2>1. Steps(svOs) = s
    BY <1>1 DEF Steps
  <2>2. DOMAIN s = {1, 2, 3, 4} /\ s[1] = "write" /\ s[2] = "reload" /\ s[3] = "enable" /\ s[4] = "end"
    OBVIOUS
  <2>3. /\ (CHOOSE k \in DOMAIN s : s[k] = "write") = 1
        /\ (CHOOSE k \in DOMAIN s : s[k] = "reload") = 2
        /\ (CHOOSE k \in DOMAIN s : s[k] = "enable") = 3
    BY <2>2
  <2> QED
    BY <1>1, <2>1, <2>2, <2>3 DEF StepAfter
<1>2. CASE svOs = "macos"
  <2> DEFINE s == <<"write", "load", "end">>
  <2>1. Steps(svOs) = s
    BY <1>2 DEF Steps
  <2>2. DOMAIN s = {1, 2, 3} /\ s[1] = "write" /\ s[2] = "load" /\ s[3] = "end"
    OBVIOUS
  <2>3. /\ (CHOOSE k \in DOMAIN s : s[k] = "write") = 1
        /\ (CHOOSE k \in DOMAIN s : s[k] = "load") = 2
    BY <2>2
  <2> QED
    BY <1>2, <2>1, <2>2, <2>3 DEF StepAfter
<1>3. CASE svOs = "windows"
  <2> DEFINE s == <<"create", "describe", "end">>
  <2>1. Steps(svOs) = s
    BY <1>3 DEF Steps
  <2>2. DOMAIN s = {1, 2, 3} /\ s[1] = "create" /\ s[2] = "describe" /\ s[3] = "end"
    OBVIOUS
  <2>3. /\ (CHOOSE k \in DOMAIN s : s[k] = "create") = 1
        /\ (CHOOSE k \in DOMAIN s : s[k] = "describe") = 2
    BY <2>2
  <2> QED
    BY <1>3, <2>1, <2>2, <2>3 DEF StepAfter
<1> QED
  BY <1>1, <1>2, <1>3

LEMMA ServiceStart == ServiceInit => ServiceInv
BY DEF ServiceInit, ServiceInv, ServiceTypeOK, InstalledMeansEnabled

LEMMA ServiceStep == ServiceInv /\ [ServiceNext]_serviceVars => ServiceInv'
<1> SUFFICES ASSUME ServiceInv, [ServiceNext]_serviceVars PROVE ServiceInv'
  OBVIOUS
<1> USE DEF ServiceInv, ServiceTypeOK, InstalledMeansEnabled
<1>1. CASE InstallBegins
  BY <1>1, StepsAfter DEF InstallBegins
<1>2. CASE WriteDefinition
  BY <1>2, StepsAfter DEF WriteDefinition, InstallAt, Advances
<1>3. CASE DaemonReload
  BY <1>3, StepsAfter DEF DaemonReload, InstallAt, Advances
<1>4. CASE Enable
  BY <1>4, StepsAfter DEF Enable, InstallAt, Advances
<1>5. CASE LoadEnabled
  BY <1>5, StepsAfter DEF LoadEnabled, InstallAt, Advances
<1>6. CASE CreateService
  BY <1>6, StepsAfter DEF CreateService, InstallAt, Advances
<1>7. CASE SetDescription
  BY <1>7, StepsAfter DEF SetDescription, InstallAt, Advances
<1>8. CASE InstallStepFails
  BY <1>8 DEF InstallStepFails
<1>9. CASE StartService
  BY <1>9 DEF StartService, Single
<1>10. CASE StopService
  <2>1. svKnown' \in BOOLEAN /\ svEnabled' \in BOOLEAN
    BY <1>10, Zenon DEF StopService
  <2>2. /\ svKnown' <=> svKnown /\ ~svDoomed
        /\ svEnabled' <=> svEnabled /\ ~svDoomed
    BY <1>10, Zenon DEF StopService
  <2>3. svRunning' = FALSE /\ svDoomed' = FALSE /\ svFile' = svFile /\ svSaid' = "stopped" /\ svAt = "none"
        /\ svAt' = svAt /\ svOs' = svOs
    BY <1>10 DEF StopService, Single
  <2> QED
    BY <2>1, <2>2, <2>3
<1>12. CASE UninstallFile
  BY <1>12 DEF UninstallFile, Single, Uninstalled
<1>13. CASE UninstallService
  <2>1. svEnabled' \in BOOLEAN /\ (svEnabled' <=> svRunning /\ svEnabled)
    BY <1>13, Zenon DEF UninstallService
  <2>2. /\ svKnown' = svRunning /\ svDoomed' = svRunning /\ svSaid' = "uninstalled" /\ svOs = "windows"
        /\ svFile' = svFile /\ svRunning' = svRunning /\ svAt = "none" /\ svAt' = svAt /\ svOs' = svOs
    BY <1>13 DEF UninstallService, Single
  <2> QED
    BY <2>1, <2>2
<1>11. CASE UNCHANGED serviceVars
  BY <1>11 DEF serviceVars
<1> QED
  BY <1>1, <1>2, <1>3, <1>4, <1>5, <1>6, <1>7, <1>8, <1>9, <1>10, <1>11, <1>12, <1>13 DEF ServiceNext

-----------------------------------------------------------------------------
(* The desktop session *)

Keychains == [access : Tokens \cup {NoValue}, refresh : Tokens \cup {NoValue}, hub : Hubs \cup {NoValue}]
Sessions == [tok : Tokens, hub : Hubs]
Writings == [step : {"access", "refresh", "hub", "prime"}, tok : Tokens, refresh : BOOLEAN, hub : Hubs]

\* The keychain is empty or holds one session.
OneSession ==
    \/ kc.access = NoValue /\ kc.refresh = NoValue /\ kc.hub = NoValue
    \/ kc.access # NoValue /\ kc.hub = kc.access.hub /\ kc.refresh \in {kc.access, NoValue}

SessTypes ==
    /\ kc \in Keychains
    /\ primed = NoValue \/ primed \in Sessions
    /\ oauth \subseteq Hubs /\ issued \in 0..MaxTokens
    /\ writing = None \/ writing \in Writings
    /\ answer \in {"none", "accepted", "no session"}
    /\ machine \in [stored : 0..2, used : 0..2] /\ excuse \in BOOLEAN

\* What is in the keychain at each step of a store, and what penguind was given.
StoreGoesOn ==
    ~excuse =>
        /\ writing.step \in {"none", "access"} => OneSession
        /\ writing.step \in {"refresh", "hub", "prime"} => kc.access = writing.tok
        /\ writing.step \in {"hub", "prime"} => kc.refresh \in {writing.tok, NoValue}
        /\ writing.step = "prime" => kc.hub = writing.hub
        /\ writing.step # "none" => writing.hub = writing.tok.hub
        /\ primed # NoValue => primed.hub = primed.tok.hub

SessInv == SessTypes /\ StoreGoesOn

LEMMA WritingStep ==
    ASSUME SessTypes
    PROVE  /\ (writing = None) <=> (writing.step = "none")
           /\ writing # None => writing \in Writings
<1>1. None.step = "none"
  BY DEF None
<1>2. writing \in Writings => writing.step \in {"access", "refresh", "hub", "prime"}
  BY DEF Writings
<1> QED
  BY <1>1, <1>2 DEF SessTypes

LEMMA SessionConstants == NoValue \notin Hubs /\ NoValue \notin Tokens /\ MaxTokens \in Nat
BY SessionAssumption

\* The hub issues a pair.
LEMMA TokenIssued ==
    ASSUME SessTypes, issued < MaxTokens, issued' = issued + 1, NEW h \in Hubs
    PROVE  [hub |-> h, n |-> issued + 1] \in Tokens /\ issued' \in 0..MaxTokens
<1>0. issued \in 0..MaxTokens /\ MaxTokens \in Nat
  BY SessionConstants DEF SessTypes
<1>1. issued + 1 \in 1..MaxTokens /\ issued' \in 0..MaxTokens
  BY <1>0
<1> QED
  BY <1>1 DEF Tokens

LEMMA SessBegins == SessInit => SessInv
<1> SUFFICES ASSUME SessInit PROVE SessInv
  OBVIOUS
<1>1. kc \in Keychains /\ kc.access = NoValue /\ kc.refresh = NoValue /\ kc.hub = NoValue /\ None.step = "none"
  BY DEF SessInit, Keychains, None
<1>2. issued \in 0..MaxTokens /\ machine \in [stored : 0..2, used : 0..2]
  BY SessionConstants DEF SessInit
<1> QED
  BY <1>1, <1>2 DEF SessInit, SessInv, SessTypes, StoreGoesOn, OneSession

LEMMA SessSafe == SessInv => SessTypeOK /\ OneSessionStored /\ PrimedWasStored
<1> SUFFICES ASSUME SessInv PROVE SessTypeOK /\ OneSessionStored /\ PrimedWasStored
  OBVIOUS
<1>1. SessTypeOK
  BY DEF SessInv, SessTypes, SessTypeOK, Keychains, Sessions, Writings
<1>2. writing = None /\ ~excuse => OneSession
  BY WritingStep DEF SessInv, StoreGoesOn
<1>3. DOMAIN kc = {"access", "refresh", "hub"} /\ kc["access"] = kc.access /\ kc["refresh"] = kc.refresh /\ kc["hub"] = kc.hub
  BY DEF SessInv, SessTypes, Keychains
<1>4. OneSessionStored
  BY <1>2, <1>3 DEF OneSession, OneSessionStored
<1>5. PrimedWasStored
  <2> SUFFICES ASSUME primed # NoValue, kc.access = primed.tok, writing = None, ~excuse
               PROVE  kc.hub = primed.hub /\ kc.refresh \in {primed.tok, NoValue}
    BY DEF PrimedWasStored
  <2>1. primed.tok \in Tokens /\ primed.hub = primed.tok.hub
    BY DEF SessInv, SessTypes, StoreGoesOn, Sessions
  <2>2. kc.access # NoValue
    BY <2>1, SessionConstants
  <2> QED
    BY <1>2, <2>1, <2>2 DEF OneSession
<1> QED
  BY <1>1, <1>4, <1>5

\* A step of TokenStore::store.
LEMMA StoreStepKeeps ==
    ASSUME SessInv, StoreStep
    PROVE  SessInv'
<1> DEFINE w == writing
<1>1. w \in Writings /\ w.step \in {"access", "refresh", "hub"} /\ w.tok \in Tokens /\ w.hub \in Hubs /\ w.refresh \in BOOLEAN
  <2>1. w.step \in {"access", "refresh", "hub"}
    BY DEF StoreStep
  <2> QED
    BY <2>1, WritingStep DEF SessInv, SessTypes, Writings, None
<1>2. kc \in Keychains /\ kc.access \in Tokens \cup {NoValue} /\ kc.refresh \in Tokens \cup {NoValue} /\ kc.hub \in Hubs \cup {NoValue}
  BY DEF SessInv, SessTypes, Keychains
<1>3. /\ answer' = answer /\ primed' = primed /\ oauth' = oauth /\ issued' = issued /\ machine' = machine
  BY DEF StoreStep
<1>4. CASE kc' = StoreKey(writing) /\ writing' = [writing EXCEPT !.step = After(@)] /\ UNCHANGED excuse
  <2>1. CASE w.step = "access"
    <3>1. /\ kc' \in Keychains /\ kc'.access = w.tok
      BY <1>1, <1>2, <1>4, <2>1 DEF StoreKey, Keychains
    <3>2. writing' \in Writings /\ writing'.step = "refresh" /\ writing'.tok = w.tok /\ writing'.hub = w.hub
      BY <1>1, <1>4, <2>1 DEF After, Writings
    <3> QED
      BY <1>1, <1>3, <1>4, <2>1, <3>1, <3>2 DEF SessInv, SessTypes, StoreGoesOn
  <2>2. CASE w.step = "refresh"
    <3>1. /\ kc' \in Keychains /\ kc'.access = kc.access /\ kc'.refresh \in {w.tok, NoValue}
      BY <1>1, <1>2, <1>4, <2>2 DEF StoreKey, Keychains
    <3>2. writing' \in Writings /\ writing'.step = "hub" /\ writing'.tok = w.tok /\ writing'.hub = w.hub
      BY <1>1, <1>4, <2>2 DEF After, Writings
    <3> QED
      BY <1>1, <1>3, <1>4, <2>2, <3>1, <3>2 DEF SessInv, SessTypes, StoreGoesOn
  <2>3. CASE w.step = "hub"
    <3>1. /\ kc' \in Keychains /\ kc'.access = kc.access /\ kc'.refresh = kc.refresh /\ kc'.hub = w.hub
      BY <1>1, <1>2, <1>4, <2>3 DEF StoreKey, Keychains
    <3>2. writing' \in Writings /\ writing'.step = "prime" /\ writing'.tok = w.tok /\ writing'.hub = w.hub
      BY <1>1, <1>4, <2>3 DEF After, Writings
    <3> QED
      BY <1>1, <1>3, <1>4, <2>3, <3>1, <3>2 DEF SessInv, SessTypes, StoreGoesOn
  <2> QED
    BY <1>1, <2>1, <2>2, <2>3
<1>5. CASE excuse' = TRUE /\ kc' = kc
        /\ writing' = IF writing.step = "refresh" /\ ~writing.refresh THEN [writing EXCEPT !.step = "hub"] ELSE None
  <2>1. writing' = None \/ writing' \in Writings
    BY <1>1, <1>5 DEF Writings
  <2> QED
    BY <1>3, <1>5, <2>1 DEF SessInv, SessTypes, StoreGoesOn
<1> QED
  BY <1>4, <1>5 DEF StoreStep

LEMMA SessStep == SessInv /\ [SessNext]_sessVars => SessInv'
<1> SUFFICES ASSUME SessInv, [SessNext]_sessVars PROVE SessInv'
  OBVIOUS
<1> USE SessionConstants
<1>0. /\ kc \in Keychains /\ kc.access \in Tokens \cup {NoValue} /\ kc.refresh \in Tokens \cup {NoValue} /\ kc.hub \in Hubs \cup {NoValue}
      /\ primed # NoValue => primed \in Sessions /\ primed.hub \in Hubs /\ primed.tok \in Tokens
      /\ (writing = None) <=> (writing.step = "none")
      /\ writing # None => writing \in Writings /\ writing.tok \in Tokens /\ writing.hub \in Hubs
  BY WritingStep DEF SessInv, SessTypes, Keychains, Sessions, Writings
<1>1. ASSUME NEW h \in Hubs, NEW refresh \in BOOLEAN, Login(h, refresh) PROVE SessInv'
  <2> DEFINE tok == [hub |-> primed.hub, n |-> issued + 1]
  <2>1. tok \in Tokens /\ tok.hub = primed.hub /\ issued' \in 0..MaxTokens
    BY <1>0, <1>1, TokenIssued DEF Login, SessInv
  <2>2. /\ writing' \in Writings /\ writing'.step = "access" /\ writing'.tok = tok /\ writing'.hub = h
    BY <1>1, <2>1 DEF Login, Writings
  <2>3. excuse' \in BOOLEAN /\ (~excuse' => ~excuse /\ h = primed.hub)
    BY <1>1, Zenon DEF Login
  <2>4. kc' = kc /\ primed' = primed /\ oauth' = oauth /\ machine' = machine /\ answer' = "accepted" /\ writing = None
    BY <1>1 DEF Login
  <2> QED
    BY <1>0, <2>1, <2>2, <2>3, <2>4 DEF SessInv, SessTypes, StoreGoesOn, OneSession
<1>2. ASSUME NEW h \in Hubs, NEW refresh \in BOOLEAN, OauthComplete(h, refresh) PROVE SessInv'
  <2> DEFINE tok == [hub |-> h, n |-> issued + 1]
  <2>1. tok \in Tokens /\ tok.hub = h /\ issued' \in 0..MaxTokens /\ kc.hub \in Hubs
    BY <1>0, <1>2, TokenIssued DEF OauthComplete, SessInv, Loadable
  <2>2. /\ writing' \in Writings /\ writing'.step = "access" /\ writing'.tok = tok /\ writing'.hub = kc.hub
    BY <1>2, <2>1 DEF OauthComplete, Writings
  <2>3. excuse' \in BOOLEAN /\ (~excuse' => ~excuse /\ h = kc.hub)
    BY <1>2, Zenon DEF OauthComplete
  <2>4. kc' = kc /\ primed' = primed /\ oauth' \subseteq oauth /\ machine' = machine /\ answer' = answer /\ writing = None
    BY <1>2 DEF OauthComplete
  <2> QED
    BY <1>0, <2>1, <2>2, <2>3, <2>4 DEF SessInv, SessTypes, StoreGoesOn, OneSession
<1>3. ASSUME NEW h \in Hubs, OauthStart(h) PROVE SessInv'
  BY <1>3 DEF OauthStart, SessInv, SessTypes, StoreGoesOn, OneSession
<1>4. ASSUME NEW h \in Hubs, OtherClientPrimes(h) PROVE SessInv'
  <2> DEFINE tok == [hub |-> h, n |-> issued + 1]
  <2>1. tok \in Tokens /\ tok.hub = h /\ issued' \in 0..MaxTokens
    BY <1>4, TokenIssued DEF OtherClientPrimes, SessInv
  <2>2. primed' \in Sessions /\ primed'.hub = h /\ primed'.tok = tok
    BY <1>4, <2>1 DEF OtherClientPrimes, Sessions
  <2>3. kc' = kc /\ oauth' = oauth /\ writing' = writing /\ answer' = answer /\ machine' = machine /\ excuse' = excuse
    BY <1>4 DEF OtherClientPrimes
  <2> QED
    BY <2>1, <2>2, <2>3 DEF SessInv, SessTypes, StoreGoesOn, OneSession
<1>5. CASE LoginUnprimed
  BY <1>5 DEF LoginUnprimed, SessInv, SessTypes, StoreGoesOn, OneSession
<1>6. CASE StoreStep
  BY <1>6, StoreStepKeeps
<1>7. CASE Prime
  <2>1. /\ kc' = kc /\ oauth' = oauth /\ issued' = issued /\ answer' = answer /\ machine' = machine /\ excuse' = excuse
        /\ writing' = None /\ writing'.step = "none" /\ writing.step = "prime" /\ writing # None
    BY <1>0, <1>7 DEF Prime, None
  <2>2. primed' = primed \/ (primed' \in Sessions /\ primed'.hub = writing.hub /\ primed'.tok = writing.tok)
    BY <1>0, <1>7, <2>1 DEF Prime, Sessions
  <2>3. ~excuse => OneSession'
    BY <1>0, <2>1 DEF SessInv, StoreGoesOn, OneSession
  <2> QED
    BY <1>0, <2>1, <2>2, <2>3 DEF SessInv, SessTypes, StoreGoesOn
<1>8. CASE Logout
  <2>1. PICK gone \in SUBSET DOMAIN kc : kc' = Cleared(gone) /\ excuse' = (excuse \/ gone # DOMAIN kc)
    BY <1>8 DEF Logout
  <2>2. excuse' \in BOOLEAN /\ (~excuse' => ~excuse /\ gone = DOMAIN kc)
    BY <2>1, Zenon
  <2>3. kc' \in Keychains /\ (gone = DOMAIN kc => kc'.access = NoValue /\ kc'.refresh = NoValue /\ kc'.hub = NoValue)
    BY <1>0, <2>1 DEF Cleared, Keychains
  <2>4. /\ answer' = answer /\ primed' = primed /\ oauth' = oauth /\ writing' = writing /\ issued' = issued /\ machine' = machine /\ writing = None
    BY <1>8 DEF Logout
  <2> QED
    BY <1>0, <2>2, <2>3, <2>4 DEF SessInv, SessTypes, StoreGoesOn, OneSession
<1>9. CASE Spawn
  <2>1. machine' \in [stored : 0..2, used : 0..2]
    BY <1>9 DEF Spawn, MachineIds
  <2>2. UNCHANGED <<answer, kc, primed, oauth, writing, issued, excuse>>
    BY <1>9 DEF Spawn
  <2> QED
    BY <2>1, <2>2 DEF SessInv, SessTypes, StoreGoesOn, OneSession
<1>10. CASE ShellCrash
  <2>1. excuse' \in BOOLEAN /\ (~excuse' => ~excuse /\ writing = None)
    BY <1>10, Zenon DEF ShellCrash
  <2>2. /\ writing' = None /\ oauth' = {} /\ answer' = answer /\ kc' = kc /\ primed' = primed /\ issued' = issued /\ machine' = machine
    BY <1>10 DEF ShellCrash
  <2>3. None.step = "none"
    BY DEF None
  <2> QED
    BY <1>0, <2>1, <2>2, <2>3 DEF SessInv, SessTypes, StoreGoesOn, OneSession
<1>11. CASE DaemonRestart
  BY <1>11 DEF DaemonRestart, SessInv, SessTypes, StoreGoesOn, OneSession
<1>12. CASE UNCHANGED sessVars
  BY <1>12 DEF sessVars, SessInv, SessTypes, StoreGoesOn, OneSession
<1> QED
  BY <1>1, <1>2, <1>3, <1>4, <1>5, <1>6, <1>7, <1>8, <1>9, <1>10, <1>11, <1>12 DEF SessNext

-----------------------------------------------------------------------------
(* Secrets: the key, the records and the store they stand for *)

\* Records that a key among the first `made` may have encrypted.
Records(made) == [key : 1..made, bound : SecretNames, value : SecretValues]
Results == SecretValues \cup {NoSecret, "none", "not found", "error", "ok"}
CallsUnderWay ==
    [at : {"begun", "temp", "written", "done"}, op : {"get", "set", "delete"}, name : SecretNames,
     value : SecretValues \cup {NoSecret}, result : Results]

KeyInv ==
    /\ sfPhase \in {"down", "generate", "open"} /\ sfMade \in Nat
    /\ sfKeyFile \in {Empty} \cup 0..sfMade
    /\ sfPhase = "open" => sfKey = sfKeyFile /\ sfKey > 0
    /\ sfPhase = "generate" => sfKeyFile = Empty
    /\ sfSettled \in BOOLEAN /\ sfEarlyLoss \in BOOLEAN
    /\ sfSettled => sfKeyFile > 0

\* Until an early loss, what is on disk or may come back is under the key on disk.
DiskInv ==
    /\ sfRecord \in [SecretNames -> {NoRecord} \cup Records(sfMade)]
    /\ sfEarlier \in [SecretNames -> SUBSET ({NoRecord} \cup Records(sfMade))]
    /\ ~sfEarlyLoss =>
        /\ sfKeyFile = Empty => sfPhase = "generate"
        /\ \A n \in SecretNames : \A r \in {sfRecord[n]} \cup sfEarlier[n] : r = NoRecord \/ r.key = sfKeyFile

CallsInv ==
    /\ sfCall \in [Callers -> {NoCall} \cup CallsUnderWay]
    /\ \A c \in Callers :
        /\ sfCall[c].at # "idle" => sfPhase = "open"
        /\ sfCall[c].at # "idle" => ((sfCall[c].op = "set") <=> (sfCall[c].value # NoSecret))
        /\ sfCall[c].at \in {"temp", "written"} => sfCall[c].op = "set"
    /\ sfTemps = {c \in Callers : sfCall[c].at \in {"temp", "written"}}

SecretInv == KeyInv /\ DiskInv /\ CallsInv

LEMMA RecordsGrow ==
    ASSUME NEW m \in Nat
    PROVE  Records(m) \subseteq Records(m + 1)
<1>1. 1..m \subseteq 1..(m + 1)
  OBVIOUS
<1> QED
  BY <1>1 DEF Records

LEMMA RecordFields ==
    ASSUME NEW m \in Nat, NEW r \in Records(m)
    PROVE  r.key \in 1..m /\ r.bound \in SecretNames /\ r.value \in SecretValues /\ r.key > 0
           /\ r # NoRecord
<1>1. r.key \in 1..m /\ r.bound \in SecretNames /\ r.value \in SecretValues
  BY DEF Records
<1>2. NoRecord.key = 0
  BY DEF NoRecord, NoKeyFile
<1> QED
  BY <1>1, <1>2

LEMMA CallFields ==
    ASSUME NEW x \in CallsUnderWay
    PROVE  /\ x.at \in {"begun", "temp", "written", "done"} /\ x.op \in {"get", "set", "delete"}
           /\ x.name \in SecretNames /\ x.value \in SecretValues \cup {NoSecret} /\ x.result \in Results
BY DEF CallsUnderWay

LEMMA NoCallFields ==
    /\ NoCall.at = "idle" /\ NoCall.op = "none" /\ NoCall.value = NoSecret
BY DEF NoCall

\* A call that is not idle is one of the three operations, on a name.
LEMMA CallsTyped ==
    ASSUME CallsInv, NEW c \in Callers, sfCall[c].at # "idle"
    PROVE  sfCall[c] \in CallsUnderWay
BY NoCallFields DEF CallsInv

LEMMA SecretBegins == SecretInit => SecretInv
<1> SUFFICES ASSUME SecretInit PROVE SecretInv
  OBVIOUS
<1>1. KeyInv
  <2>1. sfKeyFile = 0 /\ sfMade = 0 /\ sfPhase = "down" /\ sfSettled = FALSE /\ sfEarlyLoss = FALSE
    BY DEF SecretInit, NoKeyFile
  <2>2. sfKeyFile \in {Empty} \cup 0..sfMade /\ sfMade \in Nat
    BY <2>1
  <2> QED
    BY <2>1, <2>2 DEF KeyInv
<1>2. DiskInv
  <2>1. sfRecord \in [SecretNames -> {NoRecord} \cup Records(sfMade)] /\ sfEarlier \in [SecretNames -> SUBSET ({NoRecord} \cup Records(sfMade))]
    BY DEF SecretInit
  <2>2. \A n \in SecretNames : sfRecord[n] = NoRecord /\ sfEarlier[n] = {}
    BY DEF SecretInit
  <2>3. sfKeyFile # Empty
    BY DEF SecretInit, NoKeyFile, Empty
  <2> QED
    BY <2>1, <2>2, <2>3 DEF DiskInv
<1>3. CallsInv
  BY NoCallFields DEF SecretInit, CallsInv
<1> QED
  BY <1>1, <1>2, <1>3 DEF SecretInv

LEMMA SecretSafe == SecretInv => SecretTypeOK /\ LockedOutOnlyByEarlyLoss
<1> SUFFICES ASSUME SecretInv PROVE SecretTypeOK /\ LockedOutOnlyByEarlyLoss
  OBVIOUS
<1> USE DEF SecretInv
<1>1. NoRecord.key = 0 /\ sfMade \in Nat
  BY DEF NoRecord, NoKeyFile, KeyInv
<1>2. ASSUME NEW n \in SecretNames PROVE sfRecord[n].key \in 0..sfMade /\ \A r \in sfEarlier[n] : r.key \in 0..sfMade
  <2>1. sfRecord[n] \in {NoRecord} \cup Records(sfMade) /\ sfEarlier[n] \subseteq {NoRecord} \cup Records(sfMade)
    BY DEF DiskInv
  <2>2. \A r \in {NoRecord} \cup Records(sfMade) : r.key \in 0..sfMade
    BY <1>1, RecordFields
  <2> QED
    BY <2>1, <2>2
<1>3. SecretTypeOK
  BY <1>2 DEF SecretTypeOK, KeyInv, CallsInv
<1>4. LockedOutOnlyByEarlyLoss
  BY <1>1 DEF LockedOutOnlyByEarlyLoss, KeyInv, DiskInv, NoKeyFile
<1> QED
  BY <1>3, <1>4

-----------------------------------------------------------------------------
\* The master key is opened or made; calls and records are left alone.
LEMMA MasterStep ==
    ASSUME SecretInv, OpenExisting \/ CreateKeyFile \/ WriteKeyFile \/ WriteKeyFails
    PROVE  SecretInv'
<1> USE DEF SecretInv, NoKeyFile, Empty
<1>0. /\ sfRecord' = sfRecord /\ sfEarlier' = sfEarlier /\ sfSettled' = sfSettled /\ sfCall' = sfCall /\ sfTemps' = sfTemps
      /\ sfPhase \in {"down", "generate"} /\ (sfMade' = sfMade \/ sfMade' = sfMade + 1) /\ sfMade \in Nat
  BY DEF OpenExisting, CreateKeyFile, WriteKeyFile, WriteKeyFails, KeyInv, diskVars, masterVars
<1>1. KeyInv'
  <2>1. CASE OpenExisting
    BY <2>1 DEF OpenExisting, KeyInv, MustGenerate, diskVars
  <2>2. CASE CreateKeyFile
    BY <2>2 DEF CreateKeyFile, KeyInv, MustGenerate, diskVars
  <2>3. CASE WriteKeyFile
    BY <2>3 DEF WriteKeyFile, KeyInv, diskVars
  <2>4. CASE WriteKeyFails
    <3>1. sfEarlyLoss' \in BOOLEAN
      BY <2>4, Zenon DEF WriteKeyFails
    <3> QED
      BY <2>4, <3>1 DEF WriteKeyFails, KeyInv, diskVars, masterVars
  <2> QED
    BY <2>1, <2>2, <2>3, <2>4
<1>2. DiskInv'
  <2>1. Records(sfMade) \subseteq Records(sfMade')
    BY <1>0, RecordsGrow
  <2>2. /\ sfRecord' \in [SecretNames -> {NoRecord} \cup Records(sfMade')]
        /\ sfEarlier' \in [SecretNames -> SUBSET ({NoRecord} \cup Records(sfMade'))]
    BY <1>0, <2>1 DEF DiskInv
  <2>3. ASSUME ~sfEarlyLoss' PROVE ~sfEarlyLoss /\ (sfKeyFile' = Empty => sfPhase' = "generate")
    <3>1. CASE WriteKeyFails
      <4>1. sfEarlyLoss' = (sfEarlyLoss \/ ~sfSettled) /\ sfPhase = "generate"
        BY <3>1 DEF WriteKeyFails
      <4>2. sfSettled
        BY <2>3, <4>1, Zenon
      <4> QED
        BY <4>1, <4>2 DEF KeyInv
    <3>2. CASE OpenExisting \/ CreateKeyFile \/ WriteKeyFile
      BY <2>3, <3>2 DEF OpenExisting, CreateKeyFile, WriteKeyFile, KeyInv, DiskInv
    <3> QED
      BY <3>1, <3>2
  <2>4. ASSUME ~sfEarlyLoss', NEW n \in SecretNames, NEW r \in {sfRecord'[n]} \cup sfEarlier'[n]
        PROVE  r = NoRecord \/ r.key = sfKeyFile'
    <3>1. ~sfEarlyLoss /\ (r = NoRecord \/ r.key = sfKeyFile) /\ r \in {NoRecord} \cup Records(sfMade)
      BY <1>0, <2>3, <2>4 DEF DiskInv
    <3>2. r # NoRecord => sfKeyFile > 0
      BY <1>0, <3>1, RecordFields
    <3> QED
      BY <3>1, <3>2 DEF OpenExisting, CreateKeyFile, WriteKeyFile, WriteKeyFails, MustGenerate, KeyInv, masterVars
  <2> QED
    BY <2>2, <2>3, <2>4 DEF DiskInv
<1>3. CallsInv'
  BY <1>0 DEF CallsInv
<1> QED
  BY <1>1, <1>2, <1>3

\* One caller's call becomes x.
LEMMA OneCallChanges ==
    ASSUME CallsInv, NEW c \in Callers, NEW x \in {NoCall} \cup CallsUnderWay,
           sfCall' = [sfCall EXCEPT ![c] = x], sfPhase' = sfPhase,
           x.at # "idle" => sfPhase = "open" /\ ((x.op = "set") <=> (x.value # NoSecret)),
           x.at \in {"temp", "written"} => x.op = "set",
           sfTemps' = IF x.at \in {"temp", "written"} THEN sfTemps \cup {c} ELSE sfTemps \ {c}
    PROVE  CallsInv'
<1>1. sfCall' \in [Callers -> {NoCall} \cup CallsUnderWay]
  BY DEF CallsInv
<1>2. \A d \in Callers : sfCall'[d] = IF d = c THEN x ELSE sfCall[d]
  BY DEF CallsInv
<1>3. sfTemps' = {d \in Callers : sfCall'[d].at \in {"temp", "written"}}
  BY <1>2 DEF CallsInv
<1> QED
  BY <1>1, <1>2, <1>3 DEF CallsInv

LEMMA CallGoesOn ==
    ASSUME CallsInv, NEW c \in Callers, sfCall[c].at # "idle", NEW p \in {"temp", "written", "done"}
    PROVE  LET x == [sfCall[c] EXCEPT !.at = p]
           IN /\ x \in CallsUnderWay /\ x.at = p /\ x.op = sfCall[c].op /\ x.value = sfCall[c].value
              /\ x.name = sfCall[c].name /\ x.result = sfCall[c].result
<1>1. sfCall[c] \in CallsUnderWay
  BY CallsTyped
<1> QED
  BY <1>1 DEF CallsUnderWay

\* The calls' side of a step of one caller.
LEMMA EndsKeepsCalls ==
    ASSUME CallsInv, NEW c \in Callers, sfCall[c].at # "idle", NEW res \in Results, Ends(c, res),
           sfPhase' = sfPhase, sfTemps' = sfTemps \ {c}
    PROVE  CallsInv'
<1> DEFINE x == [sfCall[c] EXCEPT !.at = "done", !.result = res]
<1>0. sfCall[c] \in CallsUnderWay
  BY CallsTyped
<1>1. x \in CallsUnderWay /\ x.at = "done" /\ x.op = sfCall[c].op /\ x.value = sfCall[c].value
  BY <1>0 DEF CallsUnderWay
<1>2. sfCall' = [sfCall EXCEPT ![c] = x]
  BY DEF Ends, CallsInv
<1>3. sfPhase = "open" /\ ((x.op = "set") <=> (x.value # NoSecret))
  BY <1>1 DEF CallsInv
<1> HIDE DEF x
<1> QED
  BY <1>1, <1>2, <1>3, OneCallChanges

\* What a caller leaves alone when it neither replaces a record nor touches the key.
LEMMA FilesStay ==
    ASSUME KeyInv, DiskInv, UNCHANGED <<sfPhase, masterVars, diskVars, sfEarlyLoss>>
    PROVE  KeyInv' /\ DiskInv'
BY DEF KeyInv, DiskInv, masterVars, diskVars

\* A record is replaced by none, or by one under the key in use.
LEMMA ReplacesKeeps ==
    ASSUME KeyInv, DiskInv, UNCHANGED <<sfPhase, masterVars, sfEarlyLoss>>, NEW n \in SecretNames,
           NEW r \in {NoRecord} \cup Records(sfMade), r = NoRecord \/ r.key = sfKeyFile, Replaces(n, r)
    PROVE  KeyInv' /\ DiskInv'
<1>1. KeyInv'
  BY DEF KeyInv, masterVars, Replaces
<1>2. sfRecord' = [sfRecord EXCEPT ![n] = r] /\ sfEarlier' = [sfEarlier EXCEPT ![n] = @ \cup {sfRecord[n]}]
      /\ sfMade' = sfMade /\ sfKeyFile' = sfKeyFile /\ sfPhase' = sfPhase /\ sfEarlyLoss' = sfEarlyLoss
  BY DEF Replaces, masterVars
<1>3. /\ \A k \in SecretNames : sfRecord'[k] = IF k = n THEN r ELSE sfRecord[k]
      /\ \A k \in SecretNames : sfEarlier'[k] = IF k = n THEN sfEarlier[n] \cup {sfRecord[n]} ELSE sfEarlier[k]
  BY <1>2 DEF DiskInv
<1>4. /\ sfRecord' \in [SecretNames -> {NoRecord} \cup Records(sfMade)]
      /\ sfEarlier' \in [SecretNames -> SUBSET ({NoRecord} \cup Records(sfMade))]
  BY <1>2 DEF DiskInv
<1>5. ASSUME ~sfEarlyLoss, NEW k \in SecretNames, NEW q \in {sfRecord'[k]} \cup sfEarlier'[k]
      PROVE  q = NoRecord \/ q.key = sfKeyFile
  BY <1>3, <1>5 DEF DiskInv
<1> QED
  BY <1>1, <1>2, <1>4, <1>5 DEF DiskInv

LEMMA CallerKeeps ==
    ASSUME SecretInv, NEW c \in Callers, CallerStep(c)
    PROVE  SecretInv'
<1> USE DEF SecretInv
<1>a. {"not found", "error", "ok"} \subseteq Results /\ SecretValues \subseteq Results
  BY DEF Results
<1>1. ASSUME NEW op \in {"get", "set", "delete"}, NEW n \in SecretNames, NEW v \in SecretValues \cup {NoSecret}, Call(c, op, n, v)
      PROVE  SecretInv'
  <2> DEFINE x == [at |-> "begun", op |-> op, name |-> n, value |-> v, result |-> "none"]
  <2>1. x \in CallsUnderWay /\ x.at = "begun" /\ x.op = op /\ x.value = v
    BY DEF CallsUnderWay, Results
  <2>2. /\ sfPhase = "open" /\ sfCall' = [sfCall EXCEPT ![c] = x] /\ ((op = "set") <=> (v # NoSecret)) /\ sfCall[c].at = "idle"
        /\ UNCHANGED <<sfPhase, masterVars, diskVars, sfTemps, sfEarlyLoss>>
    BY <1>1, Zenon DEF Call
  <2>3. sfTemps' = sfTemps \ {c}
    BY <2>2 DEF CallsInv
  <2> HIDE DEF x
  <2>4. CallsInv'
    BY <2>1, <2>2, <2>3, OneCallChanges
  <2> QED
    BY <2>2, <2>4, FilesStay
<1>2. CASE Get(c)
  <2> DEFINE n == sfCall[c].name
             res == IF sfRecord[n] = NoRecord THEN "not found" ELSE IF Decrypts(sfRecord[n], n) THEN sfRecord[n].value ELSE "error"
  <2>1. sfCall[c].at = "begun" /\ Ends(c, res) /\ UNCHANGED <<sfPhase, masterVars, diskVars, sfTemps, sfCount, sfEarlyLoss>>
    BY <1>2 DEF Get
  <2>2. sfCall[c] \in CallsUnderWay /\ sfCall[c].name \in SecretNames
    BY <2>1, CallsTyped, CallFields
  <2>3. sfRecord[n] # NoRecord => sfRecord[n].value \in SecretValues
    BY <2>2, RecordFields DEF DiskInv, KeyInv
  <2>4. res \in Results
    BY <1>a, <2>3
  <2>5. sfTemps' = sfTemps \ {c}
    BY <2>1 DEF CallsInv
  <2> HIDE DEF res
  <2> QED
    BY <2>1, <2>4, <2>5, EndsKeepsCalls, FilesStay
<1>3. CASE Delete(c)
  <2> DEFINE n == sfCall[c].name
             res == IF sfRecord[n] = NoRecord THEN "not found" ELSE "ok"
  <2>1. sfCall[c].at = "begun" /\ Ends(c, res) /\ Replaces(n, NoRecord) /\ UNCHANGED <<sfPhase, masterVars, sfTemps, sfCount, sfEarlyLoss>>
    BY <1>3 DEF Delete
  <2>2. sfCall[c] \in CallsUnderWay /\ sfCall[c].name \in SecretNames
    BY <2>1, CallsTyped, CallFields
  <2>4. res \in Results
    BY <1>a
  <2>5. sfTemps' = sfTemps \ {c}
    BY <2>1 DEF CallsInv
  <2> HIDE DEF res
  <2>6. CallsInv'
    BY <2>1, <2>4, <2>5, EndsKeepsCalls
  <2>7. KeyInv' /\ DiskInv'
    BY <2>1, <2>2, ReplacesKeeps
  <2> QED
    BY <2>6, <2>7
<1>4. CASE CreateTemp(c) \/ WriteTemp(c)
  <2>1. PICK p \in {"temp", "written"} : sfCall' = [sfCall EXCEPT ![c].at = p] /\ sfTemps' = sfTemps \cup {c}
    <3>1. CASE CreateTemp(c)
      BY <3>1 DEF CreateTemp
    <3>2. CASE WriteTemp(c)
      BY <3>2 DEF WriteTemp, CallsInv
    <3> QED
      BY <1>4, <3>1, <3>2
  <2>2. sfCall[c].at # "idle" /\ sfCall[c].op = "set" /\ UNCHANGED <<sfPhase, masterVars, diskVars, sfEarlyLoss>>
    BY <1>4 DEF CreateTemp, WriteTemp, CallsInv
  <2> DEFINE x == [sfCall[c] EXCEPT !.at = p]
  <2>3. x \in CallsUnderWay /\ x.at = p /\ x.op = sfCall[c].op /\ x.value = sfCall[c].value
    BY <2>2, CallGoesOn
  <2>4. sfCall' = [sfCall EXCEPT ![c] = x]
    BY <2>1 DEF CallsInv
  <2>5. sfPhase = "open" /\ ((x.op = "set") <=> (x.value # NoSecret))
    BY <2>2, <2>3 DEF CallsInv
  <2> HIDE DEF x
  <2>6. CallsInv'
    BY <2>1, <2>2, <2>3, <2>4, <2>5, OneCallChanges
  <2> QED
    BY <2>2, <2>6, FilesStay
<1>5. CASE RenameTemp(c)
  <2>1. /\ sfCall[c].at = "written" /\ Ends(c, "ok") /\ Replaces(sfCall[c].name, Encrypted(c)) /\ sfTemps' = sfTemps \ {c}
        /\ UNCHANGED <<sfPhase, masterVars, sfCount, sfEarlyLoss>>
    BY <1>5 DEF RenameTemp
  <2>2. sfCall[c].name \in SecretNames /\ sfCall[c].value \in SecretValues /\ sfPhase = "open"
    BY <2>1, CallsTyped, CallFields DEF CallsInv
  <2>3. sfKey \in 1..sfMade /\ sfKey = sfKeyFile
    BY <2>2 DEF KeyInv, Empty
  <2>4. Encrypted(c) \in Records(sfMade) /\ Encrypted(c).key = sfKeyFile
    BY <2>2, <2>3 DEF Encrypted, Records
  <2>5. CallsInv'
    BY <1>a, <2>1, EndsKeepsCalls
  <2>6. KeyInv' /\ DiskInv'
    BY <2>1, <2>2, <2>4, ReplacesKeeps
  <2> QED
    BY <2>5, <2>6
<1>6. CASE CallFails(c)
  <2>1. sfCall[c].at # "idle" /\ Ends(c, "error") /\ sfTemps' = sfTemps \ {c} /\ UNCHANGED <<sfPhase, masterVars, diskVars, sfEarlyLoss>>
    BY <1>6 DEF CallFails, TempRemoved
  <2> QED
    BY <1>a, <2>1, EndsKeepsCalls, FilesStay
<1>7. CASE CallReturns(c)
  <2>1. sfCall[c].at = "done" /\ sfCall' = [sfCall EXCEPT ![c] = NoCall] /\ UNCHANGED <<sfPhase, masterVars, diskVars, sfTemps, sfEarlyLoss>>
    BY <1>7 DEF CallReturns
  <2>2. sfTemps' = sfTemps \ {c}
    BY <2>1 DEF CallsInv
  <2>3. CallsInv'
    BY <2>1, <2>2, NoCallFields, OneCallChanges
  <2> QED
    BY <2>1, <2>3, FilesStay
<1> QED
  BY <1>1, <1>2, <1>3, <1>4, <1>5, <1>6, <1>7 DEF CallerStep

\* The program or the host is lost.
LEMMA LossKeeps ==
    ASSUME SecretInv, SecretCrash \/ HostOutage
    PROVE  SecretInv'
<1> USE DEF SecretInv
<1>1. /\ Lost
      /\ sfKeyFile' \in {0, Empty, sfKeyFile} /\ (sfSettled => sfKeyFile' = sfKeyFile)
  BY DEF SecretCrash, HostOutage, Lost, NoKeyFile
<1>2. /\ sfPhase # "down" /\ sfPhase' = "down" /\ sfTemps' = {} /\ sfCall' = [c \in Callers |-> NoCall]
      /\ sfMade' = sfMade /\ sfSettled' = sfSettled
  BY <1>1 DEF Lost
<1>3. sfEarlyLoss' \in BOOLEAN /\ (~sfEarlyLoss' => ~sfEarlyLoss /\ sfSettled)
  BY <1>1, Zenon DEF Lost
<1>4. KeyInv'
  BY <1>1, <1>2, <1>3 DEF KeyInv
<1>5. CallsInv'
  BY <1>2, NoCallFields DEF CallsInv
<1>6. /\ sfRecord' \in [SecretNames -> {NoRecord} \cup Records(sfMade)]
      /\ sfEarlier' \in [SecretNames -> SUBSET ({NoRecord} \cup Records(sfMade))]
      /\ \A n \in SecretNames : {sfRecord'[n]} \cup sfEarlier'[n] \subseteq {sfRecord[n]} \cup sfEarlier[n]
  <2>1. CASE SecretCrash
    BY <2>1 DEF SecretCrash, DiskInv
  <2>2. CASE HostOutage
    <3>1. /\ \E S : sfRecord' \in [SecretNames -> S]
          /\ \A n \in SecretNames : sfRecord'[n] \in {sfRecord[n]} \cup sfEarlier[n]
          /\ sfEarlier' = [n \in SecretNames |-> {}]
      BY <2>2 DEF HostOutage
    <3>2. \A n \in SecretNames : {sfRecord[n]} \cup sfEarlier[n] \subseteq {NoRecord} \cup Records(sfMade)
      BY DEF DiskInv
    <3> QED
      BY <3>1, <3>2
  <2> QED
    BY <2>1, <2>2
<1>7. DiskInv'
  <2>1. ASSUME ~sfEarlyLoss' PROVE sfKeyFile' = sfKeyFile /\ sfKeyFile # Empty /\ ~sfEarlyLoss
    BY <1>1, <1>3, <2>1 DEF KeyInv, Empty
  <2> QED
    BY <1>2, <1>6, <2>1 DEF DiskInv
<1> QED
  BY <1>4, <1>5, <1>7

LEMMA OutsideKeeps ==
    ASSUME SecretInv, WriteBack \/ \E n, m \in SecretNames : Misplace(n, m)
    PROVE  SecretInv'
<1> USE DEF SecretInv
<1>1. CASE WriteBack
  <2>1. KeyInv' /\ CallsInv'
    BY <1>1 DEF WriteBack, KeyInv, CallsInv, masterVars
  <2>2. DiskInv'
    BY <1>1 DEF WriteBack, DiskInv, masterVars
  <2> QED
    BY <2>1, <2>2
<1>2. ASSUME NEW n \in SecretNames, NEW m \in SecretNames, Misplace(n, m) PROVE SecretInv'
  <2>1. KeyInv' /\ CallsInv'
    BY <1>2 DEF Misplace, KeyInv, CallsInv, masterVars
  <2>2. \A k \in SecretNames : sfRecord'[k] = IF k = m THEN sfRecord[n] ELSE sfRecord[k]
    BY <1>2 DEF Misplace, DiskInv
  <2>3. sfRecord' \in [SecretNames -> {NoRecord} \cup Records(sfMade)]
    BY <1>2 DEF Misplace, DiskInv
  <2>4. UNCHANGED <<sfPhase, sfKeyFile, sfMade, sfEarlier, sfEarlyLoss>>
    BY <1>2 DEF Misplace, masterVars
  <2>5. DiskInv'
    BY <2>2, <2>3, <2>4 DEF DiskInv
  <2> QED
    BY <2>1, <2>5
<1> QED
  BY <1>1, <1>2

LEMMA SecretStep == SecretInv /\ [SecretNext]_secretVars => SecretInv'
<1> SUFFICES ASSUME SecretInv, [SecretNext]_secretVars PROVE SecretInv'
  OBVIOUS
<1>1. CASE UNCHANGED secretVars
  BY <1>1 DEF SecretInv, KeyInv, DiskInv, CallsInv, secretVars, masterVars, diskVars
<1> QED
  BY <1>1, MasterStep, CallerKeeps, LossKeeps, OutsideKeeps DEF SecretNext

-----------------------------------------------------------------------------
\* What a record is worth depends on the key on disk only as far as it fits.
LEMMA WorthOf ==
    ASSUME NEW m \in Nat, NEW r \in {NoRecord} \cup Records(m), NEW k, NEW n \in SecretNames
    PROVE  /\ r = NoRecord => Worth(k, r, n) = NoSecret
           /\ r # NoRecord /\ r.key = k /\ r.bound = n => Worth(k, r, n) = r.value /\ r.value \in SecretValues
           /\ r # NoRecord /\ ~(r.key = k /\ r.bound = n) => Worth(k, r, n) = Unreadable
           /\ Worth(k, r, n) = NoSecret <=> r = NoRecord
           /\ Worth(k, r, n) = Unreadable <=> r # NoRecord /\ ~(r.key = k /\ r.bound = n)
           /\ Worth(k, r, n) \in SecretValues \cup {NoSecret, Unreadable}
BY RecordFields, SecretAssumption DEF Worth

LEMMA AbstractFields ==
    ASSUME NEW x \in CallsUnderWay
    PROVE  /\ AbstractCall(x).at = (IF x.at = "done" THEN "done" ELSE "pending")
           /\ AbstractCall(x).op = x.op /\ AbstractCall(x).name = x.name /\ AbstractCall(x).value = x.value
           /\ \A res \in Results : AbstractCall([x EXCEPT !.at = "done", !.result = res])
                                     = [AbstractCall(x) EXCEPT !.at = "done", !.result = res]
BY DEF AbstractCall, CallsUnderWay

LEMMA AbstractIdle == AbstractCall(NoCall) = NoCall /\ FileStore!KvIdle = NoCall
BY DEF AbstractCall, NoCall, FileStore!KvIdle

LEMMA AbstractAt ==
    ASSUME CallsInv, NEW c \in Callers
    PROVE  /\ AbstractCalls[c] = AbstractCall(sfCall[c])
           /\ sfCall[c].at = "idle" => AbstractCalls[c] = NoCall
           /\ AbstractCalls[c].at = "idle" <=> sfCall[c].at = "idle"
           /\ AbstractCalls[c].at = "pending" <=> sfCall[c].at \in {"begun", "temp", "written"}
<1>1. AbstractCalls[c] = AbstractCall(sfCall[c])
  BY DEF AbstractCalls
<1>2. CASE sfCall[c] = NoCall
  BY <1>1, <1>2, AbstractIdle, NoCallFields
<1>3. CASE sfCall[c] \in CallsUnderWay
  BY <1>1, <1>3, AbstractFields, CallFields, ZenonT(60)
<1> QED
  BY <1>2, <1>3 DEF CallsInv

LEMMA OneAbstractCall ==
    ASSUME CallsInv, NEW c \in Callers, NEW x, sfCall' = [sfCall EXCEPT ![c] = x]
    PROVE  AbstractCalls' = [AbstractCalls EXCEPT ![c] = AbstractCall(x)]
BY DEF AbstractCalls, CallsInv

LEMMA AbstractStay == UNCHANGED sfCall => UNCHANGED AbstractCalls
BY DEF AbstractCalls

LEMMA HeldStays == UNCHANGED <<masterVars, diskVars>> => UNCHANGED <<HeldStore, HeldEarlier, sfSettled>>
BY DEF HeldStore, HeldEarlier, masterVars, diskVars

\* The master key: nobody sees it made.
LEMMA MasterHides ==
    ASSUME SecretInv, OpenExisting \/ CreateKeyFile \/ WriteKeyFile \/ WriteKeyFails
    PROVE  UNCHANGED FileStore!kvVars
<1> USE DEF SecretInv
<1>0. /\ sfRecord' = sfRecord /\ sfEarlier' = sfEarlier /\ sfSettled' = sfSettled /\ sfCall' = sfCall /\ sfMade \in Nat
      /\ sfKeyFile' = sfKeyFile \/ (sfKeyFile \in {0, Empty} /\ (sfKeyFile' = Empty \/ sfKeyFile' = sfMade + 1))
  BY DEF OpenExisting, CreateKeyFile, WriteKeyFile, WriteKeyFails, KeyInv, diskVars, masterVars, MustGenerate, NoKeyFile
<1>1. ASSUME NEW r \in {NoRecord} \cup Records(sfMade), NEW n \in SecretNames
      PROVE  Worth(sfKeyFile', r, n) = Worth(sfKeyFile, r, n)
  <2>1. r # NoRecord => ((r.key = sfKeyFile) <=> (r.key = sfKeyFile'))
    BY <1>0, RecordFields DEF Empty
  <2> QED
    BY <2>1 DEF Worth
<1>2. \A n \in SecretNames : sfRecord[n] \in {NoRecord} \cup Records(sfMade) /\ sfEarlier[n] \subseteq {NoRecord} \cup Records(sfMade)
  BY DEF DiskInv
<1>3. HeldStore' = HeldStore
  BY <1>0, <1>1, <1>2 DEF HeldStore
<1>4. HeldEarlier' = HeldEarlier
  <2>1. \A n \in SecretNames : {Worth(sfKeyFile', r, n) : r \in sfEarlier[n]} = {Worth(sfKeyFile, r, n) : r \in sfEarlier[n]}
    BY <1>1, <1>2
  <2> QED
    BY <1>0, <2>1 DEF HeldEarlier
<1> QED
  BY <1>0, <1>3, <1>4, AbstractStay DEF FileStore!kvVars

\* A record is replaced: the store holds what the new one is worth.
LEMMA HeldAfter ==
    ASSUME DiskInv, NEW n \in SecretNames, NEW r, Replaces(n, r), UNCHANGED sfKeyFile
    PROVE  /\ HeldStore' = [HeldStore EXCEPT ![n] = Worth(sfKeyFile, r, n)]
           /\ HeldEarlier' = [HeldEarlier EXCEPT ![n] = @ \cup {HeldStore[n]}]
           /\ UNCHANGED sfSettled
<1>1. /\ \A k \in SecretNames : sfRecord'[k] = IF k = n THEN r ELSE sfRecord[k]
      /\ \A k \in SecretNames : sfEarlier'[k] = IF k = n THEN sfEarlier[n] \cup {sfRecord[n]} ELSE sfEarlier[k]
      /\ UNCHANGED sfSettled
  BY DEF Replaces, DiskInv
<1>2. HeldStore' = [HeldStore EXCEPT ![n] = Worth(sfKeyFile, r, n)]
  BY <1>1 DEF HeldStore
<1>3. {Worth(sfKeyFile, q, n) : q \in sfEarlier[n] \cup {sfRecord[n]}} = {Worth(sfKeyFile, q, n) : q \in sfEarlier[n]} \cup {HeldStore[n]}
  BY DEF HeldStore
<1>4. HeldEarlier' = [HeldEarlier EXCEPT ![n] = @ \cup {HeldStore[n]}]
  <2> DEFINE W(k) == {Worth(sfKeyFile, q, k) : q \in sfEarlier[k]}
             V(k) == {Worth(sfKeyFile, q, k) : q \in sfEarlier'[k]}
  <2>1. HeldEarlier = [k \in SecretNames |-> W(k)] /\ HeldEarlier' = [k \in SecretNames |-> V(k)]
    BY DEF HeldEarlier
  <2>2. V(n) = W(n) \cup {HeldStore[n]}
    BY <1>1, <1>3
  <2>3. \A k \in SecretNames : k # n => V(k) = W(k)
    BY <1>1
  <2> HIDE DEF W, V
  <2> QED
    BY <2>1, <2>2, <2>3
<1> QED
  BY <1>1, <1>2, <1>4

\* A call that ends, as the store sees it.
LEMMA EndsAbstract ==
    ASSUME CallsInv, NEW c \in Callers, sfCall[c].at # "idle", NEW res \in Results, Ends(c, res)
    PROVE  AbstractCalls' = [AbstractCalls EXCEPT ![c].at = "done", ![c].result = res]
<1> DEFINE x == [sfCall[c] EXCEPT !.at = "done", !.result = res]
<1>1. sfCall' = [sfCall EXCEPT ![c] = x]
  BY DEF Ends, CallsInv
<1>2. AbstractCalls' = [AbstractCalls EXCEPT ![c] = AbstractCall(x)]
  BY <1>1, OneAbstractCall
<1>3. AbstractCall(x) = [AbstractCalls[c] EXCEPT !.at = "done", !.result = res]
  <2>1. sfCall[c] \in CallsUnderWay
    BY CallsTyped
  <2>2. AbstractCall(x) = [AbstractCall(sfCall[c]) EXCEPT !.at = "done", !.result = res]
    BY <2>1, AbstractFields, Zenon
  <2>3. AbstractCalls[c] = AbstractCall(sfCall[c])
    BY AbstractAt
  <2> QED
    BY <2>2, <2>3, Zenon
<1> QED
  BY <1>2, <1>3 DEF AbstractCalls

\* What each operation answers and leaves.
LEMMA ReplyOf ==
    ASSUME NEW held
    PROVE  /\ FileStore!Reply("set", held) = "ok"
           /\ FileStore!Reply("delete", held) = (IF held = NoSecret THEN "not found" ELSE "ok")
           /\ FileStore!Reply("get", held) = (IF held = NoSecret THEN "not found" ELSE IF held = Unreadable THEN "error" ELSE held)
BY DEF FileStore!Reply

LEMMA LeftOf ==
    ASSUME NEW held, NEW v
    PROVE  /\ FileStore!Left("set", held, v) = v
           /\ FileStore!Left("delete", held, v) = NoSecret
           /\ FileStore!Left("get", held, v) = held
BY DEF FileStore!Left

\* Get, Delete and the rename are where a call takes effect.
LEMMA EffectAbstract ==
    ASSUME CallsInv, NEW c \in Callers, sfCall[c].at \in {"begun", "temp", "written"}, NEW op, op = sfCall[c].op,
           NEW n, n = sfCall[c].name, NEW res \in Results,
           Ends(c, res), res = FileStore!Reply(op, HeldStore[n]),
           HeldStore' = [HeldStore EXCEPT ![n] = FileStore!Left(op, HeldStore[n], sfCall[c].value)],
           HeldEarlier' = [HeldEarlier EXCEPT ![n] = IF op = "get" THEN @ ELSE @ \cup {HeldStore[n]}],
           UNCHANGED sfSettled
    PROVE  FileStore!TakesEffect(c)
<1>1. sfCall[c] \in CallsUnderWay
  BY CallsTyped
<1>2. AbstractCalls[c].name = n /\ AbstractCalls[c].op = op /\ AbstractCalls[c].value = sfCall[c].value /\ AbstractCalls[c].at = "pending"
  BY <1>1, AbstractFields, AbstractAt
<1>3. AbstractCalls' = [AbstractCalls EXCEPT ![c].at = "done", ![c].result = res]
  BY EndsAbstract
<1> QED
  BY <1>2, <1>3 DEF FileStore!TakesEffect

LEMMA CallerImplements ==
    ASSUME SecretInv, NEW c \in Callers, CallerStep(c)
    PROVE  FileStore!KvNext \/ UNCHANGED FileStore!kvVars
<1> USE DEF SecretInv
<1>a. {"not found", "error", "ok"} \subseteq Results /\ SecretValues \subseteq Results
  BY DEF Results
<1>b. sfMade \in Nat
  BY DEF KeyInv
<1>1. ASSUME NEW op \in {"get", "set", "delete"}, NEW n \in SecretNames, NEW v \in SecretValues \cup {NoSecret}, Call(c, op, n, v)
      PROVE  FileStore!Invoke(c, op, n, v)
  <2> DEFINE x == [at |-> "begun", op |-> op, name |-> n, value |-> v, result |-> "none"]
  <2>1. sfCall' = [sfCall EXCEPT ![c] = x] /\ sfCall[c].at = "idle" /\ UNCHANGED <<masterVars, diskVars>>
    BY <1>1 DEF Call
  <2>2. AbstractCalls' = [AbstractCalls EXCEPT ![c] = AbstractCall(x)]
    BY <2>1, OneAbstractCall
  <2>3. AbstractCall(x) = [at |-> "pending", op |-> op, name |-> n, value |-> v, result |-> "none"]
    BY DEF AbstractCall
  <2>4. AbstractCalls[c].at = "idle"
    BY <2>1, AbstractAt
  <2> HIDE DEF x
  <2> QED
    BY <2>1, <2>2, <2>3, <2>4, HeldStays DEF FileStore!Invoke
<1>2. CASE Get(c)
  <2> DEFINE n == sfCall[c].name
             r == sfRecord[n]
             res == IF r = NoRecord THEN "not found" ELSE IF Decrypts(r, n) THEN r.value ELSE "error"
  <2>1. sfCall[c].at = "begun" /\ sfCall[c].op = "get" /\ Ends(c, res) /\ UNCHANGED <<sfPhase, masterVars, diskVars>>
    BY <1>2 DEF Get
  <2>2. n \in SecretNames /\ sfPhase = "open"
    BY <2>1, CallsTyped, CallFields DEF CallsInv
  <2>3. r \in {NoRecord} \cup Records(sfMade) /\ HeldStore[n] = Worth(sfKeyFile, r, n)
    BY <2>2 DEF DiskInv, HeldStore
  <2>4. Decrypts(r, n) <=> r.key = sfKeyFile /\ r.bound = n
    BY <2>2 DEF Decrypts, KeyInv
  <2>5. /\ HeldStore[n] = NoSecret <=> r = NoRecord
        /\ HeldStore[n] = Unreadable <=> r # NoRecord /\ ~Decrypts(r, n)
        /\ r # NoRecord /\ Decrypts(r, n) => HeldStore[n] = r.value /\ r.value \in SecretValues
    BY <1>b, <2>2, <2>3, <2>4, WorthOf
  <2>6. res = FileStore!Reply("get", HeldStore[n]) /\ res \in Results
    BY <1>a, <2>5, ReplyOf
  <2>7. /\ HeldStore' = [HeldStore EXCEPT ![n] = FileStore!Left("get", HeldStore[n], sfCall[c].value)]
        /\ HeldEarlier' = HeldEarlier /\ UNCHANGED sfSettled
    <3>1. FileStore!Left("get", HeldStore[n], sfCall[c].value) = HeldStore[n]
      BY LeftOf
    <3>2. HeldStore = [HeldStore EXCEPT ![n] = HeldStore[n]]
      BY <2>2 DEF HeldStore
    <3> QED
      BY <2>1, <3>1, <3>2, HeldStays
  <2>8. HeldEarlier' = [HeldEarlier EXCEPT ![n] = @]
    BY <2>2, <2>7 DEF HeldEarlier
  <2> HIDE DEF n, r, res
  <2>9. FileStore!TakesEffect(c)
    BY <2>1, <2>6, <2>7, <2>8, EffectAbstract DEF n
  <2> QED
    BY <2>9 DEF FileStore!KvNext
<1>3. CASE Delete(c)
  <2> DEFINE n == sfCall[c].name
             res == IF sfRecord[n] = NoRecord THEN "not found" ELSE "ok"
  <2>1. sfCall[c].at = "begun" /\ sfCall[c].op = "delete" /\ Ends(c, res) /\ Replaces(n, NoRecord) /\ UNCHANGED <<sfPhase, masterVars>>
    BY <1>3 DEF Delete
  <2>2. n \in SecretNames
    BY <2>1, CallsTyped, CallFields
  <2>3. sfRecord[n] \in {NoRecord} \cup Records(sfMade) /\ HeldStore[n] = Worth(sfKeyFile, sfRecord[n], n)
    BY <2>2 DEF DiskInv, HeldStore
  <2>4. HeldStore[n] = NoSecret <=> sfRecord[n] = NoRecord
    BY <1>b, <2>2, <2>3, WorthOf
  <2>5. res = FileStore!Reply("delete", HeldStore[n]) /\ res \in Results
    BY <1>a, <2>4, ReplyOf
  <2>6. Worth(sfKeyFile, NoRecord, n) = FileStore!Left("delete", HeldStore[n], sfCall[c].value)
    <3>1. FileStore!Left("delete", HeldStore[n], sfCall[c].value) = NoSecret
      BY LeftOf
    <3> QED
      BY <3>1 DEF Worth
  <2>7. /\ HeldStore' = [HeldStore EXCEPT ![n] = FileStore!Left("delete", HeldStore[n], sfCall[c].value)]
        /\ HeldEarlier' = [HeldEarlier EXCEPT ![n] = @ \cup {HeldStore[n]}] /\ UNCHANGED sfSettled
    BY <2>1, <2>2, <2>6, HeldAfter DEF masterVars
  <2> HIDE DEF n, res
  <2>8. FileStore!TakesEffect(c)
    BY <2>1, <2>5, <2>7, EffectAbstract DEF n
  <2> QED
    BY <2>8 DEF FileStore!KvNext
<1>4. CASE CreateTemp(c) \/ WriteTemp(c)
  <2>1. PICK p \in {"temp", "written"} : sfCall' = [sfCall EXCEPT ![c].at = p]
    BY <1>4 DEF CreateTemp, WriteTemp
  <2>2. sfCall[c].at \in {"begun", "temp"} /\ UNCHANGED <<masterVars, diskVars>>
    BY <1>4 DEF CreateTemp, WriteTemp
  <2> DEFINE x == [sfCall[c] EXCEPT !.at = p]
  <2>3. sfCall' = [sfCall EXCEPT ![c] = x] /\ sfCall[c] \in CallsUnderWay
    BY <2>1, <2>2, CallsTyped DEF CallsInv
  <2>4. AbstractCall(x) = AbstractCall(sfCall[c])
    BY <2>2, <2>3 DEF AbstractCall, CallsUnderWay
  <2>5. AbstractCalls' = [AbstractCalls EXCEPT ![c] = AbstractCalls[c]]
    <3> HIDE DEF x
    <3>1. AbstractCalls' = [AbstractCalls EXCEPT ![c] = AbstractCall(x)]
      BY <2>3, OneAbstractCall
    <3> QED
      BY <2>4, <3>1, AbstractAt
  <2>6. AbstractCalls' = AbstractCalls
    BY <2>5 DEF AbstractCalls
  <2> QED
    BY <2>2, <2>6, HeldStays DEF FileStore!kvVars
<1>5. CASE RenameTemp(c)
  <2> DEFINE n == sfCall[c].name
  <2>1. /\ sfCall[c].at = "written" /\ Ends(c, "ok") /\ Replaces(n, Encrypted(c)) /\ UNCHANGED masterVars
    BY <1>5 DEF RenameTemp
  <2>2. n \in SecretNames /\ sfCall[c].value \in SecretValues /\ sfPhase = "open" /\ sfCall[c].op = "set"
    BY <2>1, CallsTyped, CallFields DEF CallsInv
  <2>3. sfKey \in 1..sfMade /\ sfKey = sfKeyFile
    BY <2>2 DEF KeyInv, Empty
  <2>4. Encrypted(c) \in Records(sfMade) /\ Encrypted(c).key = sfKeyFile /\ Encrypted(c).bound = n /\ Encrypted(c).value = sfCall[c].value
    BY <2>2, <2>3 DEF Encrypted, Records
  <2>5. Worth(sfKeyFile, Encrypted(c), n) = sfCall[c].value
    BY <1>b, <2>2, <2>4, WorthOf, RecordFields
  <2>6. Worth(sfKeyFile, Encrypted(c), n) = FileStore!Left("set", HeldStore[n], sfCall[c].value) /\ "ok" = FileStore!Reply("set", HeldStore[n])
    BY <2>5, ReplyOf, LeftOf
  <2>7. /\ HeldStore' = [HeldStore EXCEPT ![n] = FileStore!Left("set", HeldStore[n], sfCall[c].value)]
        /\ HeldEarlier' = [HeldEarlier EXCEPT ![n] = @ \cup {HeldStore[n]}] /\ UNCHANGED sfSettled
    BY <2>1, <2>2, <2>6, HeldAfter DEF masterVars
  <2> HIDE DEF n
  <2>8. FileStore!TakesEffect(c)
    BY <1>a, <2>1, <2>2, <2>6, <2>7, EffectAbstract DEF n
  <2> QED
    BY <2>8 DEF FileStore!KvNext
<1>6. CASE CallFails(c)
  <2>1. sfCall[c].at \in {"begun", "temp", "written"} /\ Ends(c, "error") /\ UNCHANGED <<masterVars, diskVars>>
    BY <1>6 DEF CallFails
  <2>2. AbstractCalls' = [AbstractCalls EXCEPT ![c].at = "done", ![c].result = "error"] /\ AbstractCalls[c].at = "pending"
    BY <1>a, <2>1, EndsAbstract, AbstractAt
  <2>3. FileStore!FailsWithoutEffect(c)
    BY <2>1, <2>2, HeldStays DEF FileStore!FailsWithoutEffect
  <2> QED
    BY <2>3 DEF FileStore!KvNext
<1>7. CASE CallReturns(c)
  <2>1. sfCall[c].at = "done" /\ sfCall' = [sfCall EXCEPT ![c] = NoCall] /\ UNCHANGED <<masterVars, diskVars>>
    BY <1>7 DEF CallReturns
  <2>2. AbstractCalls' = [AbstractCalls EXCEPT ![c] = FileStore!KvIdle]
    BY <2>1, OneAbstractCall, AbstractIdle
  <2>3. AbstractCalls[c].at = "done"
    BY <2>1, CallsTyped, AbstractFields, AbstractAt
  <2>4. FileStore!Respond(c)
    BY <2>1, <2>2, <2>3, HeldStays DEF FileStore!Respond
  <2> QED
    BY <2>4 DEF FileStore!KvNext
<1>8. ASSUME NEW op \in {"get", "set", "delete"}, NEW n \in SecretNames, NEW v \in SecretValues \cup {NoSecret}, Call(c, op, n, v)
      PROVE  FileStore!KvNext
  BY <1>1, <1>8 DEF FileStore!KvNext
<1> QED
  BY <1>2, <1>3, <1>4, <1>5, <1>6, <1>7, <1>8 DEF CallerStep

LEMMA LossImplements ==
    ASSUME SecretInv, SecretCrash \/ HostOutage
    PROVE  FileStore!ProgramCrash \/ FileStore!Outage
<1> USE DEF SecretInv
<1>0. sfMade \in Nat
  BY DEF KeyInv
<1>1. AbstractCalls' = [c \in Callers |-> FileStore!KvIdle]
  <2>1. sfCall' = [c \in Callers |-> NoCall]
    BY DEF SecretCrash, HostOutage, Lost
  <2> QED
    BY <2>1, AbstractIdle DEF AbstractCalls
<1>2. CASE SecretCrash
  <2>1. UNCHANGED <<HeldStore, HeldEarlier, sfSettled>>
    BY <1>2 DEF SecretCrash, Lost, HeldStore, HeldEarlier
  <2> QED
    BY <1>1, <2>1 DEF FileStore!ProgramCrash
<1>3. CASE HostOutage
  <2>1. /\ sfKeyFile' \in {0, Empty, sfKeyFile} /\ (sfSettled => sfKeyFile' = sfKeyFile) /\ sfSettled' = sfSettled
        /\ \A n \in SecretNames : sfRecord'[n] \in {sfRecord[n]} \cup sfEarlier[n]
        /\ sfEarlier' = [n \in SecretNames |-> {}]
    BY <1>3 DEF HostOutage, Lost, NoKeyFile
  <2>2. HeldEarlier' = [n \in SecretNames |-> {}]
    BY <2>1 DEF HeldEarlier
  <2>3. ASSUME NEW n \in SecretNames
        PROVE  Worth(sfKeyFile', sfRecord'[n], n) \in FileStore!Contents /\ Worth(sfKeyFile', sfRecord'[n], n) \in FileStore!MayReturn(n)
    <3> DEFINE r == sfRecord'[n]
    <3>1. r \in {NoRecord} \cup Records(sfMade) /\ (r = sfRecord[n] \/ r \in sfEarlier[n])
      BY <2>1 DEF DiskInv
    <3>2. Worth(sfKeyFile', r, n) \in FileStore!Contents
      BY <1>0, <3>1, WorthOf DEF FileStore!Contents
    <3>3. Worth(sfKeyFile, r, n) \in {HeldStore[n]} \cup HeldEarlier[n]
      BY <3>1 DEF HeldStore, HeldEarlier
    <3>4. Worth(sfKeyFile', r, n) = Worth(sfKeyFile, r, n) \/ (~sfSettled /\ Worth(sfKeyFile', r, n) = Unreadable)
      <4>1. CASE r = NoRecord
        BY <4>1 DEF Worth
      <4>2. CASE r # NoRecord /\ r.key = sfKeyFile'
        <5>1. sfKeyFile' > 0
          BY <1>0, <3>1, <4>2, RecordFields
        <5>2. sfKeyFile' = sfKeyFile
          BY <2>1, <5>1 DEF Empty
        <5> QED
          BY <5>2
      <4>3. CASE r # NoRecord /\ r.key # sfKeyFile'
        BY <1>0, <2>1, <3>1, <4>3, WorthOf
      <4> QED
        BY <4>1, <4>2, <4>3
    <3> QED
      BY <3>2, <3>3, <3>4 DEF FileStore!MayReturn
  <2>4. HeldStore' \in [SecretNames -> FileStore!Contents] /\ \A n \in SecretNames : HeldStore'[n] \in FileStore!MayReturn(n)
    BY <2>3 DEF HeldStore
  <2> QED
    BY <1>1, <2>1, <2>2, <2>4 DEF FileStore!Outage
<1> QED
  BY <1>2, <1>3

LEMMA OutsideImplements ==
    ASSUME SecretInv, WriteBack \/ \E n, m \in SecretNames : Misplace(n, m)
    PROVE  FileStore!Settle \/ \E n \in SecretNames : FileStore!Damage(n)
<1> USE DEF SecretInv
<1>1. CASE WriteBack
  <2>1. HeldStore' = HeldStore /\ AbstractCalls' = AbstractCalls /\ sfSettled' = TRUE
    BY <1>1 DEF WriteBack, masterVars, HeldStore, AbstractCalls
  <2>2. HeldEarlier' = [n \in SecretNames |-> {}]
    BY <1>1 DEF WriteBack, masterVars, HeldEarlier
  <2> QED
    BY <2>1, <2>2 DEF FileStore!Settle
<1>2. ASSUME NEW n \in SecretNames, NEW m \in SecretNames, Misplace(n, m) PROVE FileStore!Damage(m)
  <2>0. /\ n # m /\ sfRecord[n].bound = n /\ sfRecord' = [sfRecord EXCEPT ![m] = sfRecord[n]]
        /\ UNCHANGED <<sfKeyFile, sfEarlier, sfSettled, sfCall>>
    BY <1>2 DEF Misplace, masterVars
  <2>1. sfRecord[n] # NoRecord /\ sfRecord[n] \in {NoRecord} \cup Records(sfMade) /\ sfMade \in Nat
    BY <2>0, SecretAssumption DEF DiskInv, KeyInv, NoRecord
  <2>2. Worth(sfKeyFile, sfRecord[n], m) = Unreadable
    BY <2>0, <2>1 DEF Worth
  <2>3. \A k \in SecretNames : sfRecord'[k] = IF k = m THEN sfRecord[n] ELSE sfRecord[k]
    BY <2>0 DEF DiskInv
  <2>4. HeldStore' = [HeldStore EXCEPT ![m] = Unreadable]
    <3>1. HeldStore' = [k \in SecretNames |-> Worth(sfKeyFile, sfRecord'[k], k)]
      BY <2>0 DEF HeldStore
    <3>2. \A k \in SecretNames : Worth(sfKeyFile, sfRecord'[k], k) = IF k = m THEN Unreadable ELSE Worth(sfKeyFile, sfRecord[k], k)
      BY <2>2, <2>3
    <3> QED
      BY <3>1, <3>2 DEF HeldStore
  <2>5. UNCHANGED <<HeldEarlier, sfSettled, AbstractCalls>>
    BY <2>0 DEF HeldEarlier, AbstractCalls
  <2> QED
    BY <2>4, <2>5 DEF FileStore!Damage
<1> QED
  BY <1>1, <1>2

LEMMA StoreBegins == SecretInit => FileStore!KvInit
<1> SUFFICES ASSUME SecretInit PROVE FileStore!KvInit
  OBVIOUS
<1>1. HeldStore = [n \in SecretNames |-> NoSecret]
  BY DEF SecretInit, HeldStore, Worth
<1>2. HeldEarlier = [n \in SecretNames |-> {}]
  BY DEF SecretInit, HeldEarlier
<1>3. AbstractCalls = [c \in Callers |-> FileStore!KvIdle]
  BY AbstractIdle DEF SecretInit, AbstractCalls
<1> QED
  BY <1>1, <1>2, <1>3 DEF SecretInit, FileStore!KvInit

LEMMA StoreSteps == SecretInv /\ [SecretNext]_secretVars => [FileStore!KvNext]_(FileStore!kvVars)
<1> SUFFICES ASSUME SecretInv, [SecretNext]_secretVars PROVE FileStore!KvNext \/ UNCHANGED FileStore!kvVars
  OBVIOUS
<1>1. CASE UNCHANGED secretVars
  <2>1. UNCHANGED <<masterVars, diskVars, sfCall>>
    BY <1>1 DEF secretVars
  <2> QED
    BY <2>1, HeldStays, AbstractStay DEF FileStore!kvVars
<1>2. CASE OpenExisting \/ CreateKeyFile \/ WriteKeyFile \/ WriteKeyFails
  BY <1>2, MasterHides
<1>3. CASE \E c \in Callers : CallerStep(c)
  BY <1>3, CallerImplements
<1>4. CASE SecretCrash \/ HostOutage
  BY <1>4, LossImplements DEF FileStore!KvNext
<1>5. CASE WriteBack \/ \E n, m \in SecretNames : Misplace(n, m)
  BY <1>5, OutsideImplements DEF FileStore!KvNext
<1> QED
  BY <1>1, <1>2, <1>3, <1>4, <1>5 DEF SecretNext

-----------------------------------------------------------------------------
(* Plugins to be trusted *)

TrustTypes ==
    /\ ptDir \in {"absent", "writable", "foreign", "fit"}
    /\ ptManifest \in Versions \cup {NoVersion}
    /\ ptBinary.version \in Versions
    /\ ptSig \in Signatures
    /\ ptKeys \in KeyFiles
    /\ ptAt \in {"idle", "refused", "unknown", "manifest", "owner", "hash", "signature", "launch", "running"}
    /\ ptRead.hash \in Versions \cup {NoVersion} /\ ptRead.keys \in KeyFiles
    /\ ptTouched \in BOOLEAN

\* Unless files were replaced, what a load has read and checked is still so.
CheckedIsSo ==
    ~ptTouched =>
        /\ ptAt \in {"owner", "hash", "signature", "launch"} => ptRead.hash = ptManifest /\ ptRead.keys = ptKeys
        /\ ptAt \in {"signature", "launch"} => ptBinary.version = ptRead.hash
        /\ ptAt = "launch" => Verifies(ptBinary.version)
        /\ ptAt = "running" => Verifies(ptRan)

TrustInv == TrustTypes /\ CheckedIsSo

\* A step that refuses a load does so for a reason.
RefusesForAReason ==
    ptAt' = "refused" /\ ptAt # "refused" /\ ~ptTouched
         => ~(/\ ptDir = "fit" /\ ptBinary.fit
              /\ ptManifest = ptBinary.version /\ ptSig.version = ptBinary.version
              /\ ptSig.key \in ToSet(ptKeys))

LEMMA VersionNumbers == 1 \in Versions /\ NoVersion \notin Versions
BY TrustAssumption DEF Versions, NoVersion

LEMMA TrustBegins == TrustInit => TrustInv
<1> SUFFICES ASSUME TrustInit PROVE TrustInv
  OBVIOUS
<1>1. ptRead.hash = NoVersion /\ ptRead.keys = <<>> /\ <<>> \in KeyFiles
  BY DEF TrustInit, NothingRead, KeyFiles
<1>2. ptBinary.version = 1 /\ ptSig \in Signatures
  BY VersionNumbers DEF TrustInit, Signatures
<1> QED
  BY <1>1, <1>2, VersionNumbers DEF TrustInit, TrustInv, TrustTypes, CheckedIsSo

LEMMA TrustSafe == TrustInv => TrustTypeOK /\ RunsWhatIsSigned
BY DEF TrustInv, TrustTypes, CheckedIsSo, TrustTypeOK, RunsWhatIsSigned, Verifies, Tried

LEMMA TrustStep == TrustInv /\ [TrustNext]_trustVars => TrustInv' /\ [RefusesForAReason]_trustVars
<1> SUFFICES ASSUME TrustInv, [TrustNext]_trustVars PROVE TrustInv' /\ [RefusesForAReason]_trustVars
  OBVIOUS
<1> USE VersionNumbers DEF TrustInv, TrustTypes
<1>1. CASE LoadBegins
  <2>1. ptRead'.hash = NoVersion /\ ptRead'.keys = <<>> /\ <<>> \in KeyFiles
    BY <1>1 DEF LoadBegins, NothingRead, KeyFiles
  <2> QED
    BY <1>1, <2>1 DEF LoadBegins, LoadTo, fileVars, CheckedIsSo, RefusesForAReason
<1>2. CASE ReadsManifest
  <2>1. CASE ptManifest = NoVersion
    BY <1>2, <2>1 DEF ReadsManifest, Refuses, fileVars, CheckedIsSo, RefusesForAReason
  <2>2. CASE ptManifest # NoVersion
    <3>1. ptRead'.hash = ptManifest /\ ptRead'.keys = ptKeys /\ ptAt' = "owner"
      BY <1>2, <2>2 DEF ReadsManifest, LoadTo
    <3> QED
      BY <1>2, <2>2, <3>1 DEF ReadsManifest, fileVars, CheckedIsSo, RefusesForAReason
  <2> QED
    BY <2>1, <2>2
<1>3. CASE ChecksOwner
  BY <1>3 DEF ChecksOwner, LoadTo, Refuses, fileVars, CheckedIsSo, RefusesForAReason
<1>4. CASE ChecksHash
  BY <1>4 DEF ChecksHash, HashMatches, LoadTo, Refuses, fileVars, CheckedIsSo, RefusesForAReason
<1>5. CASE ChecksSignature
  <2>1. CASE Verifies(ptBinary.version)
    BY <1>5, <2>1 DEF ChecksSignature, LoadTo, fileVars, CheckedIsSo, RefusesForAReason, Verifies
  <2>2. CASE ~Verifies(ptBinary.version)
    <3>1. ptSig.key \in {"k1", "k2"}
      BY DEF Signatures
    <3>2. RefusesForAReason
      BY <1>5, <2>2, <3>1 DEF ChecksSignature, Verifies, Tried, CheckedIsSo, RefusesForAReason
    <3> QED
      BY <1>5, <2>2, <3>2 DEF ChecksSignature, Refuses, fileVars, CheckedIsSo
  <2> QED
    BY <2>1, <2>2
<1>6. CASE Launches
  BY <1>6 DEF Launches, LoadTo, fileVars, CheckedIsSo, RefusesForAReason, Verifies
<1>7. CASE FilesReplaced
  <2>1. /\ ptAt' = ptAt /\ ptRead' = ptRead /\ ptRan' = ptRan /\ ptAt # "running" /\ OneFileChanges
        /\ ptTouched' \in BOOLEAN /\ (~ptTouched' => Settled)
    BY <1>7, Zenon DEF FilesReplaced
  <2>2. TrustTypes'
    <3>1. /\ ptDir' \in {"absent", "writable", "foreign", "fit"} /\ ptManifest' \in Versions \cup {NoVersion} /\ ptKeys' \in KeyFiles
      BY <2>1 DEF OneFileChanges
    <3>2. ptBinary'.version \in Versions
      BY <2>1 DEF OneFileChanges
    <3>3. ptSig' \in Signatures
      BY <2>1 DEF OneFileChanges, Signatures
    <3> QED
      BY <2>1, <3>1, <3>2, <3>3
  <2>3. CheckedIsSo'
    BY <2>1 DEF Settled, CheckedIsSo
  <2> QED
    BY <2>1, <2>2, <2>3 DEF RefusesForAReason
<1>8. CASE UNCHANGED trustVars
  BY <1>8 DEF trustVars, CheckedIsSo, Verifies
<1> QED
  BY <1>1, <1>2, <1>3, <1>4, <1>5, <1>6, <1>7, <1>8 DEF TrustNext

-----------------------------------------------------------------------------
(* Updates *)

\* A set of natural numbers with a bound has a greatest element, which is its Max.
LEMMA MaxOfBounded ==
    ASSUME NEW N \in Nat, NEW S, S \subseteq 0..N, S # {}
    PROVE  Max(S) \in S /\ \A y \in S : Max(S) >= y
<1> DEFINE T == {N - x : x \in S}
           R == OpToRel(<, Nat)
<1>0. \A x \in S : x \in Int /\ N - x \in Nat
  OBVIOUS
<1>1. T \subseteq Nat /\ T # {}
  <2> HIDE DEF R
  <2>1. PICK x \in S : TRUE
    OBVIOUS
  <2>2. N - x \in T
    BY <2>1
  <2> QED
    BY <1>0, <2>2
<1>2. IsWellFoundedOn(R, Nat)
  BY NatLessThanWellFounded
<1>3. PICK t \in T : \A y \in T : ~(<<y, t>> \in R)
  <2> HIDE DEF T, R
  <2> QED
    BY <1>1, <1>2, WFMin
<1>4. \A y \in T : t <= y
  <2>0. t \in Nat /\ \A y \in T : y \in Nat
    BY <1>1
  <2> SUFFICES ASSUME NEW y \in T, y < t PROVE FALSE
    <3> HIDE DEF T, R
    <3> QED
      BY <2>0
  <2>1. <<y, t>> \in R
    BY <1>1 DEF OpToRel
  <2> QED
    BY <1>3, <2>1
<1>5. PICK x \in S : t = N - x
  OBVIOUS
<1>6. \A y \in S : x >= y
  <2> TAKE y \in S
  <2>1. N - y \in T /\ t <= N - y
    BY <1>4
  <2> QED
    BY <1>5, <2>1
<1> HIDE DEF T, R
<1> QED
  BY <1>6 DEF Max

Builds == 0..MaxBuilds
Releases == [state : {"none", "draft", "out", "gone"}, archive : Builds, sig : Builds]
Applies == [at : {"idle", "list", "archive", "sig", "verify", "install"}, tag : 0..MaxRelease, archive : Builds, sig : Builds]

UpdTypes ==
    /\ upHost \in Hosts
    /\ upRelease \in [Tags -> Releases] /\ upApply \in [Appliers -> Applies]
    /\ upDisk \in [ver : 0..MaxRelease, build : Builds] /\ upRun \in 0..MaxRelease
    /\ upWithdrawn \in BOOLEAN /\ upRaced \in BOOLEAN

\* Every signature that is or was published, downloaded or installed is in upSigned.
SignedInv ==
    /\ <<upDisk.ver, upDisk.build>> \in upSigned
    /\ \A t \in Tags : upRelease[t].sig > 0 => <<t, upRelease[t].sig>> \in upSigned
    /\ \A a \in Appliers :
        /\ upApply[a].at \notin {"idle", "list"} =>
              upApply[a].tag \in 1..MaxRelease /\ upRelease[upApply[a].tag].state \in {"out", "gone"}
        /\ upApply[a].at \in {"archive", "sig"} /\ upRelease[upApply[a].tag].state = "out" => upRelease[upApply[a].tag].sig > 0
        /\ upApply[a].at \in {"verify", "install"} => <<upApply[a].tag, upApply[a].sig>> \in upSigned
        /\ upApply[a].at = "install" => upApply[a].sig = upApply[a].archive

\* Before a release is withdrawn what is installed is out.
OutInv ==
    ~upWithdrawn =>
        /\ upDisk.ver # 0 => upRelease[upDisk.ver].state = "out"
        /\ upRun # 0 => upRelease[upRun].state = "out"
        /\ \A a \in Appliers : upApply[a].at \notin {"idle", "list"} => upRelease[upApply[a].tag].state = "out"

\* Before anything overtook an apply there is one at a time, and it goes forward.
RaceInv ==
    ~upRaced =>
        /\ \A a, b \in Appliers : upApply[a].at # "idle" /\ upApply[b].at # "idle" => a = b
        /\ ~upWithdrawn => \A a \in Appliers : upApply[a].at \notin {"idle", "list"} => upApply[a].tag >= upDisk.ver

UpdInv == UpdTypes /\ SignedInv /\ OutInv /\ RaceInv

\* A step that puts an older executable on disk.
DowngradesOnlyIfOvertaken == upDisk'.ver < upDisk.ver => upWithdrawn \/ upRaced

LEMMA UpdConstants == MaxRelease \in Nat /\ MaxRelease > 0 /\ MaxBuilds \in Nat /\ Tags = 1..(MaxRelease + 1) /\ Nightly = MaxRelease + 1
BY UpdAssumption DEF Tags, Nightly

LEMMA CandidatesAre ==
    /\ Candidates \subseteq 1..MaxRelease
    /\ \A t \in 1..MaxRelease : t \in Candidates <=> upRelease[t].state = "out"
    /\ Candidates # {} => SelectLatest \in Candidates /\ \A t \in Candidates : SelectLatest >= t
<1>1. \A t \in Tags : t # Nightly <=> t \in 1..MaxRelease
  BY UpdConstants
<1>2. 1..MaxRelease \subseteq Tags
  BY UpdConstants
<1>3. Candidates \subseteq 1..MaxRelease
  BY <1>1 DEF Candidates, TagParses
<1>4. \A t \in 1..MaxRelease : t \in Candidates <=> upRelease[t].state = "out"
  BY <1>1, <1>2 DEF Candidates, TagParses
<1>5. Candidates \subseteq 0..MaxRelease
  BY <1>3, UpdConstants
<1>6. Candidates # {} => SelectLatest \in Candidates /\ \A t \in Candidates : SelectLatest >= t
  BY <1>5, MaxOfBounded, UpdConstants DEF SelectLatest
<1> QED
  BY <1>3, <1>4, <1>6

LEMMA VersionIsTag == 1..MaxRelease \subseteq Tags
BY UpdConstants

LEMMA UpdFields ==
    ASSUME UpdTypes
    PROVE  /\ \A t \in Tags : upRelease[t] \in Releases /\ upRelease[t].state \in {"none", "draft", "out", "gone"}
                               /\ upRelease[t].archive \in Builds /\ upRelease[t].sig \in Builds
           /\ \A a \in Appliers : /\ upApply[a] \in Applies /\ upApply[a].tag \in 0..MaxRelease
                                   /\ upApply[a].at \in {"idle", "list", "archive", "sig", "verify", "install"}
                                   /\ upApply[a].archive \in Builds /\ upApply[a].sig \in Builds
           /\ upDisk.ver \in 0..MaxRelease /\ upDisk.build \in Builds
BY DEF UpdTypes, Releases, Applies

LEMMA UpdSafe == UpdInv => UpdTypeOK /\ DiskIsSigned /\ OfferIsNewer /\ NotFoundIsTrue
<1> SUFFICES ASSUME UpdInv PROVE UpdTypeOK /\ DiskIsSigned /\ OfferIsNewer /\ NotFoundIsTrue
  OBVIOUS
<1> USE DEF UpdInv
<1>1. CheckUpdate \in 0..MaxRelease
  <2>1. CheckUpdate = 0 \/ CheckUpdate \in 1..MaxRelease
    BY CandidatesAre, Zenon DEF CheckUpdate
  <2> QED
    BY <2>1, UpdConstants
<1>2. UpdTypeOK
  BY <1>1, UpdFields DEF UpdTypeOK, UpdTypes, Builds
<1>3. DiskIsSigned
  BY DEF DiskIsSigned, SignedInv
<1>4. OfferIsNewer
  <2> SUFFICES ASSUME ~upWithdrawn, CheckUpdate # 0 PROVE CheckUpdate > upRun
    BY DEF OfferIsNewer
  <2>1. Candidates # {} /\ CheckUpdate = SelectLatest /\ SelectLatest # upRun
    BY DEF CheckUpdate, Available
  <2>2. upRun # 0 => upRun \in Candidates
    BY CandidatesAre DEF OutInv, UpdTypes
  <2>3. SelectLatest \in 1..MaxRelease /\ (upRun # 0 => SelectLatest >= upRun) /\ upRun \in 0..MaxRelease
    BY <2>1, <2>2, CandidatesAre DEF UpdTypes
  <2> QED
    BY <2>1, <2>3, UpdConstants
<1>5. NotFoundIsTrue
  <2>1. Supported(upHost) => AssetFilename(upHost) = PublishedName(upHost)
    BY DEF UpdTypes, Hosts, Supported, AssetFilename, PublishedName, AssetToken, ArchiveFormat
  <2> QED
    BY <2>1 DEF NotFoundIsTrue, Selected, HasAsset
<1> QED
  BY <1>2, <1>3, <1>4, <1>5

LEMMA UpdBegins == UpdInit => UpdInv
<1> SUFFICES ASSUME UpdInit PROVE UpdInv
  OBVIOUS
<1>1. NoRelease \in Releases /\ NoRelease.sig = 0 /\ NoRelease.state = "none" /\ NoApply \in Applies /\ NoApply.at = "idle"
  BY UpdConstants DEF NoRelease, NoApply, Releases, Applies, Builds
<1>2. upDisk \in [ver : 0..MaxRelease, build : Builds] /\ upRun \in 0..MaxRelease /\ upDisk.ver = 0 /\ upDisk.build = 0
  BY UpdConstants DEF UpdInit, Builds
<1>3. UpdTypes
  BY <1>1, <1>2 DEF UpdInit, UpdTypes
<1>4. (\A t \in Tags : upRelease[t].sig = 0) /\ \A a \in Appliers : upApply[a].at = "idle"
  BY <1>1 DEF UpdInit
<1>5. SignedInv
  BY <1>2, <1>4 DEF UpdInit, SignedInv
<1>6. OutInv /\ RaceInv
  BY <1>2, <1>4 DEF UpdInit, OutInv, RaceInv
<1> QED
  BY <1>3, <1>5, <1>6 DEF UpdInv

-----------------------------------------------------------------------------
\* The publisher gives a release that is not gone a new state, archive or signature.
LEMMA PublisherKeeps ==
    ASSUME UpdInv, NEW t \in Tags, PublisherStep(t)
    PROVE  UpdInv' /\ DowngradesOnlyIfOvertaken
<1> USE DEF UpdInv
<1>0. UpdTypes /\ upRelease[t] \in Releases /\ upRelease[t].archive \in 0..MaxBuilds /\ upRelease[t].sig \in 0..MaxBuilds
  BY UpdFields DEF Builds
<1>1. PICK r \in Releases :
        /\ Release(t, r)
        /\ \/ r.state \in {"draft", "out"} /\ r.sig = upRelease[t].sig /\ upSigned' = upSigned /\ UNCHANGED upWithdrawn
              /\ (upRelease[t].state = "out" => r.state = "out") /\ upRelease[t].state # "gone"
           \/ r.state = "out" /\ upRelease[t].state = "out" /\ r.sig = upRelease[t].sig + 1 /\ upSigned' = upSigned \cup {<<t, r.sig>>} /\ UNCHANGED upWithdrawn
           \/ r.state = "gone" /\ upRelease[t].state = "out" /\ r.sig = 0 /\ upSigned' = upSigned /\ upWithdrawn' = TRUE
  <2>1. CASE PublishDraft(t)
    <3> DEFINE r == [upRelease[t] EXCEPT !.state = IF t = Nightly THEN "out" ELSE "draft"]
    <3>1. r \in Releases /\ r.state \in {"draft", "out"} /\ r.sig = upRelease[t].sig
      BY <1>0 DEF Releases
    <3> QED
      BY <2>1, <3>1 DEF PublishDraft
  <2>2. CASE UploadArchive(t)
    <3> DEFINE r == [upRelease[t] EXCEPT !.archive = @ + 1]
    <3>0. upRelease[t].archive + 1 \in Builds
      BY <1>0, <2>2, UpdConstants DEF UploadArchive, Builds
    <3>1. r \in Releases /\ r.state = upRelease[t].state /\ r.sig = upRelease[t].sig
      BY <1>0, <3>0 DEF Releases
    <3> QED
      BY <2>2, <3>1 DEF UploadArchive
  <2>3. CASE UploadSignature(t)
    <3> DEFINE r == [upRelease[t] EXCEPT !.sig = @ + 1]
    <3>0. upRelease[t].sig + 1 \in Builds
      BY <1>0, <2>3, UpdConstants DEF UploadSignature, Builds
    <3>1. r \in Releases /\ r.state = upRelease[t].state /\ r.sig = upRelease[t].sig + 1
      BY <1>0, <3>0 DEF Releases
    <3> QED
      BY <2>3, <3>1 DEF UploadSignature
  <2>4. CASE Publish(t)
    <3> DEFINE r == [upRelease[t] EXCEPT !.state = "out"]
    <3>1. r \in Releases /\ r.state = "out" /\ r.sig = upRelease[t].sig
      BY <1>0 DEF Releases
    <3> QED
      BY <2>4, <3>1 DEF Publish
  <2>5. CASE Withdraw(t)
    <3> DEFINE r == [NoRelease EXCEPT !.state = "gone"]
    <3>1. r \in Releases /\ r.state = "gone" /\ r.sig = 0
      BY UpdConstants DEF Releases, NoRelease, Builds
    <3> QED
      BY <2>5, <3>1 DEF Withdraw
  <2> QED
    BY <2>1, <2>2, <2>3, <2>4, <2>5 DEF PublisherStep
<1>2. /\ upRelease' = [upRelease EXCEPT ![t] = r] /\ UNCHANGED <<upHost, upKeyed, upDisk, upRun, upApply>>
      /\ upRaced' \in BOOLEAN /\ (~upRaced' => ~upRaced /\ \A a \in Appliers : upApply[a].at = "idle")
  BY <1>1, Zenon DEF Release, Race, NotApplying
<1>3. \A k \in Tags : upRelease'[k] = IF k = t THEN r ELSE upRelease[k]
  BY <1>0, <1>2 DEF UpdTypes
<1>4. UpdTypes'
  BY <1>0, <1>1, <1>2 DEF UpdTypes
<1>5. r.sig \in 0..MaxBuilds
  BY DEF Releases, Builds
<1>6. SignedInv'
  <2>1. \A k \in Tags : upRelease'[k].sig > 0 => <<k, upRelease'[k].sig>> \in upSigned'
    BY <1>0, <1>1, <1>3, <1>5 DEF SignedInv
  <2>2. ASSUME NEW a \in Appliers, upApply[a].at \notin {"idle", "list"}
        PROVE  /\ upApply[a].tag \in 1..MaxRelease /\ upRelease'[upApply[a].tag].state \in {"out", "gone"}
               /\ upApply[a].at \in {"archive", "sig"} /\ upRelease'[upApply[a].tag].state = "out" => upRelease'[upApply[a].tag].sig > 0
    <3> DEFINE k == upApply[a].tag
    <3>1. /\ k \in 1..MaxRelease /\ upRelease[k].state \in {"out", "gone"}
          /\ upApply[a].at \in {"archive", "sig"} /\ upRelease[k].state = "out" => upRelease[k].sig > 0
      BY <2>2, Zenon DEF SignedInv
    <3>2. k \in Tags /\ upRelease'[k] = IF k = t THEN r ELSE upRelease[k]
      BY <1>3, <3>1, VersionIsTag
    <3> HIDE DEF k
    <3>3. /\ upRelease'[k].state \in {"out", "gone"}
          /\ upApply[a].at \in {"archive", "sig"} /\ upRelease'[k].state = "out" => upRelease'[k].sig > 0
      <4>1. CASE k = t
        BY <1>0, <1>1, <3>1, <3>2, <4>1
      <4> QED
        BY <3>1, <3>2, <4>1
    <3> QED
      BY <3>1, <3>3 DEF k
  <2>3. upSigned \subseteq upSigned'
    BY <1>1
  <2> QED
    BY <1>2, <2>1, <2>2, <2>3 DEF SignedInv
<1>7. OutInv'
  <2> SUFFICES ASSUME ~upWithdrawn' PROVE OutInv'
    BY DEF OutInv
  <2>1. ~upWithdrawn /\ \A k \in Tags : upRelease[k].state = "out" => upRelease'[k].state = "out"
    BY <1>1, <1>3
  <2>2. \A a \in Appliers : upApply[a].at \notin {"idle", "list"} => upApply[a].tag \in Tags
    BY VersionIsTag, Zenon DEF SignedInv
  <2>3. (upDisk.ver # 0 => upDisk.ver \in Tags) /\ (upRun # 0 => upRun \in Tags)
    BY <1>0, UpdFields, UpdConstants DEF UpdTypes
  <2> QED
    BY <1>2, <2>1, <2>2, <2>3 DEF OutInv
<1>8. RaceInv'
  BY <1>2 DEF RaceInv
<1>9. DowngradesOnlyIfOvertaken
  BY <1>0, <1>2, UpdFields, UpdConstants DEF DowngradesOnlyIfOvertaken
<1> QED
  BY <1>4, <1>6, <1>7, <1>8, <1>9

\* What the invariant says of one apply, if it is x.
ApplyOk(x) ==
    x.at \notin {"idle", "list"} =>
        /\ x.tag \in 1..MaxRelease /\ upRelease[x.tag].state \in {"out", "gone"}
        /\ x.at \in {"archive", "sig"} /\ upRelease[x.tag].state = "out" => upRelease[x.tag].sig > 0
        /\ x.at \in {"verify", "install"} => <<x.tag, x.sig>> \in upSigned
        /\ x.at = "install" => x.sig = x.archive
        /\ ~upWithdrawn => upRelease[x.tag].state = "out" /\ (~upRaced => x.tag >= upDisk.ver)

LEMMA ApplyOks == ASSUME UpdInv, NEW a \in Appliers PROVE ApplyOk(upApply[a])
<1>1. upApply[a].at \notin {"idle", "list"} =>
        /\ upApply[a].tag \in 1..MaxRelease /\ upRelease[upApply[a].tag].state \in {"out", "gone"}
        /\ upApply[a].at \in {"archive", "sig"} /\ upRelease[upApply[a].tag].state = "out" => upRelease[upApply[a].tag].sig > 0
        /\ upApply[a].at \in {"verify", "install"} => <<upApply[a].tag, upApply[a].sig>> \in upSigned
        /\ upApply[a].at = "install" => upApply[a].sig = upApply[a].archive
  BY Zenon DEF UpdInv, SignedInv
<1>2. upApply[a].at \notin {"idle", "list"} /\ ~upWithdrawn =>
        upRelease[upApply[a].tag].state = "out" /\ (~upRaced => upApply[a].tag >= upDisk.ver)
  BY Zenon DEF UpdInv, OutInv, RaceInv
<1> QED
  BY <1>1, <1>2, Zenon DEF ApplyOk

\* An apply that is under way goes on, or ends, and leaves the executable alone.
LEMMA OneApplies ==
    ASSUME UpdInv, NEW a \in Appliers, NEW x \in Applies, Applying(a, x), ~NotApplying(a), ApplyOk(x),
           UNCHANGED <<upDisk, upRaced>>
    PROVE  UpdInv' /\ DowngradesOnlyIfOvertaken
<1> USE DEF UpdInv
<1>1. /\ upApply' = [upApply EXCEPT ![a] = x] /\ upApply \in [Appliers -> Applies] /\ upApply[a].at # "idle"
      /\ UNCHANGED <<upHost, upRelease, upDisk, upRun, upSigned, upWithdrawn, upRaced>>
  BY DEF Applying, UpdFixed, NotApplying, UpdTypes
<1>2. \A b \in Appliers : upApply'[b] = IF b = a THEN x ELSE upApply[b]
  BY <1>1
<1>3. UpdTypes'
  BY <1>1 DEF UpdTypes
<1>4. \A b \in Appliers : ApplyOk(upApply'[b])
  BY <1>2, ApplyOks
<1>5. SignedInv'
  <2>1. \A b \in Appliers :
        /\ upApply'[b].at \notin {"idle", "list"} =>
              upApply'[b].tag \in 1..MaxRelease /\ upRelease[upApply'[b].tag].state \in {"out", "gone"}
        /\ upApply'[b].at \in {"archive", "sig"} /\ upRelease[upApply'[b].tag].state = "out" => upRelease[upApply'[b].tag].sig > 0
        /\ upApply'[b].at \in {"verify", "install"} => <<upApply'[b].tag, upApply'[b].sig>> \in upSigned
        /\ upApply'[b].at = "install" => upApply'[b].sig = upApply'[b].archive
    BY <1>4 DEF ApplyOk
  <2> QED
    BY <1>1, <2>1 DEF SignedInv
<1>6. OutInv'
  BY <1>1, <1>4 DEF OutInv, ApplyOk
<1>7. RaceInv'
  <2>1. ~upRaced => \A b, c \in Appliers : upApply'[b].at # "idle" /\ upApply'[c].at # "idle" => b = c
    BY <1>1, <1>2 DEF RaceInv
  <2>2. ~upRaced /\ ~upWithdrawn => \A b \in Appliers : upApply'[b].at \notin {"idle", "list"} => upApply'[b].tag >= upDisk.ver
    BY <1>4 DEF ApplyOk
  <2> QED
    BY <1>1, <2>1, <2>2 DEF RaceInv
<1>8. DowngradesOnlyIfOvertaken
  BY <1>1, UpdFields, UpdConstants DEF DowngradesOnlyIfOvertaken
<1> QED
  BY <1>3, <1>5, <1>6, <1>7, <1>8

LEMMA NoApplyIs == NoApply \in Applies /\ NoApply.at = "idle" /\ ApplyOk(NoApply)
BY UpdConstants DEF NoApply, Applies, Builds, ApplyOk

LEMMA ListedKeeps ==
    ASSUME UpdInv, NEW a \in Appliers, FetchLatestRelease(a)
    PROVE  UpdInv' /\ DowngradesOnlyIfOvertaken
<1> DEFINE x == [upApply[a] EXCEPT !.at = "archive", !.tag = SelectLatest]
<1>1. ~NotApplying(a) /\ UNCHANGED <<upDisk, upRaced>>
  BY DEF FetchLatestRelease, NotApplying
<1>2. CASE Candidates = {} \/ Selected(upRelease[SelectLatest]) # "archive"
  <2>1. Applying(a, NoApply)
    BY <1>2 DEF FetchLatestRelease
  <2> QED
    BY <1>1, <2>1, NoApplyIs, OneApplies
<1>3. CASE Candidates # {} /\ Selected(upRelease[SelectLatest]) = "archive"
  <2>0. upApply[a] \in Applies /\ UpdTypes /\ upDisk.ver \in 0..MaxRelease
    BY UpdFields DEF UpdInv
  <2>1. /\ SelectLatest \in Candidates /\ SelectLatest \in 1..MaxRelease /\ upRelease[SelectLatest].state = "out"
        /\ \A t \in Candidates : SelectLatest >= t
    BY <1>3, CandidatesAre
  <2>2. upRelease[SelectLatest].sig \in 0..MaxBuilds /\ upRelease[SelectLatest].sig # 0
    BY <1>3, <2>0, <2>1, VersionIsTag, UpdFields DEF Selected, Builds
  <2>3. upRelease[SelectLatest].sig > 0
    BY <2>2, UpdConstants
  <2>4. SelectLatest \in 0..MaxRelease
    BY <2>1, UpdConstants
  <2>5. Applying(a, x)
    BY <1>3 DEF FetchLatestRelease
  <2>6. ~upWithdrawn => SelectLatest >= upDisk.ver
    <3>1. ~upWithdrawn /\ upDisk.ver # 0 => upDisk.ver \in Candidates
      <4>1. upDisk.ver # 0 => upDisk.ver \in 1..MaxRelease
        BY <2>0, UpdConstants
      <4> QED
        BY <4>1, CandidatesAre DEF UpdInv, OutInv
    <3> QED
      BY <2>0, <2>1, <3>1, UpdConstants
  <2>7. x \in Applies /\ x.at = "archive" /\ x.tag = SelectLatest
    BY <2>0, <2>4 DEF Applies
  <2> HIDE DEF x
  <2>8. ApplyOk(x)
    BY <2>1, <2>3, <2>6, <2>7 DEF ApplyOk
  <2> QED
    BY <1>1, <2>5, <2>7, <2>8, OneApplies
<1> QED
  BY <1>2, <1>3

LEMMA FetchesKeep ==
    ASSUME UpdInv, NEW a \in Appliers, DownloadArchive(a) \/ DownloadSignature(a) \/ RequestFails(a)
    PROVE  UpdInv' /\ DowngradesOnlyIfOvertaken
<1> DEFINE t == upApply[a].tag
<1>0. upApply[a] \in Applies /\ ApplyOk(upApply[a]) /\ UpdTypes
  BY ApplyOks, UpdFields DEF UpdInv
<1>1. ~NotApplying(a) /\ UNCHANGED <<upDisk, upRaced>>
  BY DEF DownloadArchive, DownloadSignature, RequestFails, NotApplying
<1>2. CASE RequestFails(a)
  BY <1>1, <1>2, NoApplyIs, OneApplies DEF RequestFails
<1>3. ASSUME upApply[a].at \in {"archive", "sig"}, Downloadable(a)
      PROVE  /\ t \in 1..MaxRelease /\ upRelease[t].state = "out" /\ upRelease[t].sig > 0 /\ t \in Tags
             /\ upRelease[t].archive \in Builds /\ upRelease[t].sig \in Builds
             /\ <<t, upRelease[t].sig>> \in upSigned
             /\ (~upWithdrawn /\ ~upRaced => t >= upDisk.ver)
  <2>1. t \in 1..MaxRelease /\ upRelease[t].state = "out" /\ upRelease[t].sig > 0 /\ (~upWithdrawn /\ ~upRaced => t >= upDisk.ver)
    BY <1>0, <1>3 DEF ApplyOk, Downloadable
  <2>2. t \in Tags
    BY <2>1, VersionIsTag
  <2> QED
    BY <1>0, <2>1, <2>2, UpdFields DEF UpdInv, SignedInv
<1>4. CASE DownloadArchive(a)
  <2> DEFINE x == [upApply[a] EXCEPT !.at = "sig", !.archive = upRelease[upApply[a].tag].archive]
  <2>1. x \in Applies /\ x.at = "sig" /\ x.tag = t
    BY <1>0, <1>3, <1>4 DEF DownloadArchive, Applies
  <2>2. Applying(a, x)
    BY <1>4 DEF DownloadArchive
  <2> HIDE DEF x
  <2>3. ApplyOk(x)
    BY <1>3, <1>4, <2>1 DEF ApplyOk, DownloadArchive
  <2> QED
    BY <1>1, <2>1, <2>2, <2>3, OneApplies
<1>5. CASE DownloadSignature(a)
  <2> DEFINE x == [upApply[a] EXCEPT !.at = "verify", !.sig = upRelease[upApply[a].tag].sig]
  <2>1. x \in Applies /\ x.at = "verify" /\ x.tag = t /\ x.sig = upRelease[t].sig
    BY <1>0, <1>3, <1>5 DEF DownloadSignature, Applies
  <2>2. Applying(a, x)
    BY <1>5 DEF DownloadSignature
  <2> HIDE DEF x
  <2>3. ApplyOk(x)
    BY <1>3, <1>5, <2>1 DEF ApplyOk, DownloadSignature
  <2> QED
    BY <1>1, <2>1, <2>2, <2>3, OneApplies
<1> QED
  BY <1>2, <1>4, <1>5

LEMMA VerifiesKeeps ==
    ASSUME UpdInv, NEW a \in Appliers, NEW whole \in BOOLEAN, VerifyAndExtract(a, whole)
    PROVE  UpdInv' /\ DowngradesOnlyIfOvertaken
<1>0. upApply[a] \in Applies /\ ApplyOk(upApply[a]) /\ UpdTypes
  BY ApplyOks, UpdFields DEF UpdInv
<1>1. ~NotApplying(a) /\ UNCHANGED <<upDisk, upRaced>> /\ upApply[a].at = "verify"
  BY DEF VerifyAndExtract, NotApplying
<1>2. CASE ~ArchiveVerifies(upApply[a]) \/ ~whole
  BY <1>1, <1>2, NoApplyIs, OneApplies DEF VerifyAndExtract
<1>3. CASE ArchiveVerifies(upApply[a]) /\ whole
  <2> DEFINE x == [upApply[a] EXCEPT !.at = "install"]
  <2>1. x \in Applies /\ x.at = "install" /\ x.tag = upApply[a].tag /\ x.sig = upApply[a].sig /\ x.archive = upApply[a].archive
    BY <1>0 DEF Applies
  <2>2. Applying(a, x)
    BY <1>3 DEF VerifyAndExtract
  <2> HIDE DEF x
  <2>3. ApplyOk(x)
    BY <1>0, <1>1, <1>3, <2>1 DEF ApplyOk, ArchiveVerifies
  <2> QED
    BY <1>1, <2>1, <2>2, <2>3, OneApplies
<1> QED
  BY <1>2, <1>3

LEMMA InstallKeeps ==
    ASSUME UpdInv, NEW a \in Appliers, Install(a) \/ InstallFails(a)
    PROVE  UpdInv' /\ DowngradesOnlyIfOvertaken
<1> USE DEF UpdInv
<1>0. upApply[a] \in Applies /\ ApplyOk(upApply[a]) /\ UpdTypes /\ upApply[a].at = "install" /\ UNCHANGED upRaced /\ Applying(a, NoApply)
  BY ApplyOks, UpdFields DEF Install, InstallFails
<1>1. CASE InstallFails(a)
  BY <1>0, <1>1, NoApplyIs, OneApplies DEF InstallFails, NotApplying
<1>2. CASE Install(a)
  <2>1. /\ upApply' = [upApply EXCEPT ![a] = NoApply] /\ upApply \in [Appliers -> Applies]
        /\ UNCHANGED <<upHost, upRelease, upRun, upSigned, upWithdrawn, upRaced>>
        /\ upDisk' = [ver |-> upApply[a].tag, build |-> upApply[a].archive]
    BY <1>0, <1>2 DEF Install, Applying, UpdFixed, UpdTypes
  <2>2. \A b \in Appliers : upApply'[b] = IF b = a THEN NoApply ELSE upApply[b]
    BY <2>1
  <2>3. /\ upApply[a].tag \in 1..MaxRelease /\ <<upApply[a].tag, upApply[a].archive>> \in upSigned
        /\ (~upWithdrawn => upRelease[upApply[a].tag].state = "out" /\ (~upRaced => upApply[a].tag >= upDisk.ver))
    BY <1>0 DEF ApplyOk
  <2>4. /\ upDisk'.ver = upApply[a].tag /\ upDisk'.build = upApply[a].archive
        /\ upDisk' \in [ver : 0..MaxRelease, build : Builds]
    BY <1>0, <2>1, UpdFields
  <2>5. UpdTypes'
    BY <1>0, <2>1, <2>4, NoApplyIs DEF UpdTypes
  <2>6. SignedInv'
    <3>1. \A b \in Appliers : ApplyOk(upApply'[b])
      BY <2>2, ApplyOks, NoApplyIs
    <3>2. \A b \in Appliers :
        /\ upApply'[b].at \notin {"idle", "list"} =>
              upApply'[b].tag \in 1..MaxRelease /\ upRelease[upApply'[b].tag].state \in {"out", "gone"}
        /\ upApply'[b].at \in {"archive", "sig"} /\ upRelease[upApply'[b].tag].state = "out" => upRelease[upApply'[b].tag].sig > 0
        /\ upApply'[b].at \in {"verify", "install"} => <<upApply'[b].tag, upApply'[b].sig>> \in upSigned
        /\ upApply'[b].at = "install" => upApply'[b].sig = upApply'[b].archive
      BY <3>1 DEF ApplyOk
    <3> QED
      BY <2>1, <2>3, <2>4, <3>2 DEF SignedInv
  <2>7. OutInv'
    BY <2>1, <2>2, <2>3, <2>4, NoApplyIs DEF OutInv
  <2>8. RaceInv'
    <3>1. ~upRaced => \A b \in Appliers : upApply'[b].at = "idle"
      BY <1>0, <2>2, NoApplyIs DEF RaceInv
    <3> QED
      BY <2>1, <3>1 DEF RaceInv
  <2>9. DowngradesOnlyIfOvertaken
    BY <1>0, <2>3, <2>4, UpdFields, UpdConstants DEF DowngradesOnlyIfOvertaken
  <2> QED
    BY <2>5, <2>6, <2>7, <2>8, <2>9
<1> QED
  BY <1>1, <1>2

LEMMA BeginsApply ==
    ASSUME UpdInv, NEW a \in Appliers, ApplyUpdate(a)
    PROVE  UpdInv' /\ DowngradesOnlyIfOvertaken
<1> USE DEF UpdInv
<1> DEFINE y == [NoApply EXCEPT !.at = "list"]
<1>1. /\ y \in Applies /\ y.at = "list"
  BY UpdConstants DEF NoApply, Applies, Builds
<1>2. PICK x \in {NoApply, y} : Applying(a, x)
  BY DEF ApplyUpdate
<1>3. x \in Applies /\ x.at \in {"idle", "list"}
  BY <1>1, <1>2, NoApplyIs
<1> HIDE DEF y
<1>4. /\ upApply' = [upApply EXCEPT ![a] = x] /\ upApply \in [Appliers -> Applies]
      /\ UNCHANGED <<upHost, upRelease, upDisk, upRun, upSigned, upWithdrawn>>
  BY <1>2 DEF ApplyUpdate, Applying, UpdFixed, UpdTypes
<1>5. upRaced' \in BOOLEAN /\ (~upRaced' => ~upRaced /\ \A b \in Appliers : upApply[b].at = "idle")
  BY Zenon DEF ApplyUpdate, Race, NotApplying
<1>6. \A b \in Appliers : upApply'[b] = IF b = a THEN x ELSE upApply[b]
  BY <1>4
<1>7. UpdTypes'
  BY <1>3, <1>4, <1>5 DEF UpdTypes
<1>8. SignedInv'
  BY <1>3, <1>4, <1>6 DEF SignedInv
<1>9. OutInv' /\ RaceInv'
  BY <1>3, <1>4, <1>5, <1>6 DEF OutInv, RaceInv
<1>10. DowngradesOnlyIfOvertaken
  BY <1>4, UpdFields, UpdConstants DEF DowngradesOnlyIfOvertaken
<1> QED
  BY <1>7, <1>8, <1>9, <1>10

LEMMA RestartKeeps == ASSUME UpdInv, RunsInstalled PROVE UpdInv' /\ DowngradesOnlyIfOvertaken
<1> USE DEF UpdInv
<1>1. /\ \A a \in Appliers : upApply'[a] = NoApply
      /\ upApply' = [a \in Appliers |-> NoApply] /\ upRun' = upDisk.ver
      /\ UNCHANGED <<upHost, upRelease, upDisk, upSigned, upWithdrawn, upRaced>>
  BY DEF RunsInstalled, UpdFixed
<1>2. UpdTypes'
  BY <1>1, NoApplyIs, UpdFields DEF UpdTypes
<1>3. SignedInv'
  BY <1>1, NoApplyIs DEF SignedInv
<1>4. OutInv' /\ RaceInv'
  BY <1>1, NoApplyIs DEF OutInv, RaceInv
<1>5. DowngradesOnlyIfOvertaken
  BY <1>1, UpdFields, UpdConstants DEF DowngradesOnlyIfOvertaken
<1> QED
  BY <1>2, <1>3, <1>4, <1>5

LEMMA UpdStep == UpdInv /\ [UpdNext]_updVars => UpdInv' /\ [DowngradesOnlyIfOvertaken]_updVars
<1> SUFFICES ASSUME UpdInv, [UpdNext]_updVars PROVE UpdInv' /\ [DowngradesOnlyIfOvertaken]_updVars
  OBVIOUS
<1>1. CASE UNCHANGED updVars
  BY <1>1 DEF updVars, UpdInv, UpdTypes, SignedInv, OutInv, RaceInv
<1>2. CASE UpdNext
  BY <1>2, PublisherKeeps, BeginsApply, ListedKeeps, FetchesKeep, VerifiesKeeps, InstallKeeps, RestartKeeps DEF UpdNext, ApplyStep
<1> QED
  BY <1>1, <1>2

-----------------------------------------------------------------------------
(* The action executor *)

LoopRecords ==
    [pc : {"unborn", "idle", "next", "emit", "asking", "clean", "verify", "run", "post", "exited"},
     cancelled : BOOLEAN, batch : SUBSET Acts, act : Acts,
     verdict : {"none", "approved", "denied", "timeout", "ok", "failed"}]

\* A loop that is r has a in its hands, or has it and has not run it yet.
Working == {"emit", "asking", "clean", "verify", "run", "post"}
Has(r, a) == a \in r.batch \/ (r.pc \in Working /\ r.act = a)
HasYetToRun(r, a) == a \in r.batch \/ (r.pc \in {"emit", "asking", "clean", "verify"} /\ r.act = a)

LoopShape(r) ==
    /\ r.pc \in {"unborn", "idle", "exited"} => r.batch = {}
    /\ r.pc \in Working => r.act \notin r.batch
    /\ r.verdict = "ok" => r.pc = "post"
    /\ r.pc = "verify" => Kind[r.act] \notin Scripts

ShapeInv == \A l \in Loops : LoopShape(lp[l])

\* What is about to be reported as a success ran.
RanInv ==
    /\ \A l \in Loops : lp[l].pc = "run" \/ lp[l].verdict = "ok" => ran[lp[l].act] > 0
    /\ SuccessMeansRan

\* A request that waits has its sender in the map, from before the dialog is shown.
AskInv ==
    /\ PendingIsAsking
    /\ \A l \in Loops : lp[l].pc \in {"emit", "asking"} /\ chan[l] = "wait" => pend[lp[l].act] = l

\* An approval that was given and not yet used.
Paid(r, x) == (r.pc \in {"emit", "asking"} /\ x = "yes") \/ (r.pc = "clean" /\ r.verdict = "approved")
PaidFor(a) == {l \in Loops : lp[l].act = a /\ Paid(lp[l], chan[l])}
PaidInv == \A a \in Acts : Kind[a] \in Scripts => ran[a] + Cardinality(PaidFor(a)) <= granted[a]

\* The command that took the handle holds its lock until it has put one back.
HandleInv ==
    /\ \A c \in Cmds : cmd[c].pc \in {"await", "register"} => pollMx = c
    /\ pollMx # 0 => guard = 0
    /\ LiveLoopIsHeld

\* An action that is not excused is in one loop's hands, and if that loop was
\* cancelled a command is still waiting for it.
OnceInv ==
    \A a \in Acts \ excused :
        /\ ran[a] <= 1
        /\ \A l \in Loops : Has(lp[l], a) => hub[a] = "open"
        /\ \A l, k \in Loops : Has(lp[l], a) /\ Has(lp[k], a) => l = k
        /\ \A l \in Loops : HasYetToRun(lp[l], a) => ran[a] = 0
        /\ hub[a] = "open" /\ (\A l \in Loops : ~Has(lp[l], a)) => ran[a] = 0
        /\ \A l \in Loops : Has(lp[l], a) /\ lp[l].cancelled => \E c \in Cmds : cmd[c].pc = "await" /\ cmd[c].old = l

ExecInv == ExecTypeOK /\ ShapeInv /\ RanInv /\ AskInv /\ PaidInv /\ HandleInv /\ OnceInv

LEMMA LoopFields ==
    ASSUME NEW r \in LoopRecords
    PROVE  /\ r.pc \in {"unborn", "idle", "next", "emit", "asking", "clean", "verify", "run", "post", "exited"}
           /\ r.cancelled \in BOOLEAN /\ r.batch \subseteq Acts /\ r.act \in Acts
           /\ r.verdict \in {"none", "approved", "denied", "timeout", "ok", "failed"}
BY DEF LoopRecords

LEMMA LoopsAre == MaxLoops \in Nat /\ 0 \notin Loops /\ Loops \subseteq 0..MaxLoops /\ (\A l \in Loops : l \in 0..MaxLoops /\ l # 0)
                  /\ \A i \in 0..MaxLoops : i # 0 => i \in Loops
BY ExecAssumption DEF Loops

LEMMA ExecTypes ==
    ASSUME ExecTypeOK
    PROVE  /\ lp \in [Loops -> LoopRecords]
           /\ \A l \in Loops : lp[l] \in LoopRecords
           /\ \A a \in Acts : pend[a] \in 0..MaxLoops /\ (pend[a] # 0 => pend[a] \in Loops)
           /\ guard # 0 => guard \in Loops
BY LoopsAre DEF ExecTypeOK, LoopRecords

LEMMA ExecSafe == ExecInv => ExecTypeOK /\ ApprovalPerRun /\ WaitingIsAnswerable /\ PendingIsAsking /\ LiveLoopIsHeld /\ TwiceOnlyIfExcused /\ SuccessMeansRan
<1> SUFFICES ASSUME ExecInv PROVE ApprovalPerRun /\ WaitingIsAnswerable /\ TwiceOnlyIfExcused
  BY DEF ExecInv, AskInv, HandleInv, RanInv
<1> USE DEF ExecInv
<1>1. ApprovalPerRun
  <2> SUFFICES ASSUME NEW a \in Acts, Kind[a] \in Scripts PROVE ran[a] <= granted[a]
    BY DEF ApprovalPerRun
  <2>1. IsFiniteSet(Loops)
    BY FS_Interval, ExecAssumption DEF Loops
  <2>2. PaidFor(a) \subseteq Loops
    BY DEF PaidFor
  <2>3. Cardinality(PaidFor(a)) \in Nat
    BY <2>1, <2>2, FS_Subset, FS_CardinalityType
  <2>4. ran[a] \in Nat /\ granted[a] \in Nat /\ ran[a] + Cardinality(PaidFor(a)) <= granted[a]
    BY DEF ExecTypeOK, PaidInv
  <2> QED
    BY <2>3, <2>4
<1>2. WaitingIsAnswerable
  BY DEF WaitingIsAnswerable, AskInv, At
<1>3. TwiceOnlyIfExcused
  <2>1. \A a \in Acts : ran[a] \in Nat
    BY DEF ExecTypeOK
  <2> QED
    BY <2>1 DEF TwiceOnlyIfExcused, OnceInv
<1> QED
  BY <1>1, <1>2, <1>3

LEMMA ExecBegins == ExecInit => ExecInv
<1> SUFFICES ASSUME ExecInit PROVE ExecInv
  OBVIOUS
<1>0. Idle \in LoopRecords /\ Idle.pc = "unborn" /\ Idle.batch = {} /\ Idle.verdict = "none" /\ Idle.cancelled = FALSE
  BY ExecAssumption DEF Idle, LoopRecords
<1>1. \A l \in Loops : lp[l] = Idle /\ chan[l] = "none"
  BY DEF ExecInit
<1>2. \A a \in Acts : pend[a] = 0 /\ hub[a] = "open" /\ granted[a] = 0 /\ ran[a] = 0
  BY DEF ExecInit
<1>3. \A c \in Cmds : cmd[c] = [op |-> "none", pc |-> "done", old |-> 0]
  BY DEF ExecInit
<1>4. \A c \in Cmds : cmd[c].pc = "done"
  BY <1>3
<1> HIDE DEF Idle
<1>5. ExecTypeOK
  <2>1. lp \in [Loops -> LoopRecords]
    BY <1>0 DEF ExecInit
  <2>2. chan \in [Loops -> {"none", "wait", "yes", "no", "dropped", "closed"}]
    BY DEF ExecInit
  <2>3. pend \in [Acts -> 0..MaxLoops] /\ emitted \subseteq Acts /\ guard \in 0..MaxLoops /\ pollMx \in Cmds \cup {0} /\ sessMx \in 0..MaxLoops
    BY ExecAssumption DEF ExecInit
  <2>4. cmd \in [Cmds -> [op : {"none", "login", "logout"}, old : 0..MaxLoops, pc : {"done", "lock", "await", "register", "clear"}]]
    <3>1. [op |-> "none", pc |-> "done", old |-> 0] \in [op : {"none", "login", "logout"}, old : 0..MaxLoops, pc : {"done", "lock", "await", "register", "clear"}]
      BY ExecAssumption
    <3> QED
      BY <3>1 DEF ExecInit
  <2>5. /\ hub \in [Acts -> {"open", "ok", "failed"}] /\ procs \subseteq Acts
        /\ polls \in 0..MaxPolls /\ cmds \in 0..MaxCmds
        /\ granted \in [Acts -> Nat] /\ ran \in [Acts -> Nat] /\ excused \subseteq Acts
    BY ExecAssumption DEF ExecInit
  <2> QED
    BY <2>1, <2>2, <2>3, <2>4, <2>5 DEF ExecTypeOK, LoopRecords
<1>6. ShapeInv /\ RanInv /\ AskInv
  BY <1>0, <1>1, <1>2 DEF ShapeInv, LoopShape, Working, RanInv, SuccessMeansRan, AskInv, PendingIsAsking
<1>7. PaidInv
  <2>1. \A a \in Acts : PaidFor(a) = {}
    BY <1>0, <1>1 DEF PaidFor, Paid
  <2> QED
    BY <1>2, <2>1, FS_EmptySet DEF PaidInv
<1>8. HandleInv
  BY <1>0, <1>1, <1>4 DEF ExecInit, HandleInv, LiveLoopIsHeld, Alive
<1>9. OnceInv
  BY <1>0, <1>1, <1>2 DEF OnceInv, Has, HasYetToRun, Working
<1> QED
  BY <1>5, <1>6, <1>7, <1>8, <1>9 DEF ExecInv

-----------------------------------------------------------------------------
\* A step of loop l that leaves it at q.
Goes(l, q) == lp' = [lp EXCEPT ![l] = q]

LEMMA GoesTo ==
    ASSUME ExecTypeOK, NEW l \in Loops, NEW q \in LoopRecords, Goes(l, q)
    PROVE  /\ lp' \in [Loops -> LoopRecords] /\ lp'[l] = q
           /\ \A k \in Loops : lp'[k] = IF k = l THEN q ELSE lp[k]
BY ExecTypes DEF Goes

LEMMA ShapeKept ==
    ASSUME ExecTypeOK, ShapeInv, NEW l \in Loops, NEW q \in LoopRecords, Goes(l, q), LoopShape(q)
    PROVE  ShapeInv'
BY GoesTo DEF ShapeInv

LEMMA RanKept ==
    ASSUME ExecTypeOK, RanInv, NEW l \in Loops, NEW q \in LoopRecords, Goes(l, q),
           q.pc = "run" \/ q.verdict = "ok" => ran'[q.act] > 0,
           \A a \in Acts : ran[a] > 0 => ran'[a] > 0,
           \A a \in Acts : hub'[a] = "ok" => hub[a] = "ok" \/ ran'[a] > 0
    PROVE  RanInv'
<1>1. \A k \in Loops : lp'[k] = IF k = l THEN q ELSE lp[k]
  BY GoesTo
<1>2. \A k \in Loops : lp[k].act \in Acts
  BY ExecTypes, LoopFields
<1>3. ASSUME NEW k \in Loops, lp'[k].pc = "run" \/ lp'[k].verdict = "ok" PROVE ran'[lp'[k].act] > 0
  <2>1. CASE k = l
    BY <1>1, <1>3, <2>1
  <2>2. CASE k # l
    BY <1>1, <1>2, <1>3, <2>2 DEF RanInv
  <2> QED
    BY <2>1, <2>2
<1>4. SuccessMeansRan'
  BY DEF SuccessMeansRan, RanInv
<1> QED
  BY <1>3, <1>4 DEF RanInv

LEMMA HandleKept ==
    ASSUME ExecTypeOK, HandleInv, NEW l \in Loops, NEW q \in LoopRecords, Goes(l, q),
           q.cancelled = lp[l].cancelled, q.pc \notin {"unborn", "exited"} => lp[l].pc \notin {"unborn", "exited"},
           UNCHANGED <<guard, pollMx, cmd>>
    PROVE  HandleInv'
BY GoesTo DEF HandleInv, LiveLoopIsHeld, Alive

Requesting == {"emit", "asking", "clean"}

LEMMA AskKept ==
    ASSUME ExecTypeOK, AskInv, NEW l \in Loops, NEW q \in LoopRecords, Goes(l, q), UNCHANGED pend,
           q.pc \in Requesting <=> lp[l].pc \in Requesting,
           q.pc \in Requesting => q.act = lp[l].act,
           q.pc \in {"emit", "asking"} => lp[l].pc \in {"emit", "asking"},
           \A k \in Loops : chan'[k] = "wait" => chan[k] = "wait"
    PROVE  AskInv'
<1>1. \A k \in Loops : lp'[k] = IF k = l THEN q ELSE lp[k]
  BY GoesTo
<1>2. PendingIsAsking'
  <2> SUFFICES ASSUME NEW a \in Acts, pend[a] # 0
               PROVE  lp'[pend[a]].act = a /\ lp'[pend[a]].pc \in Requesting
    BY DEF PendingIsAsking, Requesting
  <2>1. pend[a] \in Loops /\ lp[pend[a]].act = a /\ lp[pend[a]].pc \in Requesting
    BY ExecTypes DEF AskInv, PendingIsAsking, Requesting
  <2> QED
    BY <1>1, <2>1
<1>3. ASSUME NEW k \in Loops, lp'[k].pc \in {"emit", "asking"}, chan'[k] = "wait" PROVE pend[lp'[k].act] = k
  <2>1. lp[k].pc \in {"emit", "asking"} /\ lp'[k].act = lp[k].act
    BY <1>1, <1>3 DEF Requesting
  <2> QED
    BY <1>3, <2>1 DEF AskInv
<1> QED
  BY <1>2, <1>3 DEF AskInv

LEMMA PaidIsFinite == ASSUME NEW a PROVE IsFiniteSet(PaidFor(a)) /\ Cardinality(PaidFor(a)) \in Nat
<1>1. IsFiniteSet(Loops)
  BY FS_Interval, ExecAssumption DEF Loops
<1>2. PaidFor(a) \subseteq Loops
  BY DEF PaidFor
<1> QED
  BY <1>1, <1>2, FS_Subset, FS_CardinalityType

LEMMA PaidKept ==
    ASSUME ExecTypeOK, PaidInv, UNCHANGED granted,
           \A a \in Acts : Kind[a] \in Scripts => ran'[a] = ran[a],
           \A k \in Loops : Paid(lp'[k], chan'[k]) => Paid(lp[k], chan[k]) /\ lp'[k].act = lp[k].act
    PROVE  PaidInv'
<1> SUFFICES ASSUME NEW a \in Acts, Kind[a] \in Scripts PROVE ran'[a] + Cardinality(PaidFor(a)') <= granted[a]
  BY DEF PaidInv
<1>1. PaidFor(a)' \subseteq PaidFor(a)
  BY DEF PaidFor
<1>2. Cardinality(PaidFor(a)') <= Cardinality(PaidFor(a)) /\ Cardinality(PaidFor(a)') \in Nat
  BY <1>1, PaidIsFinite, FS_Subset, FS_CardinalityType
<1>3. ran[a] \in Nat /\ granted[a] \in Nat /\ ran[a] + Cardinality(PaidFor(a)) <= granted[a] /\ ran'[a] = ran[a]
  BY DEF PaidInv, ExecTypeOK
<1> QED
  BY <1>2, <1>3, PaidIsFinite

\* Loop l keeps what it has; or begins to run it; or has posted it.
LEMMA OnceKept ==
    ASSUME ExecTypeOK, OnceInv, NEW l \in Loops, NEW q \in LoopRecords, Goes(l, q),
           q.cancelled = lp[l].cancelled, \A c \in Cmds : cmd[c].pc = "await" => cmd'[c] = cmd[c], excused \subseteq excused',
           \A a \in Acts \ excused' :
              \/ /\ hub'[a] = hub[a] /\ ran'[a] = ran[a]
                 /\ HasYetToRun(q, a) => HasYetToRun(lp[l], a)
                 /\ Has(q, a) <=> Has(lp[l], a)
              \/ /\ hub'[a] = hub[a] /\ ran'[a] = ran[a] + 1
                 /\ HasYetToRun(lp[l], a) /\ ~HasYetToRun(q, a) /\ Has(lp[l], a) /\ Has(q, a)
              \/ hub'[a] # "open" /\ ran'[a] = ran[a] /\ Has(lp[l], a) /\ ~Has(q, a) /\ ~HasYetToRun(q, a)
    PROVE  OnceInv'
<1> SUFFICES ASSUME NEW a \in Acts \ excused'
             PROVE  /\ ran'[a] <= 1
                    /\ \A k \in Loops : Has(lp'[k], a) => hub'[a] = "open"
                    /\ \A j, k \in Loops : Has(lp'[j], a) /\ Has(lp'[k], a) => j = k
                    /\ \A k \in Loops : HasYetToRun(lp'[k], a) => ran'[a] = 0
                    /\ hub'[a] = "open" /\ (\A k \in Loops : ~Has(lp'[k], a)) => ran'[a] = 0
                    /\ \A k \in Loops : Has(lp'[k], a) /\ lp'[k].cancelled => \E c \in Cmds : cmd'[c].pc = "await" /\ cmd'[c].old = k
  BY DEF OnceInv
<1>0. a \in Acts \ excused /\ ran[a] \in Nat
  BY DEF ExecTypeOK
<1>1. /\ ran[a] <= 1
      /\ \A k \in Loops : Has(lp[k], a) => hub[a] = "open"
      /\ \A j, k \in Loops : Has(lp[j], a) /\ Has(lp[k], a) => j = k
      /\ \A k \in Loops : HasYetToRun(lp[k], a) => ran[a] = 0
      /\ hub[a] = "open" /\ (\A k \in Loops : ~Has(lp[k], a)) => ran[a] = 0
      /\ \A k \in Loops : Has(lp[k], a) /\ lp[k].cancelled => \E c \in Cmds : cmd[c].pc = "await" /\ cmd[c].old = k
  BY <1>0 DEF OnceInv
<1>2. \A k \in Loops : lp'[k] = IF k = l THEN q ELSE lp[k]
  BY GoesTo
<1>3. \A k \in Loops : HasYetToRun(lp[k], a) => Has(lp[k], a)
  BY DEF Has, HasYetToRun, Working
<1>4. Has(q, a) => Has(lp[l], a)
  OBVIOUS
<1>5. \A k \in Loops : Has(lp'[k], a) => Has(lp[k], a) /\ lp'[k].cancelled = lp[k].cancelled
  BY <1>2, <1>4
<1>w. \A k \in Loops : Has(lp'[k], a) /\ lp'[k].cancelled => \E c \in Cmds : cmd'[c].pc = "await" /\ cmd'[c].old = k
  BY <1>1, <1>5
<1>6. CASE /\ hub'[a] = hub[a] /\ ran'[a] = ran[a]
           /\ HasYetToRun(q, a) => HasYetToRun(lp[l], a)
           /\ Has(q, a) <=> Has(lp[l], a)
  <2>1. \A k \in Loops : (Has(lp'[k], a) <=> Has(lp[k], a)) /\ (HasYetToRun(lp'[k], a) => HasYetToRun(lp[k], a))
    BY <1>2, <1>6
  <2> QED
    BY <1>1, <1>5, <1>6, <1>w, <2>1
<1>7. CASE /\ hub'[a] = hub[a] /\ ran'[a] = ran[a] + 1
           /\ HasYetToRun(lp[l], a) /\ ~HasYetToRun(q, a) /\ Has(lp[l], a) /\ Has(q, a)
  <2>1. ran[a] = 0 /\ ran'[a] = 1
    BY <1>1, <1>7
  <2>2. \A k \in Loops : ~HasYetToRun(lp'[k], a)
    BY <1>1, <1>2, <1>3, <1>7
  <2>3. Has(lp'[l], a)
    BY <1>2, <1>7
  <2> QED
    BY <1>1, <1>5, <1>7, <1>w, <2>1, <2>2, <2>3
<1>8. CASE hub'[a] # "open" /\ ran'[a] = ran[a] /\ Has(lp[l], a) /\ ~Has(q, a) /\ ~HasYetToRun(q, a)
  <2>1. \A k \in Loops : ~Has(lp'[k], a)
    BY <1>1, <1>2, <1>5, <1>8
  <2>2. \A k \in Loops : ~HasYetToRun(lp'[k], a)
    BY <1>1, <1>2, <1>3, <1>8
  <2> QED
    BY <1>1, <1>8, <2>1, <2>2
<1> QED
  BY <1>6, <1>7, <1>8

-----------------------------------------------------------------------------
\* The steps of a loop, one lemma each.
LEMMA LoopExitsKeeps == ASSUME ExecInv, NEW l \in Loops, LoopExits(l) PROVE ExecInv'
<1> DEFINE q == [lp[l] EXCEPT !.pc = "exited"]
<1> USE DEF ExecInv
<1>0. lp[l] \in LoopRecords /\ LoopShape(lp[l]) /\ lp[l].pc = "idle"
  BY ExecTypes DEF ShapeInv, LoopExits, At
<1>1. q \in LoopRecords /\ q.pc = "exited" /\ q.cancelled = lp[l].cancelled /\ q.batch = lp[l].batch /\ q.act = lp[l].act /\ q.verdict = lp[l].verdict
  BY <1>0 DEF LoopRecords
<1>2. Goes(l, q) /\ UNCHANGED <<procs, chan, pend, emitted, guard, pollMx, sessMx, cmd, hub, polls, cmds, granted, ran, excused>>
  BY DEF Goes, LoopExits
<1> HIDE DEF q
<1>3. LoopShape(q)
  BY <1>0, <1>1 DEF LoopShape, Working
<1>4. ExecTypeOK'
  BY <1>1, <1>2, GoesTo DEF ExecTypeOK, LoopRecords
<1>5. ShapeInv' /\ RanInv' /\ HandleInv'
  BY <1>0, <1>1, <1>2, <1>3, ShapeKept, RanKept, HandleKept DEF LoopShape
<1>6. AskInv'
  BY <1>0, <1>1, <1>2, AskKept DEF Requesting
<1>7. PaidInv'
  BY <1>1, <1>2, GoesTo, PaidKept DEF Paid
<1>8. OnceInv'
  <2>1. \A a \in Acts : (HasYetToRun(q, a) <=> HasYetToRun(lp[l], a)) /\ (Has(q, a) <=> Has(lp[l], a))
    BY <1>0, <1>1 DEF Has, HasYetToRun, Working
  <2> QED
    BY <1>1, <1>2, <2>1, OnceKept
<1> QED
  BY <1>4, <1>5, <1>6, <1>7, <1>8

\* The request moves on: the dialog is shown or not, and the wait ends.
LEMMA EmitKeeps == ASSUME ExecInv, NEW l \in Loops, Emit(l) PROVE ExecInv'
<1> USE DEF ExecInv
<1>0. lp[l] \in LoopRecords /\ LoopShape(lp[l]) /\ lp[l].pc = "emit" /\ lp[l].act \in Acts
  BY ExecTypes, LoopFields DEF ShapeInv, Emit, At
<1>1. PICK q \in LoopRecords :
        /\ Goes(l, q) /\ q.cancelled = lp[l].cancelled /\ q.batch = lp[l].batch /\ q.act = lp[l].act
        /\ (q.pc = "asking" /\ q.verdict = lp[l].verdict) \/ (q.pc = "clean" /\ q.verdict = "timeout")
  <2>1. CASE lp' = [lp EXCEPT ![l].pc = "asking"]
    <3> DEFINE q == [lp[l] EXCEPT !.pc = "asking"]
    <3>1. q \in LoopRecords /\ q.pc = "asking" /\ q.cancelled = lp[l].cancelled /\ q.batch = lp[l].batch /\ q.act = lp[l].act /\ q.verdict = lp[l].verdict
      BY <1>0 DEF LoopRecords
    <3>2. Goes(l, q)
      BY <2>1 DEF Goes
    <3> HIDE DEF q
    <3> QED
      BY <3>1, <3>2
  <2>2. CASE lp' = [lp EXCEPT ![l].pc = "clean", ![l].verdict = "timeout"]
    <3> DEFINE q == [lp[l] EXCEPT !.pc = "clean", !.verdict = "timeout"]
    <3>1. q \in LoopRecords /\ q.pc = "clean" /\ q.cancelled = lp[l].cancelled /\ q.batch = lp[l].batch /\ q.act = lp[l].act /\ q.verdict = "timeout"
      BY <1>0 DEF LoopRecords
    <3>2. Goes(l, q)
      BY <2>2, ExecTypes DEF Goes
    <3> HIDE DEF q
    <3> QED
      BY <3>1, <3>2
  <2> QED
    BY <2>1, <2>2 DEF Emit
<1>2. UNCHANGED <<procs, chan, pend, guard, pollMx, sessMx, cmd, hub, polls, cmds, granted, ran, excused>>
      /\ emitted' \subseteq emitted \cup {lp[l].act}
  BY DEF Emit
<1>3. LoopShape(q)
  BY <1>0, <1>1 DEF LoopShape, Working
<1>4. ExecTypeOK'
  BY <1>0, <1>1, <1>2, GoesTo DEF ExecTypeOK, LoopRecords
<1>5. ShapeInv' /\ RanInv' /\ HandleInv'
  BY <1>0, <1>1, <1>2, <1>3, ShapeKept, RanKept, HandleKept DEF LoopShape
<1>6. AskInv'
  BY <1>0, <1>1, <1>2, AskKept DEF Requesting
<1>7. PaidInv'
  <2>1. \A k \in Loops : Paid(lp'[k], chan'[k]) => Paid(lp[k], chan[k]) /\ lp'[k].act = lp[k].act
    BY <1>0, <1>1, <1>2, GoesTo DEF Paid
  <2> QED
    BY <1>2, <2>1, PaidKept
<1>8. OnceInv'
  <2>1. \A a \in Acts : (HasYetToRun(q, a) <=> HasYetToRun(lp[l], a)) /\ (Has(q, a) <=> Has(lp[l], a))
    BY <1>0, <1>1 DEF Has, HasYetToRun, Working
  <2> QED
    BY <1>1, <1>2, <2>1, OnceKept
<1> QED
  BY <1>4, <1>5, <1>6, <1>7, <1>8

LEMMA DecidedKeeps == ASSUME ExecInv, NEW l \in Loops, Decided(l) PROVE ExecInv'
<1> USE DEF ExecInv
<1>0. lp[l] \in LoopRecords /\ LoopShape(lp[l]) /\ lp[l].pc = "asking" /\ lp[l].act \in Acts
  BY ExecTypes, LoopFields DEF ShapeInv, Decided, At
<1>v. PICK v \in {"approved", "denied", "timeout"} :
        /\ v = "approved" => chan[l] = "yes"
        /\ lp' = [lp EXCEPT ![l].pc = "clean", ![l].verdict = v]
  BY DEF Decided
<1> DEFINE q == [lp[l] EXCEPT !.pc = "clean", !.verdict = v]
<1>1. q \in LoopRecords /\ q.pc = "clean" /\ q.cancelled = lp[l].cancelled /\ q.batch = lp[l].batch /\ q.act = lp[l].act /\ q.verdict = v
  BY <1>0 DEF LoopRecords
<1>g. Goes(l, q)
  BY <1>v, ExecTypes DEF Goes
<1> HIDE DEF q
<1>2. /\ UNCHANGED <<procs, pend, emitted, guard, pollMx, sessMx, cmd, hub, polls, cmds, granted, ran, excused>>
      /\ chan' = [chan EXCEPT ![l] = "closed"] /\ chan \in [Loops -> {"none", "wait", "yes", "no", "dropped", "closed"}]
  BY DEF Decided, ExecTypeOK
<1>c. \A k \in Loops : chan'[k] = IF k = l THEN "closed" ELSE chan[k]
  BY <1>2
<1>3. LoopShape(q)
  BY <1>0, <1>1 DEF LoopShape, Working
<1>4. ExecTypeOK'
  BY <1>0, <1>1, <1>2, <1>g, GoesTo DEF ExecTypeOK, LoopRecords
<1>5. ShapeInv' /\ RanInv' /\ HandleInv'
  BY <1>0, <1>1, <1>2, <1>3, <1>g, ShapeKept, RanKept, HandleKept DEF LoopShape
<1>6. AskInv'
  BY <1>0, <1>1, <1>2, <1>c, <1>g, AskKept DEF Requesting
<1>7. PaidInv'
  <2>1. \A k \in Loops : Paid(lp'[k], chan'[k]) => Paid(lp[k], chan[k]) /\ lp'[k].act = lp[k].act
    BY <1>0, <1>1, <1>2, <1>c, <1>g, <1>v, GoesTo DEF Paid
  <2> QED
    BY <1>2, <2>1, PaidKept
<1>8. OnceInv'
  <2>1. \A a \in Acts : (HasYetToRun(q, a) <=> HasYetToRun(lp[l], a)) /\ (Has(q, a) <=> Has(lp[l], a))
    BY <1>0, <1>1 DEF Has, HasYetToRun, Working
  <2> QED
    BY <1>1, <1>2, <1>g, <2>1, OnceKept
<1> QED
  BY <1>4, <1>5, <1>6, <1>7, <1>8

\* Counting one more run of an action.
LEMMA RunsOnceMore ==
    ASSUME ExecTypeOK, NEW a \in Acts, ran' = [ran EXCEPT ![a] = @ + 1]
    PROVE  /\ ran' \in [Acts -> Nat] /\ ran'[a] = ran[a] + 1 /\ ran'[a] > 0
           /\ \A b \in Acts : b # a => ran'[b] = ran[b]
           /\ \A b \in Acts : ran[b] > 0 => ran'[b] > 0
<1>1. ran \in [Acts -> Nat]
  BY DEF ExecTypeOK
<1> QED
  BY <1>1

LEMMA VerifyKeeps == ASSUME ExecInv, NEW l \in Loops, Verify(l) PROVE ExecInv'
<1> USE DEF ExecInv
<1> DEFINE b == lp[l].act
<1>0. lp[l] \in LoopRecords /\ LoopShape(lp[l]) /\ lp[l].pc = "verify" /\ b \in Acts /\ Kind[b] \notin Scripts
  BY ExecTypes, LoopFields DEF ShapeInv, Verify, At, LoopShape
<1>u. UNCHANGED <<chan, pend, emitted, guard, pollMx, cmd, hub, procs, polls, cmds, granted, excused>>
  BY DEF Verify
<1>1. PICK q \in LoopRecords :
        /\ Goes(l, q) /\ q.cancelled = lp[l].cancelled /\ q.batch = lp[l].batch /\ q.act = b
        /\ \/ q.pc = "run" /\ q.verdict = lp[l].verdict /\ ran' = [ran EXCEPT ![b] = @ + 1] /\ sessMx' = sessMx
           \/ q.pc = "post" /\ q.verdict = "failed" /\ ran' = ran /\ sessMx' = 0
  <2>1. CASE lp' = [lp EXCEPT ![l].pc = "run"] /\ ran' = [ran EXCEPT ![lp[l].act] = @ + 1] /\ UNCHANGED sessMx
    <3> DEFINE q == [lp[l] EXCEPT !.pc = "run"]
    <3>1. q \in LoopRecords /\ q.pc = "run" /\ q.cancelled = lp[l].cancelled /\ q.batch = lp[l].batch /\ q.act = lp[l].act /\ q.verdict = lp[l].verdict
      BY <1>0 DEF LoopRecords
    <3>2. Goes(l, q)
      BY <2>1 DEF Goes
    <3> HIDE DEF q
    <3> QED
      BY <2>1, <3>1, <3>2
  <2>2. CASE lp' = [lp EXCEPT ![l].pc = "post", ![l].verdict = "failed"] /\ sessMx' = 0 /\ UNCHANGED ran
    <3> DEFINE q == [lp[l] EXCEPT !.pc = "post", !.verdict = "failed"]
    <3>1. q \in LoopRecords /\ q.pc = "post" /\ q.cancelled = lp[l].cancelled /\ q.batch = lp[l].batch /\ q.act = lp[l].act /\ q.verdict = "failed"
      BY <1>0 DEF LoopRecords
    <3>2. Goes(l, q)
      BY <2>2, ExecTypes DEF Goes
    <3> HIDE DEF q
    <3> QED
      BY <2>2, <3>1, <3>2
  <2> QED
    BY <2>1, <2>2 DEF Verify
<1> HIDE DEF b
<1>2. /\ ran' \in [Acts -> Nat] /\ sessMx' \in 0..MaxLoops
      /\ \A a \in Acts : (a # b => ran'[a] = ran[a]) /\ (ran[a] > 0 => ran'[a] > 0)
      /\ q.pc = "run" => ran'[b] > 0 /\ ran'[b] = ran[b] + 1
      /\ q.pc = "post" => ran' = ran
  BY <1>0, <1>1, RunsOnceMore, LoopsAre DEF ExecTypeOK
<1>3. LoopShape(q)
  BY <1>0, <1>1 DEF LoopShape, Working, b
<1>4. ExecTypeOK'
  BY <1>0, <1>1, <1>2, <1>u, GoesTo DEF ExecTypeOK, LoopRecords
<1>5. ShapeInv' /\ RanInv' /\ HandleInv'
  BY <1>0, <1>1, <1>2, <1>3, <1>u, ShapeKept, RanKept, HandleKept DEF LoopShape
<1>6. AskInv'
  BY <1>0, <1>1, <1>u, AskKept DEF Requesting
<1>7. PaidInv'
  <2>1. \A k \in Loops : Paid(lp'[k], chan'[k]) => Paid(lp[k], chan[k]) /\ lp'[k].act = lp[k].act
    BY <1>0, <1>1, <1>u, GoesTo DEF Paid
  <2> QED
    BY <1>0, <1>2, <1>u, <2>1, PaidKept
<1>8. OnceInv'
  <2>1. \A a \in Acts : (HasYetToRun(q, a) => HasYetToRun(lp[l], a)) /\ (Has(q, a) <=> Has(lp[l], a))
    BY <1>0, <1>1 DEF Has, HasYetToRun, Working, b
  <2>2. HasYetToRun(lp[l], b) /\ Has(lp[l], b) /\ Has(q, b) /\ ~HasYetToRun(q, b)
    BY <1>0, <1>1, <1>3 DEF Has, HasYetToRun, Working, LoopShape, b
  <2> QED
    BY <1>1, <1>2, <1>u, <2>1, <2>2, OnceKept
<1> QED
  BY <1>4, <1>5, <1>6, <1>7, <1>8

LEMMA RunEndsKeeps == ASSUME ExecInv, NEW l \in Loops, RunEnds(l) PROVE ExecInv'
<1> USE DEF ExecInv
<1> DEFINE b == lp[l].act
<1>0. lp[l] \in LoopRecords /\ LoopShape(lp[l]) /\ lp[l].pc = "run" /\ b \in Acts /\ ran[b] > 0
  BY ExecTypes, LoopFields DEF ShapeInv, RunEnds, At, RanInv
<1>u. UNCHANGED <<chan, pend, emitted, guard, pollMx, cmd, hub, polls, cmds, granted, ran, excused>>
      /\ sessMx' \in {0, sessMx} /\ procs' \subseteq procs \cup {b}
  BY DEF RunEnds
<1>v. PICK v \in {"ok", "failed"} : lp' = [lp EXCEPT ![l].pc = "post", ![l].verdict = v]
  BY DEF RunEnds
<1> DEFINE q == [lp[l] EXCEPT !.pc = "post", !.verdict = v]
<1>1. q \in LoopRecords /\ q.pc = "post" /\ q.cancelled = lp[l].cancelled /\ q.batch = lp[l].batch /\ q.act = b /\ q.verdict = v
  BY <1>0 DEF LoopRecords
<1>g. Goes(l, q)
  BY <1>v, ExecTypes DEF Goes
<1> HIDE DEF q, b
<1>2. sessMx' \in 0..MaxLoops /\ procs' \subseteq Acts
  BY <1>0, <1>u, LoopsAre DEF ExecTypeOK
<1>3. LoopShape(q)
  BY <1>0, <1>1 DEF LoopShape, Working, b
<1>4. ExecTypeOK'
  BY <1>0, <1>1, <1>2, <1>u, <1>g, GoesTo DEF ExecTypeOK, LoopRecords
<1>5. ShapeInv' /\ RanInv' /\ HandleInv'
  BY <1>0, <1>1, <1>2, <1>3, <1>u, <1>g, ShapeKept, RanKept, HandleKept
<1>6. AskInv'
  BY <1>0, <1>1, <1>u, <1>g, AskKept DEF Requesting
<1>7. PaidInv'
  <2>1. \A k \in Loops : Paid(lp'[k], chan'[k]) => Paid(lp[k], chan[k]) /\ lp'[k].act = lp[k].act
    BY <1>0, <1>1, <1>u, <1>g, GoesTo DEF Paid
  <2> QED
    BY <1>0, <1>u, <2>1, PaidKept
<1>8. OnceInv'
  <2>1. \A a \in Acts : (HasYetToRun(q, a) => HasYetToRun(lp[l], a)) /\ (Has(q, a) <=> Has(lp[l], a))
    BY <1>0, <1>1 DEF Has, HasYetToRun, Working, b
  <2> QED
    BY <1>1, <1>u, <1>g, <2>1, OnceKept
<1> QED
  BY <1>4, <1>5, <1>6, <1>7, <1>8

LEMMA PostKeeps == ASSUME ExecInv, NEW l \in Loops, PostResponse(l) PROVE ExecInv'
<1> USE DEF ExecInv
<1> DEFINE b == lp[l].act
<1>0. lp[l] \in LoopRecords /\ LoopShape(lp[l]) /\ lp[l].pc = "post" /\ b \in Acts /\ b \notin lp[l].batch
  BY ExecTypes, LoopFields DEF ShapeInv, PostResponse, At, LoopShape, Working
<1>u. UNCHANGED <<procs, chan, pend, emitted, guard, pollMx, sessMx, cmd, polls, cmds, granted, ran>>
  BY DEF PostResponse
<1>h. \/ hub' = [hub EXCEPT ![b] = IF lp[l].verdict = "ok" THEN "ok" ELSE "failed"] /\ excused' = excused
      \/ hub' = hub /\ excused' = excused \cup {b}
  BY DEF PostResponse
<1>p. PICK p \in {"idle", "next"} : lp' = [lp EXCEPT ![l].pc = p, ![l].verdict = "none"] /\ (p = "idle" => lp[l].batch = {})
  BY DEF PostResponse
<1> DEFINE q == [lp[l] EXCEPT !.pc = p, !.verdict = "none"]
<1>1. q \in LoopRecords /\ q.pc = p /\ q.cancelled = lp[l].cancelled /\ q.batch = lp[l].batch /\ q.act = b /\ q.verdict = "none"
  BY <1>0 DEF LoopRecords
<1>g. Goes(l, q)
  BY <1>p, ExecTypes DEF Goes
<1> HIDE DEF q, b
<1>2. /\ hub' \in [Acts -> {"open", "ok", "failed"}] /\ excused' \subseteq Acts /\ excused \subseteq excused'
      /\ \A a \in Acts : a # b => hub'[a] = hub[a]
      /\ b \notin excused' => hub'[b] # "open"
      /\ hub'[b] = "ok" => hub[b] = "ok" \/ lp[l].verdict = "ok"
  BY <1>0, <1>h DEF ExecTypeOK
<1>3. LoopShape(q)
  BY <1>0, <1>1, <1>p DEF LoopShape, Working
<1>4. ExecTypeOK'
  BY <1>0, <1>1, <1>2, <1>u, <1>g, GoesTo DEF ExecTypeOK, LoopRecords
<1>r. lp[l].verdict = "ok" => ran[b] > 0
  BY DEF RanInv, b
<1>5. ShapeInv' /\ RanInv' /\ HandleInv'
  BY <1>0, <1>1, <1>2, <1>3, <1>r, <1>u, <1>g, ShapeKept, RanKept, HandleKept
<1>6. AskInv'
  BY <1>0, <1>1, <1>u, <1>g, AskKept DEF Requesting
<1>7. PaidInv'
  <2>1. \A k \in Loops : Paid(lp'[k], chan'[k]) => Paid(lp[k], chan[k]) /\ lp'[k].act = lp[k].act
    BY <1>0, <1>1, <1>u, <1>g, GoesTo DEF Paid
  <2> QED
    BY <1>0, <1>u, <2>1, PaidKept
<1>8. OnceInv'
  <2>1. \A a \in Acts : a # b => (HasYetToRun(q, a) => HasYetToRun(lp[l], a)) /\ (Has(q, a) <=> Has(lp[l], a))
    BY <1>0, <1>1 DEF Has, HasYetToRun, Working, b
  <2>2. Has(lp[l], b) /\ ~Has(q, b) /\ ~HasYetToRun(q, b)
    BY <1>0, <1>1 DEF Has, HasYetToRun, Working, b
  <2> QED
    BY <1>1, <1>2, <1>u, <1>g, <2>1, <2>2, OnceKept
<1> QED
  BY <1>4, <1>5, <1>6, <1>7, <1>8

\* The map and the channels after a sender was dropped.
LEMMA Dropped ==
    ASSUME ExecTypeOK, NEW a \in Acts, NEW l \in Loops, NEW x \in {"none", "wait"},
           chan' = [DropSender(a, chan) EXCEPT ![l] = x]
    PROVE  /\ chan' \in [Loops -> {"none", "wait", "yes", "no", "dropped", "closed"}] /\ chan'[l] = x
           /\ \A k \in Loops : k # l => \/ chan'[k] = chan[k] /\ (chan[k] = "wait" => pend[a] # k)
                                        \/ chan'[k] = "dropped" /\ chan[k] = "wait" /\ pend[a] = k
<1>1. chan \in [Loops -> {"none", "wait", "yes", "no", "dropped", "closed"}] /\ (pend[a] # 0 => pend[a] \in Loops)
  BY ExecTypes DEF ExecTypeOK
<1>2. CASE pend[a] # 0 /\ chan[pend[a]] = "wait"
  <2>1. DropSender(a, chan) = [chan EXCEPT ![pend[a]] = "dropped"]
    BY <1>2 DEF DropSender
  <2> QED
    BY <1>1, <1>2, <2>1
<1>3. CASE ~(pend[a] # 0 /\ chan[pend[a]] = "wait")
  <2>1. DropSender(a, chan) = chan
    BY <1>3 DEF DropSender
  <2>2. \A k \in Loops : pend[a] = k /\ chan[k] = "wait" => FALSE
    BY <1>3, LoopsAre
  <2> QED
    BY <1>1, <2>1, <2>2
<1> QED
  BY <1>2, <1>3

\* An approval is used up by the run it pays for.
LEMMA CleanKeeps == ASSUME ExecInv, NEW l \in Loops, Clean(l) PROVE ExecInv'
<1> USE DEF ExecInv
<1> DEFINE b == lp[l].act
           yes == lp[l].verdict = "approved"
           p == IF yes THEN "run" ELSE "post"
           q == [lp[l] EXCEPT !.pc = p]
<1>0. lp[l] \in LoopRecords /\ LoopShape(lp[l]) /\ lp[l].pc = "clean" /\ b \in Acts /\ lp[l].verdict # "ok"
  BY ExecTypes, LoopFields DEF ShapeInv, Clean, At, LoopShape
<1>u. UNCHANGED <<procs, emitted, guard, pollMx, sessMx, cmd, hub, polls, cmds, granted, excused>>
  BY DEF Clean
<1>c. /\ chan' = [DropSender(b, chan) EXCEPT ![l] = "none"] /\ pend' = [pend EXCEPT ![b] = 0]
      /\ ran' = IF yes THEN [ran EXCEPT ![b] = @ + 1] ELSE ran
      /\ lp' = [lp EXCEPT ![l].pc = p]
  BY DEF Clean
<1>1. q \in LoopRecords /\ q.pc = p /\ q.cancelled = lp[l].cancelled /\ q.batch = lp[l].batch /\ q.act = b /\ q.verdict = lp[l].verdict
  BY <1>0 DEF LoopRecords
<1>g. Goes(l, q)
  BY <1>c DEF Goes
<1>y. (yes => p = "run") /\ (~yes => p = "post")
  OBVIOUS
<1> HIDE DEF q, b, p, yes
<1>2. /\ ran' \in [Acts -> Nat] /\ pend' \in [Acts -> 0..MaxLoops]
      /\ \A a \in Acts : (a # b => ran'[a] = ran[a]) /\ (ran[a] > 0 => ran'[a] > 0)
      /\ yes => ran'[b] > 0 /\ ran'[b] = ran[b] + 1
      /\ ~yes => ran' = ran
      /\ \A a \in Acts : pend'[a] = IF a = b THEN 0 ELSE pend[a]
  BY <1>0, <1>c, RunsOnceMore, LoopsAre DEF ExecTypeOK
<1>d. /\ chan' \in [Loops -> {"none", "wait", "yes", "no", "dropped", "closed"}] /\ chan'[l] = "none"
      /\ \A k \in Loops : k # l => \/ chan'[k] = chan[k] /\ (chan[k] = "wait" => pend[b] # k)
                                   \/ chan'[k] = "dropped" /\ chan[k] = "wait" /\ pend[b] = k
  BY <1>0, <1>c, Dropped
<1>k. \A k \in Loops : lp'[k] = IF k = l THEN q ELSE lp[k]
  BY <1>1, <1>g, GoesTo
<1>3. LoopShape(q)
  BY <1>0, <1>1, <1>y DEF LoopShape, Working, b
<1>4. ExecTypeOK'
  BY <1>0, <1>1, <1>2, <1>d, <1>u, <1>g, GoesTo DEF ExecTypeOK, LoopRecords
<1>5. ShapeInv' /\ RanInv' /\ HandleInv'
  BY <1>0, <1>1, <1>2, <1>3, <1>u, <1>g, <1>y, ShapeKept, RanKept, HandleKept
<1>6. AskInv'
  <2>1. PendingIsAsking'
    <3> SUFFICES ASSUME NEW a \in Acts, pend'[a] # 0
                 PROVE  lp'[pend'[a]].act = a /\ lp'[pend'[a]].pc \in {"emit", "asking", "clean"}
      BY DEF PendingIsAsking
    <3>1. a # b /\ pend'[a] = pend[a] /\ pend[a] \in Loops /\ lp[pend[a]].act = a /\ lp[pend[a]].pc \in {"emit", "asking", "clean"}
      BY <1>2, ExecTypes DEF AskInv, PendingIsAsking
    <3>2. pend[a] # l
      BY <3>1 DEF b
    <3> QED
      BY <1>k, <3>1, <3>2
  <2>2. ASSUME NEW k \in Loops, lp'[k].pc \in {"emit", "asking"}, chan'[k] = "wait" PROVE pend'[lp'[k].act] = k
    <3>1. k # l /\ lp'[k] = lp[k]
      BY <1>1, <1>k, <1>y, <2>2
    <3>2. chan[k] = "wait" /\ pend[b] # k /\ pend[lp[k].act] = k /\ lp[k].act \in Acts
      BY <1>d, <2>2, <3>1, ExecTypes, LoopFields DEF AskInv
    <3> QED
      BY <1>2, <3>1, <3>2
  <2> QED
    BY <2>1, <2>2 DEF AskInv
<1>7. PaidInv'
  <2>1. \A k \in Loops : k # l /\ Paid(lp'[k], chan'[k]) => Paid(lp[k], chan[k]) /\ lp'[k].act = lp[k].act
    BY <1>d, <1>k DEF Paid
  <2>2. ~Paid(lp'[l], chan'[l])
    BY <1>1, <1>k, <1>y DEF Paid
  <2>3. CASE ~yes
    BY <1>2, <1>u, <2>1, <2>2, <2>3, PaidKept
  <2>4. CASE yes
    <3> SUFFICES ASSUME NEW a \in Acts, Kind[a] \in Scripts PROVE ran'[a] + Cardinality(PaidFor(a)') <= granted'[a]
      BY DEF PaidInv
    <3>1. PaidFor(a)' \subseteq PaidFor(a) \ {l}
      BY <2>1, <2>2 DEF PaidFor
    <3>2. ran[a] \in Nat /\ granted[a] \in Nat /\ granted'[a] = granted[a] /\ ran[a] + Cardinality(PaidFor(a)) <= granted[a]
      BY <1>u DEF PaidInv, ExecTypeOK
    <3>3. CASE a # b
      <4>1. PaidFor(a)' \subseteq PaidFor(a) /\ ran'[a] = ran[a]
        BY <1>2, <3>1, <3>3
      <4>2. Cardinality(PaidFor(a)') <= Cardinality(PaidFor(a)) /\ Cardinality(PaidFor(a)') \in Nat
        BY <4>1, PaidIsFinite, FS_Subset, FS_CardinalityType
      <4> QED
        BY <3>2, <4>1, <4>2, PaidIsFinite
    <3>4. CASE a = b
      <4>1. l \in PaidFor(a)
        BY <1>0, <2>4, <3>4 DEF PaidFor, Paid, b, yes
      <4>2. IsFiniteSet(PaidFor(a) \ {l}) /\ Cardinality(PaidFor(a) \ {l}) = Cardinality(PaidFor(a)) - 1
        BY <4>1, PaidIsFinite, FS_RemoveElement
      <4>3. Cardinality(PaidFor(a)') <= Cardinality(PaidFor(a) \ {l}) /\ Cardinality(PaidFor(a)') \in Nat
        BY <3>1, <4>2, FS_Subset, FS_CardinalityType
      <4>4. ran'[a] = ran[a] + 1
        BY <1>2, <2>4, <3>4
      <4> QED
        BY <3>2, <4>2, <4>3, <4>4, PaidIsFinite
    <3> QED
      BY <3>3, <3>4
  <2> QED
    BY <2>3, <2>4
<1>8. OnceInv'
  <2>1. \A a \in Acts : (HasYetToRun(q, a) => HasYetToRun(lp[l], a)) /\ (Has(q, a) <=> Has(lp[l], a))
    BY <1>0, <1>1, <1>y DEF Has, HasYetToRun, Working, b
  <2>2. HasYetToRun(lp[l], b) /\ Has(lp[l], b) /\ Has(q, b) /\ ~HasYetToRun(q, b)
    BY <1>0, <1>1, <1>3, <1>y DEF Has, HasYetToRun, Working, LoopShape, b
  <2>3. CASE yes
    BY <1>1, <1>2, <1>u, <1>g, <2>1, <2>2, <2>3, OnceKept
  <2>4. CASE ~yes
    BY <1>1, <1>2, <1>u, <1>g, <2>1, <2>2, <2>4, OnceKept
  <2> QED
    BY <2>3, <2>4
<1> QED
  BY <1>4, <1>5, <1>6, <1>7, <1>8

\* The next action of the batch is taken up: asked about, run or refused.
LEMMA TakenUp ==
    ASSUME NEW r \in LoopRecords, LoopShape(r), r.pc = "next", NEW a \in r.batch,
           NEW q \in LoopRecords, q.pc \in {"emit", "run", "verify", "post"}, q.pc = "verify" => Kind[a] \notin Scripts,
           q.act = a, q.batch = r.batch \ {a}, q.verdict = r.verdict
    PROVE  /\ LoopShape(q) /\ q.verdict # "ok"
           /\ \A x \in Acts : Has(q, x) <=> Has(r, x)
           /\ \A x \in Acts : HasYetToRun(q, x) => HasYetToRun(r, x)
           /\ HasYetToRun(r, a) /\ Has(r, a) /\ Has(q, a)
           /\ q.pc = "run" => ~HasYetToRun(q, a)
<1>2. LoopShape(q) /\ q.verdict # "ok"
  BY DEF LoopShape, Working
<1>3. \A x \in Acts : Has(q, x) <=> Has(r, x)
  BY DEF Has, Working
<1>4. \A x \in Acts : HasYetToRun(q, x) => HasYetToRun(r, x)
  BY DEF HasYetToRun
<1>5. /\ HasYetToRun(r, a) /\ Has(r, a) /\ Has(q, a)
      /\ q.pc = "run" => ~HasYetToRun(q, a)
  BY DEF Has, HasYetToRun, Working
<1> QED
  BY <1>2, <1>3, <1>4, <1>5

LEMMA ExecuteFrame ==
    ASSUME NEW l \in Loops, Execute(l)
    PROVE  /\ lp[l].pc = "next"
           /\ UNCHANGED <<procs, emitted, guard, pollMx, cmd, hub, polls, cmds, granted, excused>>
BY DEF Execute, At

LEMMA AskKeeps ==
    ASSUME ExecInv, NEW l \in Loops, Execute(l), NEW b \in lp[l].batch, Ask(l, b)
    PROVE  ExecInv'
<1> USE DEF ExecInv
<1> DEFINE q == [lp[l] EXCEPT !.pc = "emit", !.act = b, !.batch = @ \ {b}]
<1>u. lp[l].pc = "next" /\ UNCHANGED <<procs, emitted, guard, pollMx, cmd, hub, polls, cmds, granted, excused, sessMx, ran>>
  BY ExecuteFrame DEF Ask
<1>g. Goes(l, q)
  BY ExecTypes DEF Ask, Goes
<1>0. lp[l] \in LoopRecords /\ LoopShape(lp[l]) /\ b \in Acts
  BY ExecTypes, LoopFields DEF ShapeInv
<1>q. q \in LoopRecords /\ q.pc = "emit" /\ q.act = b /\ q.batch = lp[l].batch \ {b} /\ q.cancelled = lp[l].cancelled /\ q.verdict = lp[l].verdict
  BY <1>0 DEF LoopRecords
<1> HIDE DEF q
<1>1. /\ q \in LoopRecords /\ LoopShape(q) /\ b \in Acts
      /\ q.pc = "emit" /\ q.act = b /\ q.cancelled = lp[l].cancelled /\ q.verdict # "ok"
      /\ \A x \in Acts : Has(q, x) <=> Has(lp[l], x)
      /\ \A x \in Acts : HasYetToRun(q, x) => HasYetToRun(lp[l], x)
  BY <1>0, <1>u, <1>q, TakenUp
<1>c. chan' = [DropSender(b, chan) EXCEPT ![l] = "wait"] /\ pend' = [pend EXCEPT ![b] = l]
  BY DEF Ask
<1>2. /\ pend' \in [Acts -> 0..MaxLoops] /\ \A a \in Acts : pend'[a] = IF a = b THEN l ELSE pend[a]
  BY <1>c, LoopsAre DEF ExecTypeOK
<1>d. /\ chan' \in [Loops -> {"none", "wait", "yes", "no", "dropped", "closed"}] /\ chan'[l] = "wait"
      /\ \A k \in Loops : k # l => \/ chan'[k] = chan[k] /\ (chan[k] = "wait" => pend[b] # k)
                                   \/ chan'[k] = "dropped" /\ chan[k] = "wait" /\ pend[b] = k
  <2>1. ExecTypeOK /\ b \in Acts /\ chan' = [DropSender(b, chan) EXCEPT ![l] = "wait"]
    BY <1>1, <1>c
  <2> QED
    BY <2>1, Dropped
<1>k. \A k \in Loops : lp'[k] = IF k = l THEN q ELSE lp[k]
  BY <1>1, <1>g, GoesTo
<1>4. ExecTypeOK'
  BY <1>1, <1>2, <1>d, <1>u, <1>g, GoesTo DEF ExecTypeOK, LoopRecords
<1>5. ShapeInv' /\ RanInv' /\ HandleInv'
  BY <1>1, <1>u, <1>g, ShapeKept, RanKept, HandleKept
<1>6. AskInv'
  <2>1. PendingIsAsking'
    <3> SUFFICES ASSUME NEW a \in Acts, pend'[a] # 0
                 PROVE  lp'[pend'[a]].act = a /\ lp'[pend'[a]].pc \in {"emit", "asking", "clean"}
      BY DEF PendingIsAsking
    <3>1. CASE a = b
      BY <1>1, <1>2, <1>k, <3>1
    <3>2. CASE a # b
      <4>1. pend'[a] = pend[a] /\ pend[a] \in Loops /\ lp[pend[a]].act = a /\ lp[pend[a]].pc \in {"emit", "asking", "clean"}
        BY <1>2, <3>2, ExecTypes DEF AskInv, PendingIsAsking
      <4> QED
        BY <1>k, <1>u, <4>1
    <3> QED
      BY <3>1, <3>2
  <2>2. ASSUME NEW k \in Loops, lp'[k].pc \in {"emit", "asking"}, chan'[k] = "wait" PROVE pend'[lp'[k].act] = k
    <3>1. CASE k = l
      BY <1>1, <1>2, <1>k, <3>1
    <3>2. CASE k # l
      <4>1. lp'[k] = lp[k] /\ chan[k] = "wait" /\ pend[b] # k /\ pend[lp[k].act] = k /\ lp[k].act \in Acts
        BY <1>d, <1>k, <2>2, <3>2, ExecTypes, LoopFields DEF AskInv
      <4> QED
        BY <1>2, <4>1
    <3> QED
      BY <3>1, <3>2
  <2> QED
    BY <2>1, <2>2 DEF AskInv
<1>7. PaidInv'
  <2>1. \A k \in Loops : Paid(lp'[k], chan'[k]) => Paid(lp[k], chan[k]) /\ lp'[k].act = lp[k].act
    BY <1>1, <1>d, <1>k DEF Paid
  <2> QED
    BY <1>u, <2>1, PaidKept
<1>8. OnceInv'
  BY <1>1, <1>u, <1>g, OnceKept
<1> QED
  BY <1>4, <1>5, <1>6, <1>7, <1>8

LEMMA RunLockedKeeps ==
    ASSUME ExecInv, NEW l \in Loops, Execute(l), NEW b \in lp[l].batch, RunLocked(l, b) \/ Refuse(l, b)
    PROVE  ExecInv'
<1> USE DEF ExecInv
<1>u. lp[l].pc = "next" /\ UNCHANGED <<procs, emitted, guard, pollMx, cmd, hub, polls, cmds, granted, excused, chan, pend>>
  BY ExecuteFrame DEF RunLocked, Refuse
<1>p. PICK p \in {"run", "verify", "post"} :
        /\ lp' = [lp EXCEPT ![l].pc = p, ![l].act = b, ![l].batch = @ \ {b}]
        /\ p # "post" => Kind[b] \notin Scripts
        /\ sessMx' \in {l, sessMx}
        /\ ran' = IF p = "run" THEN [ran EXCEPT ![b] = @ + 1] ELSE ran
  <2>1. CASE RunLocked(l, b) /\ Kind[b] = "bridge"
    BY <2>1 DEF RunLocked, Scripts
  <2>2. CASE RunLocked(l, b) /\ Kind[b] # "bridge"
    BY <2>2 DEF RunLocked, Scripts
  <2>3. CASE Refuse(l, b)
    BY <2>3 DEF Refuse
  <2> QED
    BY <2>1, <2>2, <2>3
<1> DEFINE q == [lp[l] EXCEPT !.pc = p, !.act = b, !.batch = @ \ {b}]
<1>g. Goes(l, q)
  BY <1>p, ExecTypes DEF Goes
<1>0. lp[l] \in LoopRecords /\ LoopShape(lp[l]) /\ b \in Acts
  BY ExecTypes, LoopFields DEF ShapeInv
<1>q. q \in LoopRecords /\ q.pc = p /\ q.act = b /\ q.batch = lp[l].batch \ {b} /\ q.cancelled = lp[l].cancelled /\ q.verdict = lp[l].verdict
  BY <1>0 DEF LoopRecords
<1> HIDE DEF q
<1>1. /\ q \in LoopRecords /\ LoopShape(q) /\ b \in Acts
      /\ q.pc = p /\ q.act = b /\ q.cancelled = lp[l].cancelled /\ q.verdict # "ok"
      /\ \A x \in Acts : Has(q, x) <=> Has(lp[l], x)
      /\ \A x \in Acts : HasYetToRun(q, x) => HasYetToRun(lp[l], x)
      /\ HasYetToRun(lp[l], b) /\ Has(lp[l], b) /\ Has(q, b)
      /\ p = "run" => ~HasYetToRun(q, b)
  BY <1>0, <1>u, <1>p, <1>q, TakenUp
<1>2. /\ ran' \in [Acts -> Nat] /\ sessMx' \in 0..MaxLoops
      /\ \A a \in Acts : (a # b => ran'[a] = ran[a]) /\ (ran[a] > 0 => ran'[a] > 0)
      /\ p = "run" => ran'[b] > 0 /\ ran'[b] = ran[b] + 1
      /\ p # "run" => ran' = ran
  BY <1>1, <1>p, RunsOnceMore, LoopsAre DEF ExecTypeOK
<1>k. \A k \in Loops : lp'[k] = IF k = l THEN q ELSE lp[k]
  BY <1>1, <1>g, GoesTo
<1>4. ExecTypeOK'
  BY <1>1, <1>2, <1>u, <1>g, GoesTo DEF ExecTypeOK, LoopRecords
<1>5. ShapeInv' /\ RanInv' /\ HandleInv'
  BY <1>1, <1>2, <1>u, <1>g, ShapeKept, RanKept, HandleKept
<1>6. AskInv'
  BY <1>1, <1>u, <1>g, AskKept DEF Requesting
<1>7. PaidInv'
  <2>1. \A k \in Loops : Paid(lp'[k], chan'[k]) => Paid(lp[k], chan[k]) /\ lp'[k].act = lp[k].act
    BY <1>1, <1>u, <1>k DEF Paid
  <2>2. \A a \in Acts : Kind[a] \in Scripts => ran'[a] = ran[a]
    BY <1>2, <1>p
  <2> QED
    BY <1>u, <2>1, <2>2, PaidKept
<1>8. OnceInv'
  <2>3. CASE p = "run"
    BY <1>1, <1>2, <1>u, <1>g, <2>3, OnceKept
  <2>4. CASE p # "run"
    BY <1>1, <1>2, <1>u, <1>g, <2>4, OnceKept
  <2> QED
    BY <2>3, <2>4
<1> QED
  BY <1>4, <1>5, <1>6, <1>7, <1>8

LEMMA ExecuteKeeps == ASSUME ExecInv, NEW l \in Loops, Execute(l) PROVE ExecInv'
BY AskKeeps, RunLockedKeeps DEF Execute

\* A loop that polls is the one that is held, so no other has what it is given.
LEMMA PollKeeps == ASSUME ExecInv, NEW l \in Loops, Poll(l) PROVE ExecInv'
<1> USE DEF ExecInv
<1>0. lp[l] \in LoopRecords /\ LoopShape(lp[l]) /\ lp[l].pc = "idle" /\ lp[l].batch = {} /\ lp[l].verdict # "ok"
  BY ExecTypes DEF ShapeInv, LoopShape, Poll, At
<1>b. PICK b \in SUBSET {a \in Acts : hub[a] = "open"} :
        /\ lp' = [lp EXCEPT ![l].pc = "next", ![l].batch = b]
        /\ excused' = excused \cup (IF lp[l].cancelled THEN b ELSE {})
  BY DEF Poll
<1>u. UNCHANGED <<procs, chan, pend, emitted, guard, pollMx, sessMx, cmd, hub, cmds, granted, ran>>
      /\ polls' = polls + 1 /\ polls < MaxPolls
  BY DEF Poll
<1> DEFINE q == [lp[l] EXCEPT !.pc = "next", !.batch = b]
<1>1. q \in LoopRecords /\ q.pc = "next" /\ q.cancelled = lp[l].cancelled /\ q.batch = b /\ q.act = lp[l].act /\ q.verdict = lp[l].verdict
  BY <1>0 DEF LoopRecords
<1>g. Goes(l, q)
  BY <1>b, ExecTypes DEF Goes
<1> HIDE DEF q
<1>k. \A k \in Loops : lp'[k] = IF k = l THEN q ELSE lp[k]
  BY <1>1, <1>g, GoesTo
<1>2. polls' \in 0..MaxPolls
  BY <1>u, ExecAssumption DEF ExecTypeOK
<1>e. excused' \subseteq Acts /\ excused \subseteq excused' /\ (lp[l].cancelled => b \subseteq excused') /\ (~lp[l].cancelled => excused' = excused)
  BY <1>b DEF ExecTypeOK
<1>3. LoopShape(q)
  BY <1>0, <1>1 DEF LoopShape, Working
<1>4. ExecTypeOK'
  BY <1>1, <1>2, <1>e, <1>u, <1>g, GoesTo DEF ExecTypeOK, LoopRecords
<1>5. ShapeInv' /\ RanInv' /\ HandleInv'
  BY <1>0, <1>1, <1>3, <1>u, <1>g, ShapeKept, RanKept, HandleKept
<1>6. AskInv'
  BY <1>0, <1>1, <1>u, <1>g, AskKept DEF Requesting
<1>7. PaidInv'
  <2>1. \A k \in Loops : Paid(lp'[k], chan'[k]) => Paid(lp[k], chan[k]) /\ lp'[k].act = lp[k].act
    BY <1>0, <1>1, <1>u, <1>k DEF Paid
  <2> QED
    BY <1>u, <2>1, PaidKept
<1>8. OnceInv'
  <2>0. \A a \in Acts : ~Has(lp[l], a) /\ (Has(q, a) <=> a \in b) /\ (HasYetToRun(q, a) <=> a \in b)
    BY <1>0, <1>1 DEF Has, HasYetToRun, Working
  <2>1. CASE lp[l].cancelled
    <3>1. \A a \in Acts \ excused' : ~Has(q, a) /\ ~HasYetToRun(q, a)
      BY <1>e, <2>0, <2>1
    <3> QED
      BY <1>1, <1>e, <1>u, <1>g, <2>0, <3>1, OnceKept
  <2>2. CASE ~lp[l].cancelled
    <3>1. guard = l /\ l # 0
      BY <1>0, <2>2, LoopsAre DEF HandleInv, LiveLoopIsHeld, Alive
    <3>2. pollMx = 0 /\ \A c \in Cmds : cmd[c].pc # "await"
      BY <3>1, ExecAssumption DEF HandleInv
    <3>3. ASSUME NEW a \in Acts \ excused, NEW k \in Loops, k # l PROVE ~Has(lp[k], a)
      <4> SUFFICES ASSUME Has(lp[k], a) PROVE FALSE
        OBVIOUS
      <4>1. ~lp[k].cancelled
        BY <3>2 DEF OnceInv
      <4>2. lp[k].pc \notin {"unborn", "exited"}
        BY DEF Has, Working, ShapeInv, LoopShape
      <4> QED
        BY <3>1, <3>3, <4>1, <4>2 DEF HandleInv, LiveLoopIsHeld, Alive
    <3> SUFFICES ASSUME NEW a \in Acts \ excused
                 PROVE  /\ ran[a] <= 1
                        /\ \A k \in Loops : Has(lp'[k], a) => hub[a] = "open"
                        /\ \A j, k \in Loops : Has(lp'[j], a) /\ Has(lp'[k], a) => j = k
                        /\ \A k \in Loops : HasYetToRun(lp'[k], a) => ran[a] = 0
                        /\ hub[a] = "open" /\ (\A k \in Loops : ~Has(lp'[k], a)) => ran[a] = 0
                        /\ \A k \in Loops : Has(lp'[k], a) /\ lp'[k].cancelled => \E c \in Cmds : cmd[c].pc = "await" /\ cmd[c].old = k
      BY <1>e, <1>u, <2>2 DEF OnceInv
    <3>4. \A k \in Loops : ~Has(lp[k], a) /\ ~HasYetToRun(lp[k], a)
      BY <2>0, <3>3 DEF Has, HasYetToRun, Working
    <3>5. ran[a] <= 1 /\ (hub[a] = "open" => ran[a] = 0) /\ (a \in b => hub[a] = "open")
      BY <3>4 DEF OnceInv
    <3>6. \A k \in Loops : (Has(lp'[k], a) => k = l /\ a \in b) /\ (HasYetToRun(lp'[k], a) => k = l /\ a \in b)
      BY <1>k, <2>0, <3>4
    <3>7. ~lp'[l].cancelled
      BY <1>1, <1>k, <2>2
    <3> QED
      BY <3>5, <3>6, <3>7
  <2> QED
    BY <2>1, <2>2
<1> QED
  BY <1>4, <1>5, <1>6, <1>7, <1>8

LEMMA LoopKeeps == ASSUME ExecInv, NEW l \in Loops, LoopStep(l) PROVE ExecInv'
BY PollKeeps, LoopExitsKeeps, ExecuteKeeps, EmitKeeps, DecidedKeeps, CleanKeeps, VerifyKeeps, RunEndsKeeps, PostKeeps DEF LoopStep

-----------------------------------------------------------------------------
\* The user's answer pays for one run of the action it was asked about.
LEMMA RespondKeeps == ASSUME ExecInv, NEW a \in Acts, NEW yes \in BOOLEAN, Respond(a, yes) PROVE ExecInv'
<1> USE DEF ExecInv
<1> DEFINE k == pend[a]
<1>0. k \in Loops /\ lp[k].act = a /\ lp[k].pc \in {"emit", "asking", "clean"}
  BY ExecTypes DEF Respond, AskInv, PendingIsAsking
<1>u. UNCHANGED <<procs, lp, emitted, guard, pollMx, sessMx, cmd, hub, polls, cmds, ran, excused>> /\ pend' = [pend EXCEPT ![a] = 0]
  BY DEF Respond
<1>c. \/ /\ chan[k] = "wait" /\ chan' = [chan EXCEPT ![k] = IF yes THEN "yes" ELSE "no"]
         /\ granted' = IF yes THEN [granted EXCEPT ![a] = @ + 1] ELSE granted
      \/ chan[k] # "wait" /\ chan' = chan /\ granted' = granted
  BY DEF Respond
<1>k. pend[a] = k
  OBVIOUS
<1> HIDE DEF k
<1>1. \A x \in Acts : pend'[x] = IF x = a THEN 0 ELSE pend[x]
  BY <1>u DEF ExecTypeOK
<1>2. \A j \in Loops : /\ j # k => chan'[j] = chan[j]
                       /\ chan'[j] = "wait" => chan[j] = "wait" /\ j # k
  BY <1>0, <1>c DEF ExecTypeOK
<1>3. chan' \in [Loops -> {"none", "wait", "yes", "no", "dropped", "closed"}]
  BY <1>0, <1>c DEF ExecTypeOK
<1>4. /\ granted' \in [Acts -> Nat]
      /\ \A x \in Acts : granted[x] <= granted'[x]
      /\ chan[k] = "wait" /\ yes => granted'[a] = granted[a] + 1
      /\ ~(chan[k] = "wait" /\ yes) => chan'[k] # "yes" \/ chan[k] = "yes"
  <2>1. granted \in [Acts -> Nat] /\ chan \in [Loops -> {"none", "wait", "yes", "no", "dropped", "closed"}]
    BY DEF ExecTypeOK
  <2> QED
    BY <1>0, <1>c, <2>1
<1>5. ExecTypeOK'
  <2>1. pend' \in [Acts -> 0..MaxLoops]
    BY <1>u, LoopsAre DEF ExecTypeOK
  <2> QED
    BY <1>3, <1>4, <1>u, <2>1 DEF ExecTypeOK
<1>6. ShapeInv' /\ RanInv' /\ HandleInv' /\ OnceInv'
  BY <1>u DEF ShapeInv, RanInv, SuccessMeansRan, HandleInv, LiveLoopIsHeld, Alive, OnceInv
<1>7. AskInv'
  <2>1. PendingIsAsking'
    BY <1>1, <1>u DEF AskInv, PendingIsAsking
  <2>2. ASSUME NEW j \in Loops, lp[j].pc \in {"emit", "asking"}, chan'[j] = "wait" PROVE pend'[lp[j].act] = j
    <3>1. chan[j] = "wait" /\ j # k /\ pend[lp[j].act] = j /\ lp[j].act \in Acts
      BY <1>2, <2>2, ExecTypes, LoopFields DEF AskInv
    <3> QED
      BY <1>1, <1>k, <3>1
  <2> QED
    BY <1>u, <2>1, <2>2 DEF AskInv
<1>8. PaidInv'
  <2> SUFFICES ASSUME NEW x \in Acts, Kind[x] \in Scripts PROVE ran[x] + Cardinality(PaidFor(x)') <= granted'[x]
    BY <1>u DEF PaidInv
  <2>1. ran[x] \in Nat /\ granted[x] \in Nat /\ granted'[x] \in Nat /\ ran[x] + Cardinality(PaidFor(x)) <= granted[x] /\ granted[x] <= granted'[x]
    BY <1>4 DEF PaidInv, ExecTypeOK
  <2>2. CASE x = a /\ chan[k] = "wait" /\ yes
    <3>1. PaidFor(x)' \subseteq PaidFor(x) \cup {k}
      BY <1>2, <1>u DEF PaidFor, Paid
    <3>2. IsFiniteSet(PaidFor(x) \cup {k}) /\ Cardinality(PaidFor(x) \cup {k}) <= Cardinality(PaidFor(x)) + 1
      <4> DEFINE S == PaidFor(x)
      <4>1. IsFiniteSet(S) /\ Cardinality(S) \in Nat
        BY PaidIsFinite
      <4> HIDE DEF S
      <4>2. IsFiniteSet(S \cup {k}) /\ (Cardinality(S \cup {k}) = Cardinality(S) \/ Cardinality(S \cup {k}) = Cardinality(S) + 1)
        BY <4>1, FS_AddElement
      <4>3. Cardinality(S \cup {k}) <= Cardinality(S) + 1
        BY <4>1, <4>2
      <4> QED
        BY <4>2, <4>3 DEF S
    <3>3. Cardinality(PaidFor(x)') <= Cardinality(PaidFor(x) \cup {k}) /\ Cardinality(PaidFor(x)') \in Nat /\ Cardinality(PaidFor(x) \cup {k}) \in Nat
      BY <3>1, <3>2, FS_Subset, FS_CardinalityType
    <3>4. granted'[x] = granted[x] + 1
      BY <1>4, <2>2
    <3> QED
      BY <2>1, <3>2, <3>3, <3>4, PaidIsFinite
  <2>3. CASE ~(x = a /\ chan[k] = "wait" /\ yes)
    <3>1. PaidFor(x)' \subseteq PaidFor(x)
      <4> SUFFICES ASSUME NEW j \in Loops, lp[j].act = x, Paid(lp[j], chan'[j]) PROVE Paid(lp[j], chan[j])
        BY <1>u DEF PaidFor
      <4>1. CASE j # k
        BY <1>2, <4>1
      <4>2. CASE j = k
        BY <1>0, <1>4, <2>3, <4>2 DEF Paid
      <4> QED
        BY <4>1, <4>2
    <3>2. Cardinality(PaidFor(x)') <= Cardinality(PaidFor(x)) /\ Cardinality(PaidFor(x)') \in Nat
      BY <3>1, PaidIsFinite, FS_Subset, FS_CardinalityType
    <3> QED
      BY <2>1, <3>2, PaidIsFinite
  <2> QED
    BY <2>2, <2>3
<1> QED
  BY <1>5, <1>6, <1>7, <1>8

-----------------------------------------------------------------------------
CmdRecords == [op : {"none", "login", "logout"}, old : 0..MaxLoops, pc : {"done", "lock", "await", "register", "clear"}]

LEMMA CmdTypes ==
    ASSUME ExecTypeOK, NEW c \in Cmds, NEW y \in CmdRecords, cmd' = [cmd EXCEPT ![c] = y]
    PROVE  /\ cmd[c] \in CmdRecords /\ cmd' \in [Cmds -> CmdRecords] /\ cmd'[c] = y
           /\ \A d \in Cmds : d # c => cmd'[d] = cmd[d]
<1>1. cmd \in [Cmds -> CmdRecords]
  BY DEF ExecTypeOK, CmdRecords
<1> QED
  BY <1>1

\* A command leaves what the loops are doing alone, save that one is cancelled.
LEMMA CommandFrame ==
    ASSUME ExecInv, UNCHANGED <<chan, pend, hub, granted, ran>>,
           \A l \in Loops : /\ lp'[l].pc = lp[l].pc /\ lp'[l].act = lp[l].act
                            /\ lp'[l].batch = lp[l].batch /\ lp'[l].verdict = lp[l].verdict
    PROVE  /\ ShapeInv' /\ RanInv' /\ AskInv' /\ PaidInv'
           /\ \A l \in Loops, a \in Acts : /\ Has(lp'[l], a) <=> Has(lp[l], a)
                                           /\ HasYetToRun(lp'[l], a) <=> HasYetToRun(lp[l], a)
<1> USE DEF ExecInv
<1>1. ShapeInv'
  BY DEF ShapeInv, LoopShape
<1>2. RanInv'
  BY DEF RanInv, SuccessMeansRan
<1>3. AskInv'
  BY ExecTypes DEF AskInv, PendingIsAsking
<1>4. PaidInv'
  <2>1. \A l \in Loops : Paid(lp'[l], chan'[l]) => Paid(lp[l], chan[l]) /\ lp'[l].act = lp[l].act
    BY DEF Paid
  <2> QED
    BY <2>1, PaidKept
<1>5. \A l \in Loops, a \in Acts : /\ Has(lp'[l], a) <=> Has(lp[l], a)
                                   /\ HasYetToRun(lp'[l], a) <=> HasYetToRun(lp[l], a)
  <2> TAKE l \in Loops, a \in Acts
  <2>1. lp'[l].pc = lp[l].pc /\ lp'[l].act = lp[l].act /\ lp'[l].batch = lp[l].batch
    OBVIOUS
  <2>2. Has(lp'[l], a) <=> Has(lp[l], a)
    BY <2>1 DEF Has
  <2>3. HasYetToRun(lp'[l], a) <=> HasYetToRun(lp[l], a)
    BY <2>1 DEF HasYetToRun
  <2> QED
    BY <2>2, <2>3
<1> QED
  BY <1>1, <1>2, <1>3, <1>4, <1>5

\* An action that is not excused stays in one loop's hands while commands come and go.
LEMMA OnceAcross ==
    ASSUME OnceInv, UNCHANGED <<hub, ran>>, excused \subseteq excused',
           \A l \in Loops, a \in Acts : /\ Has(lp'[l], a) <=> Has(lp[l], a)
                                        /\ HasYetToRun(lp'[l], a) <=> HasYetToRun(lp[l], a),
           \A l \in Loops, a \in Acts \ excused' :
              Has(lp[l], a) /\ lp'[l].cancelled => \E c \in Cmds : cmd'[c].pc = "await" /\ cmd'[c].old = l
    PROVE  OnceInv'
<1> SUFFICES ASSUME NEW a \in Acts \ excused'
             PROVE  /\ ran[a] <= 1
                    /\ \A k \in Loops : Has(lp'[k], a) => hub[a] = "open"
                    /\ \A j, k \in Loops : Has(lp'[j], a) /\ Has(lp'[k], a) => j = k
                    /\ \A k \in Loops : HasYetToRun(lp'[k], a) => ran[a] = 0
                    /\ hub[a] = "open" /\ (\A k \in Loops : ~Has(lp'[k], a)) => ran[a] = 0
                    /\ \A k \in Loops : Has(lp'[k], a) /\ lp'[k].cancelled => \E c \in Cmds : cmd'[c].pc = "await" /\ cmd'[c].old = k
  BY DEF OnceInv
<1>1. a \in Acts \ excused
  OBVIOUS
<1>2. /\ ran[a] <= 1
      /\ \A k \in Loops : Has(lp[k], a) => hub[a] = "open"
      /\ \A j, k \in Loops : Has(lp[j], a) /\ Has(lp[k], a) => j = k
      /\ \A k \in Loops : HasYetToRun(lp[k], a) => ran[a] = 0
      /\ hub[a] = "open" /\ (\A k \in Loops : ~Has(lp[k], a)) => ran[a] = 0
  BY <1>1 DEF OnceInv
<1>3. \A k \in Loops : (Has(lp'[k], a) <=> Has(lp[k], a)) /\ (HasYetToRun(lp'[k], a) <=> HasYetToRun(lp[k], a))
  OBVIOUS
<1> QED
  BY <1>2, <1>3

LEMMA CommandKeeps ==
    ASSUME ExecInv, NEW c \in Cmds, NEW op \in {"login", "logout"}, Command(c, op) \/ ClearSession(c)
    PROVE  ExecInv'
<1> USE DEF ExecInv
<1>0. cmd[c] \in CmdRecords /\ cmd[c].pc \in {"done", "clear"}
  BY DEF ExecTypeOK, CmdRecords, Command, ClearSession
<1>u. UNCHANGED <<procs, lp, chan, pend, emitted, guard, pollMx, sessMx, hub, polls, granted, ran, excused>>
      /\ cmds' \in 0..MaxCmds
  BY ExecAssumption DEF Command, ClearSession, ExecTypeOK
<1>1. PICK y \in CmdRecords : cmd' = [cmd EXCEPT ![c] = y] /\ y.pc \in {"lock", "done"}
  <2>1. CASE Command(c, op)
    <3> DEFINE y == [op |-> op, pc |-> "lock", old |-> 0]
    <3>1. y \in CmdRecords /\ y.pc = "lock"
      BY LoopsAre DEF CmdRecords
    <3> QED
      BY <2>1, <3>1 DEF Command
  <2>2. CASE ClearSession(c)
    <3> DEFINE y == [cmd[c] EXCEPT !.pc = "done"]
    <3>1. y \in CmdRecords /\ y.pc = "done"
      BY <1>0 DEF CmdRecords
    <3> QED
      BY <2>2, <3>1 DEF ClearSession
  <2> QED
    BY <2>1, <2>2
<1>2. cmd' \in [Cmds -> CmdRecords] /\ cmd'[c] = y /\ \A d \in Cmds : d # c => cmd'[d] = cmd[d]
  BY <1>1, CmdTypes
<1>3. ExecTypeOK'
  BY <1>2, <1>u DEF ExecTypeOK, CmdRecords
<1>4. HandleInv'
  BY <1>1, <1>2, <1>u DEF HandleInv, LiveLoopIsHeld, Alive
<1>5. ShapeInv' /\ RanInv' /\ AskInv' /\ PaidInv'
  BY <1>u, CommandFrame
<1>6. OnceInv'
  <2>1. ASSUME NEW l \in Loops, NEW a \in Acts \ excused, Has(lp[l], a), lp[l].cancelled
        PROVE  \E d \in Cmds : cmd'[d].pc = "await" /\ cmd'[d].old = l
    <3>1. PICK d \in Cmds : cmd[d].pc = "await" /\ cmd[d].old = l
      BY <2>1 DEF OnceInv
    <3> QED
      BY <1>0, <1>2, <3>1
  <2> QED
    BY <1>u, <2>1, OnceAcross
<1> QED
  BY <1>3, <1>4, <1>5, <1>6

LEMMA TakeHandleKeeps == ASSUME ExecInv, NEW c \in Cmds, TakeHandle(c) PROVE ExecInv'
<1> USE DEF ExecInv
<1>0. cmd[c] \in CmdRecords /\ cmd[c].pc = "lock" /\ pollMx = 0 /\ guard \in 0..MaxLoops /\ (guard # 0 => guard \in Loops)
  BY ExecTypes DEF ExecTypeOK, CmdRecords, TakeHandle
<1>u. /\ UNCHANGED <<procs, chan, pend, emitted, sessMx, hub, polls, cmds, granted, ran, excused>>
      /\ pollMx' = c /\ guard' = 0 /\ cmd' = [cmd EXCEPT ![c].pc = "await", ![c].old = guard]
      /\ lp' = IF guard = 0 THEN lp ELSE [lp EXCEPT ![guard].cancelled = TRUE]
  BY DEF TakeHandle
<1> DEFINE y == [cmd[c] EXCEPT !.pc = "await", !.old = guard]
<1>1. y \in CmdRecords /\ y.pc = "await" /\ y.old = guard
  BY <1>0 DEF CmdRecords
<1>g. cmd' = [cmd EXCEPT ![c] = y]
  BY <1>u DEF ExecTypeOK
<1> HIDE DEF y
<1>2. cmd' \in [Cmds -> CmdRecords] /\ cmd'[c] = y /\ \A d \in Cmds : d # c => cmd'[d] = cmd[d]
  BY <1>1, <1>g, CmdTypes
<1>3. /\ lp' \in [Loops -> LoopRecords]
      /\ \A l \in Loops : /\ lp'[l].pc = lp[l].pc /\ lp'[l].act = lp[l].act
                          /\ lp'[l].batch = lp[l].batch /\ lp'[l].verdict = lp[l].verdict
                          /\ lp'[l].cancelled = (lp[l].cancelled \/ l = guard)
  <2>1. CASE guard = 0
    BY <1>u, <2>1, ExecTypes, LoopsAre, LoopFields
  <2>2. CASE guard # 0
    <3> DEFINE q == [lp[guard] EXCEPT !.cancelled = TRUE]
    <3>1. guard \in Loops /\ lp[guard] \in LoopRecords
      BY <1>0, <2>2, ExecTypes
    <3>2. q \in LoopRecords /\ q.cancelled = TRUE /\ q.pc = lp[guard].pc /\ q.act = lp[guard].act /\ q.batch = lp[guard].batch /\ q.verdict = lp[guard].verdict
      BY <3>1 DEF LoopRecords
    <3>3. Goes(guard, q)
      BY <1>u, <2>2 DEF Goes
    <3> HIDE DEF q
    <3>4. lp' \in [Loops -> LoopRecords] /\ \A k \in Loops : lp'[k] = IF k = guard THEN q ELSE lp[k]
      BY <3>1, <3>2, <3>3, GoesTo
    <3> QED
      BY <3>1, <3>2, <3>4, ExecTypes, LoopFields
  <2> QED
    BY <2>1, <2>2
<1>4. ExecTypeOK'
  <2>1. guard' \in 0..MaxLoops /\ pollMx' \in Cmds \cup {0}
    BY <1>u, LoopsAre
  <2>2. lp' \in [Loops -> LoopRecords]
    BY <1>3
  <2> QED
    BY <1>2, <1>u, <2>1, <2>2 DEF ExecTypeOK, CmdRecords, LoopRecords
<1>5. HandleInv'
  <2>1. \A d \in Cmds : d # c => cmd[d].pc \notin {"await", "register"}
    BY <1>0, ExecAssumption DEF HandleInv
  <2>2. LiveLoopIsHeld'
    BY <1>3 DEF HandleInv, LiveLoopIsHeld, Alive
  <2> QED
    BY <1>2, <1>u, <2>1, <2>2 DEF HandleInv
<1>6. /\ ShapeInv' /\ RanInv' /\ AskInv' /\ PaidInv'
      /\ \A l \in Loops, a \in Acts : /\ Has(lp'[l], a) <=> Has(lp[l], a)
                                      /\ HasYetToRun(lp'[l], a) <=> HasYetToRun(lp[l], a)
  BY <1>3, <1>u, CommandFrame
<1>7. OnceInv'
  <2>1. ASSUME NEW l \in Loops, NEW a \in Acts \ excused, Has(lp[l], a), lp'[l].cancelled
        PROVE  \E d \in Cmds : cmd'[d].pc = "await" /\ cmd'[d].old = l
    <3>1. CASE l = guard
      BY <1>1, <1>2, <3>1
    <3>2. CASE l # guard
      <4>1. lp[l].cancelled
        BY <1>3, <2>1, <3>2
      <4>2. PICK d \in Cmds : cmd[d].pc = "await" /\ cmd[d].old = l
        BY <2>1, <4>1 DEF OnceInv
      <4> QED
        BY <1>0, <1>2, <4>2
    <3> QED
      BY <3>1, <3>2
  <2> QED
    BY <1>6, <1>u, <2>1, OnceAcross
<1> QED
  BY <1>4, <1>5, <1>6, <1>7

\* What the loop left to itself had in hand is excused, so no other claim about it is lost.
LEMMA AwaitedKeeps == ASSUME ExecInv, NEW c \in Cmds, Awaited(c) PROVE ExecInv'
<1> USE DEF ExecInv
<1> DEFINE old == cmd[c].old
           p == IF cmd[c].op = "login" THEN "register" ELSE "clear"
           y == [cmd[c] EXCEPT !.pc = p, !.old = 0]
<1>0. cmd[c] \in CmdRecords /\ cmd[c].pc = "await" /\ pollMx = c /\ c # 0 /\ old \in 0..MaxLoops
  BY ExecAssumption DEF ExecTypeOK, CmdRecords, Awaited, HandleInv
<1>u. /\ UNCHANGED <<procs, lp, chan, pend, emitted, guard, sessMx, hub, polls, cmds, granted, ran>>
      /\ cmd' = [cmd EXCEPT ![c].pc = p, ![c].old = 0]
      /\ pollMx' = IF p = "register" THEN pollMx ELSE 0
  BY DEF Awaited
<1>e. excused' = IF old # 0 /\ Alive(old)
                 THEN excused \cup lp[old].batch \cup (IF At(old, "idle") \/ At(old, "next") THEN {} ELSE {lp[old].act})
                 ELSE excused
  BY DEF Awaited
<1>p. p \in {"register", "clear"}
  OBVIOUS
<1> HIDE DEF p
<1>z. 0 \in 0..MaxLoops
  BY LoopsAre
<1>1. y \in CmdRecords /\ y.pc = p
  BY <1>0, <1>p, <1>z DEF CmdRecords
<1>g. cmd' = [cmd EXCEPT ![c] = y]
  BY <1>u DEF ExecTypeOK
<1> HIDE DEF y, p, old
<1>2. cmd' \in [Cmds -> CmdRecords] /\ cmd'[c] = y /\ \A d \in Cmds : d # c => cmd'[d] = cmd[d]
  BY <1>1, <1>g, CmdTypes
<1>3. excused \subseteq excused' /\ excused' \subseteq Acts
  <2>1. old # 0 => lp[old].batch \subseteq Acts /\ lp[old].act \in Acts
    BY <1>0, LoopsAre, ExecTypes, LoopFields
  <2> QED
    BY <1>e, <2>1 DEF ExecTypeOK
<1>4. ExecTypeOK'
  BY <1>2, <1>3, <1>u DEF ExecTypeOK, CmdRecords
<1>5. HandleInv'
  <2>1. \A d \in Cmds : d # c => cmd[d].pc \notin {"await", "register"}
    BY <1>0 DEF HandleInv
  <2>2. guard = 0
    BY <1>0 DEF HandleInv
  <2> QED
    BY <1>0, <1>1, <1>2, <1>p, <1>u, <2>1, <2>2 DEF HandleInv, LiveLoopIsHeld, Alive
<1>6. ShapeInv' /\ RanInv' /\ AskInv' /\ PaidInv'
  BY <1>u, CommandFrame
<1>7. OnceInv'
  <2>1. ASSUME NEW l \in Loops, NEW a \in Acts \ excused', Has(lp[l], a), lp[l].cancelled
        PROVE  FALSE
    <3>1. PICK d \in Cmds : cmd[d].pc = "await" /\ cmd[d].old = l
      BY <1>3, <2>1 DEF OnceInv
    <3>2. d = c /\ old = l
      BY <1>0, <3>1 DEF HandleInv, old
    <3>3. lp[l].pc \notin {"unborn", "exited"}
      BY <2>1 DEF Has, Working, ShapeInv, LoopShape
    <3>4. old # 0 /\ Alive(old)
      BY <3>2, <3>3, LoopsAre DEF Alive
    <3>5. excused' = excused \cup lp[l].batch \cup (IF At(l, "idle") \/ At(l, "next") THEN {} ELSE {lp[l].act})
      BY <1>e, <3>2, <3>4
    <3> QED
      BY <2>1, <3>5 DEF Has, Working, At
  <2> QED
    BY <1>3, <1>u, <2>1, OnceAcross
<1> QED
  BY <1>4, <1>5, <1>6, <1>7

\* The handle is put back by the command that holds its lock: no other loop is live.
LEMMA RegisterKeeps == ASSUME ExecInv, NEW c \in Cmds, Register(c) PROVE ExecInv'
<1> USE DEF ExecInv
<1> DEFINE y == [cmd[c] EXCEPT !.pc = "done"]
<1>0. cmd[c] \in CmdRecords /\ cmd[c].pc = "register" /\ pollMx = c /\ c # 0 /\ guard = 0
  BY ExecAssumption DEF ExecTypeOK, CmdRecords, Register, HandleInv
<1>u. /\ UNCHANGED <<procs, chan, pend, emitted, sessMx, hub, polls, cmds, granted, ran, excused>>
      /\ cmd' = [cmd EXCEPT ![c].pc = "done"] /\ pollMx' = 0
  BY DEF Register
<1>1. y \in CmdRecords /\ y.pc = "done"
  BY <1>0 DEF CmdRecords
<1>g. cmd' = [cmd EXCEPT ![c] = y]
  BY <1>u
<1> HIDE DEF y
<1>2. /\ cmd' \in [Cmds -> CmdRecords] /\ cmd'[c] = y
      /\ \A d \in Cmds : d # c => cmd'[d] = cmd[d]
      /\ \A d \in Cmds : cmd[d].pc = "await" => cmd'[d] = cmd[d]
  BY <1>0, <1>1, <1>g, CmdTypes
<1>3. \A d \in Cmds : cmd'[d].pc \notin {"await", "register"}
  BY <1>0, <1>1, <1>2 DEF HandleInv
<1>4. CASE UNCHANGED <<lp, guard>>
  <2>1. ExecTypeOK'
    BY <1>2, <1>4, <1>u DEF ExecTypeOK, CmdRecords
  <2>2. HandleInv'
    BY <1>3, <1>4, <1>u DEF HandleInv, LiveLoopIsHeld, Alive
  <2>3. ShapeInv' /\ RanInv' /\ AskInv' /\ PaidInv'
    BY <1>4, <1>u, CommandFrame
  <2>4. OnceInv'
    <3>1. ASSUME NEW l \in Loops, NEW a \in Acts \ excused, Has(lp[l], a), lp[l].cancelled
          PROVE  \E d \in Cmds : cmd'[d].pc = "await" /\ cmd'[d].old = l
      BY <1>2, <3>1 DEF OnceInv
    <3> QED
      BY <1>4, <1>u, <3>1, OnceAcross
  <2> QED
    BY <2>1, <2>2, <2>3, <2>4
<1>5. ASSUME NEW l \in Loops, At(l, "unborn"), lp' = [lp EXCEPT ![l].pc = "idle"], guard' = l PROVE ExecInv'
  <2> DEFINE q == [lp[l] EXCEPT !.pc = "idle"]
  <2>0. lp[l] \in LoopRecords /\ LoopShape(lp[l]) /\ lp[l].pc = "unborn" /\ lp[l].batch = {} /\ lp[l].verdict # "ok"
    BY <1>5, ExecTypes DEF ShapeInv, LoopShape, At
  <2>1. q \in LoopRecords /\ q.pc = "idle" /\ q.cancelled = lp[l].cancelled /\ q.batch = lp[l].batch /\ q.act = lp[l].act /\ q.verdict = lp[l].verdict
    BY <2>0 DEF LoopRecords
  <2>g. Goes(l, q)
    BY <1>5 DEF Goes
  <2> HIDE DEF q
  <2>k. lp' \in [Loops -> LoopRecords] /\ \A k \in Loops : lp'[k] = IF k = l THEN q ELSE lp[k]
    BY <2>1, <2>g, GoesTo
  <2>2. LoopShape(q)
    BY <2>0, <2>1 DEF LoopShape, Working
  <2>3. ExecTypeOK'
    <3>1. guard' \in 0..MaxLoops
      BY <1>5, LoopsAre
    <3> QED
      BY <1>2, <1>u, <2>k, <3>1 DEF ExecTypeOK, CmdRecords, LoopRecords
  <2>4. ShapeInv' /\ RanInv'
    BY <1>u, <2>0, <2>1, <2>2, <2>g, ShapeKept, RanKept
  <2>5. HandleInv'
    <3>1. \A k \in Loops : k # l /\ lp[k].pc \notin {"unborn", "exited"} => lp[k].cancelled
      BY <1>0, LoopsAre DEF HandleInv, LiveLoopIsHeld, Alive
    <3>2. LiveLoopIsHeld'
      BY <1>5, <2>k, <3>1 DEF LiveLoopIsHeld, Alive
    <3> QED
      BY <1>3, <1>u, <3>2 DEF HandleInv
  <2>6. AskInv'
    BY <1>u, <2>0, <2>1, <2>g, AskKept DEF Requesting
  <2>7. PaidInv'
    <3>1. \A k \in Loops : Paid(lp'[k], chan'[k]) => Paid(lp[k], chan[k]) /\ lp'[k].act = lp[k].act
      BY <1>u, <2>1, <2>k DEF Paid
    <3> QED
      BY <1>u, <3>1, PaidKept
  <2>8. OnceInv'
    <3>1. \A a \in Acts : ~HasYetToRun(q, a) /\ ~Has(q, a) /\ ~Has(lp[l], a)
      BY <2>0, <2>1 DEF Has, HasYetToRun, Working
    <3> QED
      BY <1>2, <1>u, <2>1, <2>g, <3>1, OnceKept
  <2> QED
    BY <2>3, <2>4, <2>5, <2>6, <2>7, <2>8
<1> QED
  BY <1>4, <1>5 DEF Register

LEMMA ExecStep == ExecInv /\ [ExecNext]_execVars => ExecInv'
<1> SUFFICES ASSUME ExecInv, [ExecNext]_execVars PROVE ExecInv'
  OBVIOUS
<1>1. CASE UNCHANGED execVars
  BY <1>1 DEF execVars, ExecInv, ExecTypeOK, ShapeInv, RanInv, SuccessMeansRan, AskInv, PendingIsAsking, PaidInv, PaidFor,
              HandleInv, LiveLoopIsHeld, Alive, OnceInv
<1>2. CASE ExecNext
  BY <1>2, LoopKeeps, RespondKeeps, CommandKeeps, TakeHandleKeeps, AwaitedKeeps, RegisterKeeps DEF ExecNext
<1> QED
  BY <1>1, <1>2

-----------------------------------------------------------------------------
(* The parts together *)

\* A step of the machine is a step of each part, or leaves it alone.
LEMMA LocalSteps ==
    [MCNext]_MCVars => /\ [ExecNext]_execVars /\ [SessNext]_sessVars /\ [SecretNext]_secretVars /\ [UpdNext]_updVars
                       /\ [ServiceNext]_serviceVars /\ [TrustNext]_trustVars
BY Zenon DEF MCNext, MCVars, InPart

\* A script runs once per approval, a request that waits can be answered, the live loop
\* is the one the shell holds, an action runs twice only if its response was lost or its
\* loop was left to itself, and success is said only of what ran: however logins,
\* logouts, answers and abandoned loops interleave (ActionExecutor).
THEOREM ActionsApproved == MCSpec => []ActionsAreApproved
<1>1. MCInit => ExecInv
  BY ExecBegins DEF MCInit
<1>2. ExecInv /\ [MCNext]_MCVars => ExecInv'
  BY LocalSteps, ExecStep
<1>3. ExecInv => ActionsAreApproved
  BY ExecSafe DEF ActionsAreApproved
<1> QED
  BY <1>1, <1>2, <1>3, PTL DEF MCSpec

\* The keychain holds one session, penguind was primed with a stored one, secrets are
\* locked only by the loss of a key that was never settled, and what the installer
\* says is installed is enabled, through every crash, failure and interleaving of
\* DesktopSession, SecretFiles and ServiceInstall.
THEOREM StateKept == MCSpec => []StateIsKept
<1> DEFINE Inv == SessInv /\ SecretInv /\ ServiceInv
<1>1. MCInit => Inv
  BY SessBegins, SecretBegins, ServiceStart DEF MCInit
<1>2. Inv /\ [MCNext]_MCVars => Inv'
  BY LocalSteps, SessStep, SecretStep, ServiceStep
<1>3. Inv => StateIsKept
  BY SessSafe, SecretSafe DEF StateIsKept, ServiceInv
<1> HIDE DEF Inv
<1> QED
  BY <1>1, <1>2, <1>3, PTL DEF MCSpec

\* The files of SecretFiles implement the key-value store of KeyValueStore: a call has
\* its effect at one step between its beginning and its answer, whatever the other
\* callers, the other processes and the crashes do.
THEOREM FilesImplementStore == MCSpec => FilesAreAStore
<1>1. MCInit => SecretInv /\ FileStore!KvInit
  BY SecretBegins, StoreBegins DEF MCInit
<1>2. SecretInv /\ [MCNext]_MCVars => SecretInv' /\ [FileStore!KvNext]_(FileStore!kvVars)
  BY LocalSteps, SecretStep, StoreSteps
<1> QED
  BY <1>1, <1>2, PTL DEF MCSpec, FilesAreAStore, FileStore!KvSpec

\* What is on disk was signed as it is, an offer is newer than what runs, a release is
\* said to be missing only if it is, an update goes back only if a release was
\* withdrawn or an apply was overtaken; a plugin that runs was signed, and a refusal
\* names what was wrong (Updater, PluginTrust).
THEOREM SignedRuns == MCSpec => OnlySignedRuns
<1> DEFINE Inv == UpdInv /\ TrustInv
           Safe == UpdTypeOK /\ DiskIsSigned /\ OfferIsNewer /\ NotFoundIsTrue /\ TrustTypeOK /\ RunsWhatIsSigned
<1>1. MCInit => Inv
  BY UpdBegins, TrustBegins DEF MCInit
<1>2. Inv /\ [MCNext]_MCVars => Inv' /\ [DowngradesOnlyIfOvertaken]_updVars /\ [RefusesForAReason]_trustVars
  BY LocalSteps, UpdStep, TrustStep
<1>3. Inv => Safe
  BY UpdSafe, TrustSafe
<1>4. NoSilentDowngrade <=> [][DowngradesOnlyIfOvertaken]_updVars
  BY DEF NoSilentDowngrade, DowngradesOnlyIfOvertaken
<1>5. RefusedForAReason <=> [][RefusesForAReason]_trustVars
  BY DEF RefusedForAReason, RefusesForAReason
<1> HIDE DEF Inv
<1> QED
  BY <1>1, <1>2, <1>3, <1>4, <1>5, PTL DEF MCSpec, OnlySignedRuns
=============================================================================
