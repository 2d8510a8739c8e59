----------------------------- MODULE HostProofs -----------------------------
(***************************************************************************)
(* Theorems about the daemon as a host, for every number of processes,     *)
(* clients, launches, packets, questions and events: its own process and   *)
(* licence, a plugin's process, the connection with it and the services it *)
(* calls back for, and the userspace tunnel.                               *)
(***************************************************************************)
EXTENDS MCHost, FiniteSetTheorems, SequenceTheorems, TLAPS

-----------------------------------------------------------------------------
(***************************************************************************)
(* A plugin's process.                                                     *)
(***************************************************************************)

\* Where each call can be and what it then owns: nothing before the spawn and
\* while it stops the table's module on the wire, a process afterwards, and one
\* that has been killed when it waits for it.
CallShape ==
    /\ pc = "spawn" => cur = None
    /\ pc = "reap" => proc[cur] = "exited"
    /\ pc = "wireStop" =>
          \/ goal = "cleanup" /\ cur # None
          \/ goal \in {"unload", "restart"} /\ cur = None /\ entry # None

\* The table's module has given up its process in every call but the ones
\* that have yet to take it.
TakenShape ==
    owns => pc = "idle" \/ (pc = "wireStop" /\ goal \in {"unload", "restart"})

\* Owned processes have been spawned.
Spawned ==
    /\ cur # None => proc[cur] # "free"
    /\ entry # None => proc[entry] # "free"

\* The inductive invariant.
HostInv ==
    /\ TypeOK
    /\ OneOwner
    /\ CallShape
    /\ TakenShape
    /\ Spawned
    /\ LostOnlyByLateFailure

\* Before anything is launched there is nothing to own.
LEMMA HostInit == Init => HostInv
BY PluginAssumption
   DEF Init, HostInv, TypeOK, OneOwner, CallShape, TakenShape, Spawned,
       LostOnlyByLateFailure, Live, Owned, Launching, Stopping

\* What a call's end does, whichever it is.
LEMMA ReturnEnds ==
    ASSUME Return
    PROVE  /\ pc' \in {"idle", "spawn"}
           /\ entry' = IF goal = "unload" THEN None ELSE entry
           /\ goal' = IF goal = "restart" THEN "reload" ELSE goal
           /\ poll' = poll \/ poll' \in {"failed", "off"}
BY DEF Return

\* Every step of the call in progress keeps the invariant.
LEMMA AdvanceKeeps == HostInv /\ Advance => HostInv'
<1> SUFFICES ASSUME HostInv, Advance PROVE HostInv'
  OBVIOUS
<1> USE PluginAssumption
    DEF HostInv, TypeOK, OneOwner, CallShape, TakenShape, Spawned,
        LostOnlyByLateFailure, Live, Owned, Launching, Stopping
<1>1. CASE SpawnFails
  BY <1>1, ReturnEnds DEF SpawnFails
<1>2. CASE HandshakeRead
  BY <1>2 DEF HandshakeRead
<1>3. CASE HandshakeFails
  BY <1>3 DEF HandshakeFails
<1>4. CASE Connected
  BY <1>4 DEF Connected
<1>5. CASE Healthy
  BY <1>5 DEF Healthy
<1>6. CASE LaunchFails
  BY <1>6, ReturnEnds DEF LaunchFails, Forget
<1>7. CASE Dispensed
  BY <1>7 DEF Dispensed
<1>8. CASE DispenseFails
  BY <1>8 DEF DispenseFails
<1>9. CASE Started
  BY <1>9 DEF Started
<1>10. CASE StartFails
  BY <1>10 DEF StartFails
<1>11. CASE WireStopped
  <2>1. CASE goal = "cleanup"
    <3>1. /\ pc = "wireStop" /\ pc' = "shutdown"
          /\ UNCHANGED <<proc, goal, client, cur, entry, owns, poll, lost>>
      BY <1>11, <2>1 DEF WireStopped
    <3>2. ~owns /\ cur # None
      BY <2>1, <3>1
    <3> QED
      BY <2>1, <3>1, <3>2
  <2>2. CASE goal # "cleanup" /\ owns
    BY <1>11, <2>2 DEF WireStopped
  <2>3. CASE goal # "cleanup" /\ ~owns
    <3>1. Return /\ UNCHANGED <<proc, client, lost, cur, owns>>
      BY <1>11, <2>3 DEF WireStopped
    <3>2. goal \in {"unload", "restart"} /\ cur = None
      BY <1>11, <2>3 DEF WireStopped
    <3> QED
      BY <2>3, <3>1, <3>2, ReturnEnds
  <2> QED
    BY <2>1, <2>2, <2>3
<1>12. CASE ShutdownAnswered
  BY <1>12 DEF ShutdownAnswered
<1>13. CASE ExitedInTime
  BY <1>13, ReturnEnds DEF ExitedInTime, Forget
<1>14. CASE GraceOver
  BY <1>14 DEF GraceOver
<1>15. CASE Reap
  BY <1>15, ReturnEnds DEF Reap
<1>16. ASSUME NEW p \in Pids, Spawn(p) PROVE HostInv'
  BY <1>16 DEF Spawn
<1> QED
  BY <1>1, <1>2, <1>3, <1>4, <1>5, <1>6, <1>7, <1>8, <1>9, <1>10, <1>11,
     <1>12, <1>13, <1>14, <1>15, <1>16 DEF Advance

\* The health poll's own state is in no part of the invariant but the type.
LEMMA PollKeeps ==
    ASSUME HostInv, poll' \in {"off", "sleep", "probing", "failed"},
           UNCHANGED <<proc, pc, goal, client, cur, entry, owns, lost>>
    PROVE  HostInv'
<1>1. TypeOK'
  BY DEF HostInv, TypeOK
<1>2. OneOwner' /\ CallShape' /\ TakenShape' /\ Spawned'
  BY DEF HostInv, OneOwner, CallShape, TakenShape, Spawned
<1>3. LostOnlyByLateFailure'
  BY DEF HostInv, LostOnlyByLateFailure, Live, Owned
<1> QED
  BY <1>1, <1>2, <1>3 DEF HostInv

\* What a plugin does by itself: a live process exits or hangs.
LEMMA PluginKeeps ==
    ASSUME HostInv, NEW p \in Pids, Live(p), NEW v \in {"hung", "exited"},
           proc' = [proc EXCEPT ![p] = v],
           UNCHANGED <<pc, goal, client, cur, entry, owns, poll, lost>>
    PROVE  HostInv'
<1>1. TypeOK'
  <2>1. proc' \in [Pids -> {"free", "running", "hung", "exited"}]
    BY DEF HostInv, TypeOK
  <2> QED
    BY <2>1 DEF HostInv, TypeOK
<1>2. \A q \in Pids : proc'[q] = IF q = p THEN v ELSE proc[q]
  BY DEF HostInv, TypeOK
<1>3. OneOwner' /\ TakenShape'
  BY DEF HostInv, OneOwner, TakenShape
<1>4. CallShape'
  <2>1. pc = "reap" => cur \in Pids /\ cur # p
    BY PluginAssumption
       DEF HostInv, TypeOK, CallShape, Live, Launching, Stopping
  <2> QED
    BY <1>2, <2>1 DEF HostInv, CallShape
<1>5. Spawned'
  BY <1>2 DEF HostInv, TypeOK, Spawned
<1>6. LostOnlyByLateFailure'
  BY <1>2 DEF HostInv, LostOnlyByLateFailure, Live, Owned
<1> QED
  BY <1>1, <1>3, <1>4, <1>5, <1>6 DEF HostInv

\* So does everything else that can happen.
LEMMA HostStep == HostInv /\ [Next]_vars => HostInv'
<1> SUFFICES ASSUME HostInv, [Next]_vars PROVE HostInv'
  OBVIOUS
<1>0. TypeOK
  BY DEF HostInv
<1>1. CASE Advance
  BY <1>1, AdvanceKeeps
<1>2. CASE Probe
  BY <1>2, PollKeeps DEF Probe
<1>3. CASE ProbeReturns
  BY <1>3, PollKeeps DEF ProbeReturns
<1>4. ASSUME NEW p \in Pids, PluginExits(p) PROVE HostInv'
  BY <1>4, PluginKeeps DEF PluginExits
<1>5. ASSUME NEW p \in Pids, PluginHangs(p) PROVE HostInv'
  BY <1>5, PluginKeeps DEF PluginHangs, Live
<1>6. CASE UNCHANGED vars
  BY <1>0, <1>6, PollKeeps DEF vars, TypeOK
<1> USE PluginAssumption
    DEF HostInv, TypeOK, OneOwner, CallShape, TakenShape, Spawned,
        LostOnlyByLateFailure, Live, Owned, Launching, Stopping
<1>7. ASSUME NEW c \in BOOLEAN, Load(c) PROVE HostInv'
  BY <1>7 DEF Load
<1>8. ASSUME NEW c \in BOOLEAN, Unload(c) PROVE HostInv'
  BY <1>8 DEF Unload
<1>9. CASE Restart
  BY <1>9 DEF Restart
<1>10. CASE DropRequest
  BY <1>10 DEF DropRequest, Forget
<1> QED
  BY <1>1, <1>2, <1>3, <1>4, <1>5, <1>6, <1>7, <1>8, <1>9, <1>10 DEF Next

\* The invariant holds throughout.
LEMMA HostAlways == Spec => []HostInv
BY HostInit, HostStep, PTL DEF Spec

\* A live plugin process without an owner is always the work of a late launch
\* failure (the `?` of PluginProcess::launch) or of a dropped request: stop,
\* a failed handshake, a failed dispense and a failed start never leave one.
THEOREM LeaksAreLate == Spec => []LostOnlyByLateFailure
<1>1. HostInv => LostOnlyByLateFailure
  BY DEF HostInv
<1> QED
  BY <1>1, HostAlways, PTL

\* ExternalModule's process has one owner, the module or the call that has
\* taken it, and no call leaves with one.
THEOREM ProcessHasOneOwner == Spec => []OneOwner
<1>1. HostInv => OneOwner
  BY DEF HostInv
<1> QED
  BY <1>1, HostAlways, PTL

\* Both, with the types, among the other parts of the host: a plugin's process has one
\* owner who can kill it, but for the two known ways to lose it.
THEOREM PluginOwned == MCSpec => []PluginIsOwned
<1>1. MCInit => HostInv
  BY HostInit DEF MCInit
<1>2. [MCNext]_MCVars => [Next]_vars
  BY DEF MCNext, MCVars, InPart
<1>3. HostInv /\ [MCNext]_MCVars => HostInv'
  BY <1>2, HostStep
<1>4. HostInv => PluginIsOwned
  BY DEF HostInv, PluginIsOwned
<1> QED
  BY <1>1, <1>3, <1>4, PTL DEF MCSpec

-----------------------------------------------------------------------------
(***************************************************************************)
(* The daemon's process, its socket and its clients.                       *)
(***************************************************************************)
DaemonStates ==
    {"down", "lock", "open", "stale", "bind", "serving", "draining", "refresh", "remove", "exit"}

DaemonTyped ==
    /\ dpDir \in [Processes -> Dirs] /\ dpAt \in [Processes -> DaemonStates]
    /\ dpLock \in [Dirs -> Processes \cup {NoProcess}]
    /\ dpSocket \in Processes \cup {NoProcess} /\ dpModules \subseteq Processes
    /\ dpConn \in [Peers -> Processes \cup {NoProcess}] /\ dpStream \in [Peers -> BOOLEAN]

\* The inductive invariant: the lock, which DaemonTypeOK speaks of, is what keeps
\* two daemons of one state directory from removing each other's socket.
DaemonInv ==
    DaemonTyped /\ DaemonTypeOK /\ ServingIsReachable /\ ModulesOutliveOnlyIfCut

\* What the action property says of one step.
OnlyAuthorizedOpen ==
    \A p \in Peers : dpStream'[p] /\ ~dpStream[p]
       => p \in {"root", "daemon"} \/ (dpGroup = "known" /\ (p \in dpInGroup \/ dpGid[p]))

LEMMA DaemonBegins == DaemonInit => DaemonInv
BY DEF DaemonInit, DaemonInv, DaemonTyped, DaemonTypeOK, ServingIsReachable, ModulesOutliveOnlyIfCut,
       DaemonStates, Dirs

\* A process that is past its lock is the only one of its state directory.
LEMMA AloneInDir ==
    ASSUME DaemonInv, NEW i \in Processes, NEW j \in Processes, dpDir[i] = dpDir[j],
           dpAt[i] \notin {"down", "lock"}, dpAt[j] \notin {"down", "lock"}
    PROVE  i = j
BY DEF DaemonInv, DaemonTypeOK

\* The process's own steps.
LEMMA ProcessKeepsDaemon ==
    ASSUME DaemonInv, NEW i \in Processes,
           ProcessStep(i) \/ Launch(i) \/ Signal(i) \/ ProcessKilled(i)
    PROVE  DaemonInv' /\ OnlyAuthorizedOpen
<1> USE ProcessAssumption
    DEF DaemonInv, DaemonTyped, DaemonTypeOK, ServingIsReachable, ModulesOutliveOnlyIfCut,
        DaemonStates, Dirs, NoProcess, SameDir, GoesTo, clientVars, groupVars, OnlyAuthorizedOpen
<1>1. CASE AcquireLock(i)
  BY <1>1 DEF AcquireLock, LockFree
<1>2. CASE OpenFails(i)
  BY <1>2 DEF OpenFails, Unlocked
<1>3. CASE StartEnabled(i)
  BY <1>3 DEF StartEnabled
<1>4. CASE RemoveStaleSocket(i)
  BY <1>4, AloneInDir DEF RemoveStaleSocket
<1>5. CASE Bind(i)
  BY <1>5, AloneInDir DEF Bind
<1>6. CASE ListenFails(i)
  BY <1>6 DEF ListenFails, Unlocked
<1>7. CASE ShutdownModules(i)
  BY <1>7 DEF ShutdownModules, ModulesAfter
<1>8. CASE RefreshStops(i)
  BY <1>8 DEF RefreshStops, LockAfter
<1>9. CASE RemoveSocket(i)
  BY <1>9, AloneInDir DEF RemoveSocket
<1>10. CASE Exit(i)
  BY <1>10 DEF Exit, Unlocked
<1>11. CASE Launch(i)
  BY <1>11 DEF Launch
<1>12. CASE Signal(i)
  BY <1>12 DEF Signal
<1>13. CASE ProcessKilled(i)
  BY <1>13 DEF ProcessKilled, Gone, Unlocked
<1> QED
  BY <1>1, <1>2, <1>3, <1>4, <1>5, <1>6, <1>7, <1>8, <1>9, <1>10, <1>11, <1>12, <1>13 DEF ProcessStep

\* Its clients, and whoever administers the group.
LEMMA ClientsKeepDaemon ==
    ASSUME DaemonInv,
           \/ \E p \in Peers : (\E gid \in BOOLEAN : Connect(p, gid)) \/ OpenStream(p) \/ Disconnect(p)
           \/ Regroup
    PROVE  DaemonInv' /\ OnlyAuthorizedOpen
<1> USE DEF DaemonInv, DaemonTyped, DaemonTypeOK, ServingIsReachable, ModulesOutliveOnlyIfCut,
            DaemonStates, NoProcess, SameDir, clientVars, groupVars, OnlyAuthorizedOpen
<1>1. ASSUME NEW p \in Peers, NEW gid \in BOOLEAN, Connect(p, gid) PROVE DaemonInv' /\ OnlyAuthorizedOpen
  BY <1>1 DEF Connect
<1>2. ASSUME NEW p \in Peers, OpenStream(p) PROVE DaemonInv' /\ OnlyAuthorizedOpen
  BY <1>2 DEF OpenStream, Authorized
<1>3. ASSUME NEW p \in Peers, Disconnect(p) PROVE DaemonInv' /\ OnlyAuthorizedOpen
  BY <1>3 DEF Disconnect
<1>4. CASE Regroup
  BY <1>4 DEF Regroup
<1> QED
  BY <1>1, <1>2, <1>3, <1>4

LEMMA DaemonStep ==
    ASSUME DaemonInv, [DaemonNext]_daemonVars PROVE DaemonInv' /\ [OnlyAuthorizedOpen]_daemonVars
<1>1. CASE DaemonNext
  BY <1>1, ProcessKeepsDaemon, ClientsKeepDaemon DEF DaemonNext
<1>2. CASE UNCHANGED daemonVars
  BY <1>2 DEF daemonVars, DaemonInv, DaemonTyped, DaemonTypeOK, ServingIsReachable, ModulesOutliveOnlyIfCut, SameDir
<1> QED
  BY <1>1, <1>2

-----------------------------------------------------------------------------
(***************************************************************************)
(* The licence.                                                            *)
(***************************************************************************)

\* The inductive invariant: only a keyed daemon fetches and persists, what it
\* persists is an entitlement, and so is what it has saved.
EntInv ==
    /\ EntTypeOK /\ NextStartAgrees /\ OnceLicensedStays /\ OldTierOnlyAtStart
    /\ enAt \in {"fetching", "persist", "rename"} => enKeyed
    /\ enAt \in {"persist", "rename"} => enMem # NoGrant
    /\ enSaved => enDisk # NoGrant

LEMMA EntBegins == EntInit => EntInv
<1> SUFFICES ASSUME EntInit PROVE EntInv
  OBVIOUS
<1>1. enKeyed \in BOOLEAN /\ enStop \in BOOLEAN
  BY DEF EntInit
<1> QED
  BY <1>1, EntAssumption
     DEF EntInit, EntInv, EntTypeOK, NextStartAgrees, OnceLicensedStays, OldTierOnlyAtStart, FeatureEnabled, Tier,
         NoGrant

LEMMA EntStep == ASSUME EntInv, [EntNext]_entVars PROVE EntInv'
<1> USE EntAssumption
    DEF EntInv, EntTypeOK, NextStartAgrees, OnceLicensedStays, OldTierOnlyAtStart, FeatureEnabled, Tier, NoGrant
<1>1. CASE Fetch \/ ClearUnkeyed
  BY <1>1 DEF Fetch, ClearUnkeyed, MayRefresh, Unkeyed
<1>2. CASE FetchFails \/ UpdateMemory
  BY <1>2 DEF FetchFails, UpdateMemory, AfterFailure
<1>3. CASE WriteCacheTemp \/ RenameCache \/ PersistFails
  BY <1>3 DEF WriteCacheTemp, RenameCache, PersistFails, DiskWhileWriting, Renamed
<1>4. CASE RefreshLoopEnds \/ StopRefresh \/ GrantChanges
  <2>1. enKeyed' \in BOOLEAN /\ enStop' \in BOOLEAN
    BY <1>4 DEF RefreshLoopEnds, StopRefresh, StopSeen, GrantChanges
  <2> QED
    BY <1>4, <2>1 DEF RefreshLoopEnds, StopRefresh, StopSeen, GrantChanges
<1>5. CASE EntCrash
  BY <1>5 DEF EntCrash
<1>6. ASSUME NEW k \in BOOLEAN, EntBoot(k) PROVE EntInv'
  <2>1. enKeyed' \in BOOLEAN /\ enStop' \in BOOLEAN
    BY <1>6 DEF EntBoot
  <2>2. enKeyed' = k /\ enMem' = enDisk /\ enAt' = "spawned" /\ UNCHANGED <<enServer, enDisk, enFailed, enSaved>>
    BY <1>6 DEF EntBoot, Cached, Torn
  <2> QED
    BY <2>1, <2>2
<1>7. CASE UNCHANGED entVars
  BY <1>7 DEF entVars
<1> QED
  BY <1>1, <1>2, <1>3, <1>4, <1>5, <1>6, <1>7 DEF EntNext, RefreshStep

-----------------------------------------------------------------------------
LEMMA HostStepOfDaemon == [MCNext]_MCVars => [DaemonNext]_daemonVars /\ [EntNext]_entVars
BY DEF MCNext, MCVars, InPart

\* The daemon and its licence are sound for any number of processes, clients, kills and
\* answers of the server: the lock keeps a serving daemon reachable, modules outlive only
\* a process that was cut off, a stream is opened only by whom is_authorized lets in, and
\* memory and disk agree on the licence, which is not lost to a failure.
THEOREM DaemonSound == MCSpec => DaemonIsSound
<1>1. MCInit => DaemonInv /\ EntInv
  BY DaemonBegins, EntBegins DEF MCInit
<1>2. DaemonInv /\ EntInv /\ [MCNext]_MCVars => DaemonInv' /\ EntInv' /\ [OnlyAuthorizedOpen]_daemonVars
  BY DaemonStep, EntStep, HostStepOfDaemon
<1>3. DaemonInv /\ EntInv => /\ DaemonTypeOK /\ ServingIsReachable /\ ModulesOutliveOnlyIfCut
                             /\ EntTypeOK /\ NextStartAgrees /\ OnceLicensedStays /\ OldTierOnlyAtStart
  BY DEF DaemonInv, EntInv
<1>4. StreamIsAuthorized <=> [][OnlyAuthorizedOpen]_daemonVars
  BY DEF StreamIsAuthorized, OnlyAuthorizedOpen
<1>5. MCSpec => []DaemonInv /\ []EntInv /\ [][OnlyAuthorizedOpen]_daemonVars
  BY <1>1, <1>2, PTL DEF MCSpec
<1> QED
  BY <1>3, <1>4, <1>5, PTL DEF DaemonIsSound

-----------------------------------------------------------------------------
(***************************************************************************)
(* The connection with a plugin.                                           *)
(***************************************************************************)

Excuses == {"not announced", "overtaken", "slow", "call failed"}

LinkRecords ==
    [host : {"idle", "reading", "connecting", "broker", "accept", "health", "up", "grace", "down", "failed"},
     plug : {"absent", "started", "printed", "serving", "draining", "exited"},
     line : Lines \cup {NoLine},
     init : {"none", "dial", "waiting", "connecting", "prefetch", "init", "ready"},
     stream : {"none", "opening", "open"}, out : BOOLEAN, slot : {"empty", "full"}, told : BOOLEAN,
     leg : {Nobody, Ours, Others}, serv : {"none", "remote", "noop"},
     left : SUBSET Fetches, got : SUBSET Fetches,
     why : SUBSET Excuses,
     call : {"none", "waiting", "done", "failed"}, inits : {0, 1}]

LinkFields ==
    {"host", "plug", "line", "init", "stream", "out", "slot", "told", "leg", "serv", "left", "got", "why", "call", "inits"}

\* The fields that the invariant ties to each other.
InitFields == {"init", "inits", "serv", "told", "slot", "leg", "why", "got", "left"}

\* The init sequence runs once, and hands its module nothing before its end.
InitOnce ==
    /\ lk.host = "idle" => lk.plug = "absent"
    /\ lk.plug \in {"absent", "started", "printed"} => lk.init = "none"
    /\ lk.inits = IF lk.init = "ready" THEN 1 ELSE 0
    /\ (lk.init \in {"init", "ready"}) <=> (lk.serv # "none")
    /\ lk.call = "done" => lk.init = "ready"

\* An announcement is kept until the dial takes it, the leg that is prefetched over is
\* this launch's, and a value that is neither fetched nor still to be fetched has an excuse.
NothingLost ==
    /\ lk.init \in {"none", "dial", "waiting"} /\ lk.told => lk.slot = "full"
    /\ lk.init = "prefetch" => lk.leg = Ours
    /\ lk.init = "prefetch" /\ lk.why = {} => lk.got \cup lk.left = Fetches

\* The inductive invariant.
LinkInv ==
    /\ lk \in LinkRecords /\ lkSocket \in {Nobody, Ours, Others} /\ lkRoutes \in BOOLEAN
    /\ InitOnce /\ NothingLost /\ LegIsOwn /\ DegradesOnlyIfFailed

LEMMA LinkBegins == LinkInit => LinkInv
<1> SUFFICES ASSUME LinkInit PROVE LinkInv
  OBVIOUS
<1>1. lk \in LinkRecords
  BY DEF LinkInit, Unlaunched, LinkRecords, NoLine, Nobody
<1>2. InitOnce /\ NothingLost /\ LegIsOwn /\ DegradesOnlyIfFailed
  BY DEF LinkInit, Unlaunched, InitOnce, NothingLost, LegIsOwn, DegradesOnlyIfFailed
<1> QED
  BY <1>1, <1>2 DEF LinkInit, LinkInv

LEMMA LinkTypes ==
    ASSUME NEW r \in LinkRecords
    PROVE  /\ r.init \in {"none", "dial", "waiting", "connecting", "prefetch", "init", "ready"}
           /\ r.slot \in {"empty", "full"} /\ r.told \in BOOLEAN /\ r.leg \in {Nobody, Ours, Others}
           /\ r.serv \in {"none", "remote", "noop"} /\ r.left \subseteq Fetches /\ r.got \subseteq Fetches
           /\ r.why \subseteq Excuses /\ r.inits \in {0, 1}
BY DEF LinkRecords

\* A module is handed the no-op host, with or without an excuse.
LEMMA DegradedTyped ==
    ASSUME lk \in LinkRecords, NEW e \in SUBSET Excuses, Degrades(e)
    PROVE  lk' \in LinkRecords
<1> DEFINE w == lk.why \cup e
<1>1. w \in SUBSET Excuses
  BY LinkTypes
<1>2. lk' = [lk EXCEPT !.init = "init", !.serv = "noop", !.why = w]
  BY DEF Degrades, Noop
<1> HIDE DEF w
<1> QED
  BY <1>1, <1>2, ZenonT(60) DEF LinkRecords

LEMMA LinkDomain == ASSUME lk \in LinkRecords PROVE DOMAIN lk = LinkFields
BY DEF LinkRecords, LinkFields

\* A step that leaves the init sequence and the services where they are.
LEMMA LinkFrame ==
    ASSUME LinkInv, lk' \in LinkRecords, lkSocket' \in {Nobody, Ours, Others}, lkRoutes' = lkRoutes,
           \A f \in InitFields : lk'[f] = lk[f],
           lk'.host = "idle" => lk'.plug = "absent",
           lk'.plug \in {"absent", "started", "printed"} => lk.init = "none",
           lk'.call = "done" => lk.call = "done" \/ lk.init = "ready"
    PROVE  LinkInv'
<1>1. /\ lk'.init = lk.init /\ lk'.inits = lk.inits /\ lk'.serv = lk.serv /\ lk'.told = lk.told
      /\ lk'.slot = lk.slot /\ lk'.leg = lk.leg /\ lk'.why = lk.why /\ lk'.got = lk.got /\ lk'.left = lk.left
  BY DEF InitFields
<1> QED
  BY <1>1 DEF LinkInv, InitOnce, NothingLost, LegIsOwn, DegradesOnlyIfFailed

\* The steps of the two processes that do.
LEMMA FramedKeeps ==
    ASSUME LinkInv,
           \/ PluginPrints \/ HostReadsLine \/ HostPins \/ HostConnects \/ BrokerConnects \/ HostAccepts
           \/ HealthAnswered \/ StreamOpens \/ CallEnds \/ PluginDrains \/ GraceEnds \/ HostSpawns \/ PluginDies \/ CallArrives \/ HostShutsDown
    PROVE  LinkInv'
<1> lk \in LinkRecords /\ DOMAIN lk = LinkFields
  BY LinkDomain DEF LinkInv
<1>1. CASE PluginPrints
  <2>1. lk' \in LinkRecords
    BY <1>1 DEF PluginPrints, Keep, OwnLine, Lines, LinkRecords
  <2>2. \A f \in InitFields : lk'[f] = lk[f]
    BY <1>1 DEF PluginPrints, Keep, OwnLine, Lines, LinkFields, InitFields
  <2>3. /\ lk'.host = "idle" => lk'.plug = "absent"
        /\ lk'.plug \in {"absent", "started", "printed"} => lk.init = "none"
        /\ lk'.call = "done" => lk.call = "done" \/ lk.init = "ready"
    BY <1>1 DEF PluginPrints, Keep, OwnLine, Lines, LinkFields, LinkInv, InitOnce
  <2> QED
    BY <1>1, <2>1, <2>2, <2>3, LinkFrame DEF PluginPrints, Keep, LinkInv
<1>2. CASE HostReadsLine
  <2>1. lk' \in LinkRecords
    BY <1>2 DEF HostReadsLine, Keep, LinkRecords
  <2>2. \A f \in InitFields : lk'[f] = lk[f]
    BY <1>2 DEF HostReadsLine, Keep, LinkFields, InitFields
  <2>3. /\ lk'.host = "idle" => lk'.plug = "absent"
        /\ lk'.plug \in {"absent", "started", "printed"} => lk.init = "none"
        /\ lk'.call = "done" => lk.call = "done" \/ lk.init = "ready"
    BY <1>2 DEF HostReadsLine, Keep, LinkFields, LinkInv, InitOnce
  <2> QED
    BY <1>2, <2>1, <2>2, <2>3, LinkFrame DEF HostReadsLine, Keep, LinkInv
<1>3. CASE HostPins
  <2>1. lk' \in LinkRecords
    BY <1>3 DEF HostPins, Keep, LinkRecords
  <2>2. \A f \in InitFields : lk'[f] = lk[f]
    BY <1>3 DEF HostPins, Keep, LinkFields, InitFields
  <2>3. /\ lk'.host = "idle" => lk'.plug = "absent"
        /\ lk'.plug \in {"absent", "started", "printed"} => lk.init = "none"
        /\ lk'.call = "done" => lk.call = "done" \/ lk.init = "ready"
    BY <1>3 DEF HostPins, Keep, LinkFields, LinkInv, InitOnce
  <2> QED
    BY <1>3, <2>1, <2>2, <2>3, LinkFrame DEF HostPins, Keep, LinkInv
<1>4. CASE HostConnects
  <2>1. lk' \in LinkRecords
    BY <1>4 DEF HostConnects, Keep, LinkRecords
  <2>2. \A f \in InitFields : lk'[f] = lk[f]
    BY <1>4 DEF HostConnects, Keep, LinkFields, InitFields
  <2>3. /\ lk'.host = "idle" => lk'.plug = "absent"
        /\ lk'.plug \in {"absent", "started", "printed"} => lk.init = "none"
        /\ lk'.call = "done" => lk.call = "done" \/ lk.init = "ready"
    BY <1>4 DEF HostConnects, Keep, LinkFields, LinkInv, InitOnce
  <2> QED
    BY <1>4, <2>1, <2>2, <2>3, LinkFrame DEF HostConnects, Keep, LinkInv
<1>5. CASE BrokerConnects
  <2>1. lk' \in LinkRecords
    BY <1>5 DEF BrokerConnects, Keep, LinkRecords
  <2>2. \A f \in InitFields : lk'[f] = lk[f]
    BY <1>5 DEF BrokerConnects, Keep, LinkFields, InitFields
  <2>3. /\ lk'.host = "idle" => lk'.plug = "absent"
        /\ lk'.plug \in {"absent", "started", "printed"} => lk.init = "none"
        /\ lk'.call = "done" => lk.call = "done" \/ lk.init = "ready"
    BY <1>5 DEF BrokerConnects, Keep, LinkFields, LinkInv, InitOnce
  <2> QED
    BY <1>5, <2>1, <2>2, <2>3, LinkFrame DEF BrokerConnects, Keep, LinkInv
<1>6. CASE HostAccepts
  <2>1. lk' \in LinkRecords
    BY <1>6 DEF HostAccepts, Keep, LinkRecords
  <2>2. \A f \in InitFields : lk'[f] = lk[f]
    BY <1>6 DEF HostAccepts, Keep, LinkFields, InitFields
  <2>3. /\ lk'.host = "idle" => lk'.plug = "absent"
        /\ lk'.plug \in {"absent", "started", "printed"} => lk.init = "none"
        /\ lk'.call = "done" => lk.call = "done" \/ lk.init = "ready"
    BY <1>6 DEF HostAccepts, Keep, LinkFields, LinkInv, InitOnce
  <2> QED
    BY <1>6, <2>1, <2>2, <2>3, LinkFrame DEF HostAccepts, Keep, LinkInv
<1>7. CASE HealthAnswered
  <2>1. lk' \in LinkRecords
    BY <1>7 DEF HealthAnswered, Keep, LinkRecords
  <2>2. \A f \in InitFields : lk'[f] = lk[f]
    BY <1>7 DEF HealthAnswered, Keep, LinkFields, InitFields
  <2>3. /\ lk'.host = "idle" => lk'.plug = "absent"
        /\ lk'.plug \in {"absent", "started", "printed"} => lk.init = "none"
        /\ lk'.call = "done" => lk.call = "done" \/ lk.init = "ready"
    BY <1>7 DEF HealthAnswered, Keep, LinkFields, LinkInv, InitOnce
  <2> QED
    BY <1>7, <2>1, <2>2, <2>3, LinkFrame DEF HealthAnswered, Keep, LinkInv
<1>8. CASE StreamOpens
  <2>1. lk' \in LinkRecords
    BY <1>8 DEF StreamOpens, Keep, LinkRecords
  <2>2. \A f \in InitFields : lk'[f] = lk[f]
    BY <1>8 DEF StreamOpens, Keep, LinkFields, InitFields
  <2>3. /\ lk'.host = "idle" => lk'.plug = "absent"
        /\ lk'.plug \in {"absent", "started", "printed"} => lk.init = "none"
        /\ lk'.call = "done" => lk.call = "done" \/ lk.init = "ready"
    BY <1>8 DEF StreamOpens, Keep, LinkFields, LinkInv, InitOnce
  <2> QED
    BY <1>8, <2>1, <2>2, <2>3, LinkFrame DEF StreamOpens, Keep, LinkInv
<1>9. CASE CallEnds
  <2>1. lk' \in LinkRecords
    <3>1. PICK c \in {"done", "failed"} : lk' = [lk EXCEPT !.call = c]
      BY <1>9 DEF CallEnds
    <3> QED
      BY <3>1 DEF LinkRecords
  <2>2. \A f \in InitFields : lk'[f] = lk[f]
    BY <1>9 DEF CallEnds, Keep, Gate, LinkFields, InitFields
  <2>3. /\ lk'.host = "idle" => lk'.plug = "absent"
        /\ lk'.plug \in {"absent", "started", "printed"} => lk.init = "none"
        /\ lk'.call = "done" => lk.call = "done" \/ lk.init = "ready"
    BY <1>9 DEF CallEnds, Keep, Gate, LinkFields, LinkInv, InitOnce
  <2> QED
    BY <1>9, <2>1, <2>2, <2>3, LinkFrame DEF CallEnds, Keep, LinkInv
<1>10. CASE PluginDrains
  <2>1. lk' \in LinkRecords
    BY <1>10 DEF PluginDrains, Keep, LinkRecords
  <2>2. \A f \in InitFields : lk'[f] = lk[f]
    BY <1>10 DEF PluginDrains, Keep, LinkFields, InitFields
  <2>3. /\ lk'.host = "idle" => lk'.plug = "absent"
        /\ lk'.plug \in {"absent", "started", "printed"} => lk.init = "none"
        /\ lk'.call = "done" => lk.call = "done" \/ lk.init = "ready"
    BY <1>10 DEF PluginDrains, Keep, LinkFields, LinkInv, InitOnce
  <2> QED
    BY <1>10, <2>1, <2>2, <2>3, LinkFrame DEF PluginDrains, Keep, LinkInv
<1>11. CASE GraceEnds
  <2>1. lk' \in LinkRecords
    BY <1>11 DEF GraceEnds, Keep, Killed, LinkRecords
  <2>2. \A f \in InitFields : lk'[f] = lk[f]
    BY <1>11 DEF GraceEnds, Keep, Killed, LinkFields, InitFields
  <2>3. /\ lk'.host = "idle" => lk'.plug = "absent"
        /\ lk'.plug \in {"absent", "started", "printed"} => lk.init = "none"
        /\ lk'.call = "done" => lk.call = "done" \/ lk.init = "ready"
    BY <1>11 DEF GraceEnds, Keep, Killed, LinkFields, LinkInv, InitOnce
  <2> QED
    BY <1>11, <2>1, <2>2, <2>3, LinkFrame DEF GraceEnds, Keep, LinkInv
<1>12. CASE HostSpawns
  <2>1. lk' \in LinkRecords
    BY <1>12 DEF HostSpawns, Keep, LinkRecords
  <2>2. \A f \in InitFields : lk'[f] = lk[f]
    BY <1>12 DEF HostSpawns, Keep, LinkFields, InitFields
  <2>3. /\ lk'.host = "idle" => lk'.plug = "absent"
        /\ lk'.plug \in {"absent", "started", "printed"} => lk.init = "none"
        /\ lk'.call = "done" => lk.call = "done" \/ lk.init = "ready"
    BY <1>12 DEF HostSpawns, Keep, LinkFields, LinkInv, InitOnce
  <2> QED
    BY <1>12, <2>1, <2>2, <2>3, LinkFrame DEF HostSpawns, Keep, LinkInv
<1>13. CASE PluginDies
  <2>1. lk' \in LinkRecords
    BY <1>13 DEF PluginDies, Keep, LinkRecords
  <2>2. \A f \in InitFields : lk'[f] = lk[f]
    BY <1>13 DEF PluginDies, Keep, LinkFields, InitFields
  <2>3. /\ lk'.host = "idle" => lk'.plug = "absent"
        /\ lk'.plug \in {"absent", "started", "printed"} => lk.init = "none"
        /\ lk'.call = "done" => lk.call = "done" \/ lk.init = "ready"
    BY <1>13 DEF PluginDies, Keep, LinkFields, LinkInv, InitOnce
  <2> QED
    BY <1>13, <2>1, <2>2, <2>3, LinkFrame DEF PluginDies, Keep, LinkInv
<1>14. CASE CallArrives
  <2>1. lk' \in LinkRecords
    BY <1>14 DEF CallArrives, Keep, LinkRecords
  <2>2. \A f \in InitFields : lk'[f] = lk[f]
    BY <1>14 DEF CallArrives, Keep, LinkFields, InitFields
  <2>3. /\ lk'.host = "idle" => lk'.plug = "absent"
        /\ lk'.plug \in {"absent", "started", "printed"} => lk.init = "none"
        /\ lk'.call = "done" => lk.call = "done" \/ lk.init = "ready"
    BY <1>14 DEF CallArrives, Keep, LinkFields, LinkInv, InitOnce
  <2> QED
    BY <1>14, <2>1, <2>2, <2>3, LinkFrame DEF CallArrives, Keep, LinkInv
<1>15. CASE HostShutsDown
  <2>1. lk' \in LinkRecords
    BY <1>15 DEF HostShutsDown, Keep, LinkRecords
  <2>2. \A f \in InitFields : lk'[f] = lk[f]
    BY <1>15 DEF HostShutsDown, Keep, LinkFields, InitFields
  <2>3. /\ lk'.host = "idle" => lk'.plug = "absent"
        /\ lk'.plug \in {"absent", "started", "printed"} => lk.init = "none"
        /\ lk'.call = "done" => lk.call = "done" \/ lk.init = "ready"
    BY <1>15 DEF HostShutsDown, Keep, LinkFields, LinkInv, InitOnce
  <2> QED
    BY <1>15, <2>1, <2>2, <2>3, LinkFrame DEF HostShutsDown, Keep, LinkInv
<1> QED
  BY <1>1, <1>2, <1>3, <1>4, <1>5, <1>6, <1>7, <1>8, <1>9, <1>10, <1>11, <1>12, <1>13, <1>14, <1>15

\* The steps of the plugin's own init sequence, and what it is told meanwhile.
LEMMA InitKeeps ==
    ASSUME LinkInv, PluginServes \/ Announced \/ InitStep
    PROVE  LinkInv'
<1> lk \in LinkRecords /\ DOMAIN lk = LinkFields
  BY LinkDomain DEF LinkInv
<1>1. CASE PluginServes
  <2>1. lk' \in LinkRecords
    BY <1>1 DEF PluginServes, Keep, LinkRecords
  <2>2. /\ lk.plug = "printed" /\ lk'.plug = "serving" /\ lk'.init = "dial"
        /\ lk'.host = lk.host /\ lk'.inits = lk.inits /\ lk'.serv = lk.serv /\ lk'.told = lk.told
        /\ lk'.slot = lk.slot /\ lk'.leg = lk.leg /\ lk'.why = lk.why /\ lk'.got = lk.got
        /\ lk'.left = lk.left /\ lk'.call = lk.call
    BY <1>1 DEF PluginServes, Keep, LinkFields
  <2>3. lkSocket' = lkSocket /\ lkRoutes' = lkRoutes
    BY <1>1 DEF PluginServes, Keep
  <2> QED
    BY <2>1, <2>2, <2>3, LinkTypes DEF LinkInv, InitOnce, NothingLost, LegIsOwn, DegradesOnlyIfFailed
<1>2. CASE Announced
  <2>1. lk' \in LinkRecords
    <3>1. PICK v \in {"empty", "full"} : lk' = [lk EXCEPT !.out = FALSE, !.told = TRUE, !.slot = v]
      BY <1>2, LinkTypes DEF Announced
    <3> QED
      BY <3>1, ZenonT(60) DEF LinkRecords
  <2>2. /\ lk'.told = TRUE /\ lk'.slot = (IF lk.init \in {"none", "dial", "waiting"} THEN "full" ELSE lk.slot)
        /\ lk'.host = lk.host /\ lk'.plug = lk.plug /\ lk'.init = lk.init /\ lk'.inits = lk.inits
        /\ lk'.serv = lk.serv /\ lk'.leg = lk.leg /\ lk'.why = lk.why /\ lk'.got = lk.got
        /\ lk'.left = lk.left /\ lk'.call = lk.call
    BY <1>2 DEF Announced, Keep, Listening, LinkFields
  <2>3. lkSocket' = lkSocket /\ lkRoutes' = lkRoutes
    BY <1>2 DEF Announced, Keep
  <2> QED
    BY <2>1, <2>2, <2>3, LinkTypes DEF LinkInv, InitOnce, NothingLost, LegIsOwn, DegradesOnlyIfFailed
<1>3. CASE Dial
  <2>1. lk' \in LinkRecords
    BY <1>3 DEF Dial, Keep, SlotFound, LinkRecords
  <2>2. /\ lk.init = "dial" /\ lk'.init = "waiting" /\ lk'.slot = lk.slot
        /\ lk'.host = lk.host /\ lk'.plug = lk.plug /\ lk'.inits = lk.inits /\ lk'.serv = lk.serv
        /\ lk'.told = lk.told /\ lk'.leg = lk.leg /\ lk'.why = lk.why /\ lk'.got = lk.got
        /\ lk'.left = lk.left /\ lk'.call = lk.call
    BY <1>3 DEF Dial, Keep, SlotFound, LinkFields
  <2>3. lkSocket' = lkSocket /\ lkRoutes' = lkRoutes
    BY <1>3 DEF Dial, Keep
  <2> QED
    BY <2>1, <2>2, <2>3, LinkTypes DEF LinkInv, InitOnce, NothingLost, LegIsOwn, DegradesOnlyIfFailed
<1>4. CASE DialReceives
  <2>1. lk' \in LinkRecords
    BY <1>4 DEF DialReceives, Keep, LinkRecords
  <2>2. /\ lk.init = "waiting" /\ lk'.init = "connecting"
        /\ lk'.host = lk.host /\ lk'.plug = lk.plug /\ lk'.inits = lk.inits /\ lk'.serv = lk.serv
        /\ lk'.told = lk.told /\ lk'.leg = lk.leg /\ lk'.why = lk.why /\ lk'.got = lk.got
        /\ lk'.left = lk.left /\ lk'.call = lk.call
    BY <1>4 DEF DialReceives, Keep, LinkFields
  <2>3. lkSocket' = lkSocket /\ lkRoutes' = lkRoutes
    BY <1>4 DEF DialReceives, Keep
  <2> QED
    BY <2>1, <2>2, <2>3, LinkTypes DEF LinkInv, InitOnce, NothingLost, LegIsOwn, DegradesOnlyIfFailed
<1>5. CASE DialTimesOut
  <2>1. lk' \in LinkRecords
    <3>1. PICK e \in SUBSET Excuses : Degrades(e)
      BY <1>5 DEF DialTimesOut, Excuses
    <3> QED
      BY <3>1, DegradedTyped
  <2>2. /\ lk.init = "waiting" /\ lk.slot # "full" /\ lk'.init = "init" /\ lk'.serv = "noop"
        /\ lk'.why = lk.why \cup (IF lk.told THEN {} ELSE {"not announced"})
        /\ lk'.host = lk.host /\ lk'.plug = lk.plug /\ lk'.inits = lk.inits /\ lk'.told = lk.told
        /\ lk'.slot = lk.slot /\ lk'.leg = lk.leg /\ lk'.got = lk.got /\ lk'.left = lk.left
        /\ lk'.call = lk.call
    BY <1>5 DEF DialTimesOut, Keep, GivesUp, Degrades, Noop, LinkFields
  <2>3. lkSocket' = lkSocket /\ lkRoutes' = lkRoutes
    BY <1>5 DEF DialTimesOut, Keep
  <2> QED
    BY <2>1, <2>2, <2>3, LinkTypes DEF LinkInv, InitOnce, NothingLost, LegIsOwn, DegradesOnlyIfFailed
<1>6. CASE TlsConnects
  <2>1. CASE lkSocket = Ours
    <3>1. lk' \in LinkRecords
      <4>1. lk' = [lk EXCEPT !.init = "prefetch", !.leg = Ours, !.left = Fetches]
        BY <1>6, <2>1 DEF TlsConnects, PinMatches, LegEstablished
      <4> QED
        BY <4>1 DEF LinkRecords
    <3>2. /\ lk.init = "connecting" /\ lk'.init = "prefetch" /\ lk'.leg = Ours /\ lk'.left = Fetches
          /\ lk'.host = lk.host /\ lk'.plug = lk.plug /\ lk'.inits = lk.inits /\ lk'.serv = lk.serv
          /\ lk'.told = lk.told /\ lk'.slot = lk.slot /\ lk'.why = lk.why /\ lk'.got = lk.got
          /\ lk'.call = lk.call
      BY <1>6, <2>1 DEF TlsConnects, Keep, PinMatches, LegEstablished, LinkFields
    <3>3. lkSocket' = lkSocket /\ lkRoutes' = lkRoutes
      BY <1>6, <2>1 DEF TlsConnects, Keep
    <3> QED
      BY <3>1, <3>2, <3>3, LinkTypes DEF LinkInv, InitOnce, NothingLost, LegIsOwn, DegradesOnlyIfFailed
  <2>2. CASE lkSocket # Ours
    <3>1. lk' \in LinkRecords
      <4>1. Degrades({"overtaken"})
        BY <1>6, <2>2 DEF TlsConnects, PinMatches
      <4> QED
        BY <4>1, DegradedTyped DEF Excuses
    <3>2. /\ lk.init = "connecting" /\ lk'.init = "init" /\ lk'.serv = "noop"
          /\ lk'.why = lk.why \cup {"overtaken"}
          /\ lk'.host = lk.host /\ lk'.plug = lk.plug /\ lk'.inits = lk.inits /\ lk'.told = lk.told
          /\ lk'.slot = lk.slot /\ lk'.leg = lk.leg /\ lk'.got = lk.got /\ lk'.left = lk.left
          /\ lk'.call = lk.call
      BY <1>6, <2>2 DEF TlsConnects, Keep, PinMatches, Degrades, Noop, LinkFields
    <3>3. lkSocket' = lkSocket /\ lkRoutes' = lkRoutes
      BY <1>6, <2>2 DEF TlsConnects, Keep
    <3> QED
      BY <3>1, <3>2, <3>3, LinkTypes DEF LinkInv, InitOnce, NothingLost, LegIsOwn, DegradesOnlyIfFailed
  <2> QED
    BY <2>1, <2>2
<1>7. CASE AttemptTimesOut
  <2>1. lk' \in LinkRecords
    BY <1>7, DegradedTyped DEF AttemptTimesOut, Excuses
  <2>2. /\ lk.init \in {"connecting", "prefetch"} /\ lk'.init = "init" /\ lk'.serv = "noop"
        /\ lk'.why = lk.why \cup {"slow"}
        /\ lk'.host = lk.host /\ lk'.plug = lk.plug /\ lk'.inits = lk.inits /\ lk'.told = lk.told
        /\ lk'.slot = lk.slot /\ lk'.leg = lk.leg /\ lk'.got = lk.got /\ lk'.left = lk.left
        /\ lk'.call = lk.call
    BY <1>7 DEF AttemptTimesOut, Keep, Degrades, Noop, LinkFields
  <2>3. lkSocket' = lkSocket /\ lkRoutes' = lkRoutes
    BY <1>7 DEF AttemptTimesOut, Keep
  <2> QED
    BY <2>1, <2>2, <2>3, LinkTypes DEF LinkInv, InitOnce, NothingLost, LegIsOwn, DegradesOnlyIfFailed
<1>8. ASSUME NEW ok \in BOOLEAN, PrefetchReturns(ok) PROVE LinkInv'
  <2>0. NextFetch \in lk.left
    BY <1>8 DEF PrefetchReturns, NextFetch
  <2>1. lk' \in LinkRecords
    <3>1. PICK g, w : /\ lk' = [lk EXCEPT !.left = lk.left \ {NextFetch}, !.got = g, !.why = w]
                      /\ g = (IF ok THEN lk.got \cup {NextFetch} ELSE lk.got)
                      /\ w = (IF ok THEN lk.why ELSE lk.why \cup {"call failed"})
      BY <1>8 DEF PrefetchReturns
    <3>2. g \subseteq Fetches /\ w \subseteq Excuses
      BY <2>0, <3>1, LinkTypes DEF Excuses
    <3>3. lk.left \ {NextFetch} \subseteq Fetches
      BY LinkTypes
    <3> QED
      BY <3>1, <3>2, <3>3 DEF LinkRecords
  <2>2. /\ lk.init = "prefetch" /\ lk'.left = lk.left \ {NextFetch}
        /\ lk'.got = (IF ok THEN lk.got \cup {NextFetch} ELSE lk.got)
        /\ lk'.why = (IF ok THEN lk.why ELSE lk.why \cup {"call failed"})
        /\ lk'.host = lk.host /\ lk'.plug = lk.plug /\ lk'.init = lk.init /\ lk'.inits = lk.inits
        /\ lk'.serv = lk.serv /\ lk'.told = lk.told /\ lk'.slot = lk.slot /\ lk'.leg = lk.leg /\ lk'.call = lk.call
    BY <1>8 DEF PrefetchReturns, Keep, LinkFields
  <2>3. lkSocket' = lkSocket /\ lkRoutes' = lkRoutes
    BY <1>8 DEF PrefetchReturns, Keep
  <2>4. lk'.why = {} => lk.why = {} /\ ok
    BY <2>2
  <2>5. lk.got \subseteq Fetches /\ lk.left \subseteq Fetches
    BY DEF LinkRecords
  <2>6. lk'.why = {} => lk'.got \cup lk'.left = Fetches
    BY <2>0, <2>2, <2>4, <2>5 DEF LinkInv, NothingLost
  <2> QED
    BY <2>1, <2>2, <2>3, <2>4, <2>6 DEF LinkInv, InitOnce, NothingLost, LegIsOwn, DegradesOnlyIfFailed
<1>9. CASE PrefetchEnds
  <2>1. lk' \in LinkRecords
    BY <1>9, ZenonT(60) DEF PrefetchEnds, Keep, LinkRecords
  <2>2. /\ lk.init = "prefetch" /\ lk.left = {} /\ lk'.init = "init" /\ lk'.serv = "remote"
        /\ lk'.host = lk.host /\ lk'.plug = lk.plug /\ lk'.inits = lk.inits /\ lk'.told = lk.told
        /\ lk'.slot = lk.slot /\ lk'.leg = lk.leg /\ lk'.why = lk.why /\ lk'.got = lk.got
        /\ lk'.left = lk.left /\ lk'.call = lk.call
    BY <1>9 DEF PrefetchEnds, Keep, LinkFields
  <2>3. lkSocket' = lkSocket /\ lkRoutes' = lkRoutes
    BY <1>9 DEF PrefetchEnds, Keep
  <2> QED
    BY <2>1, <2>2, <2>3, LinkTypes DEF LinkInv, InitOnce, NothingLost, LegIsOwn, DegradesOnlyIfFailed
<1>10. CASE ModuleInit
  <2>1. lk' \in LinkRecords
    <3>1. lk.inits + 1 = 1
      BY <1>10 DEF ModuleInit, LinkInv, InitOnce
    <3> QED
      BY <1>10, <3>1 DEF ModuleInit, LinkRecords
  <2>2. /\ lk.init = "init" /\ lk'.init = "ready" /\ lk'.inits = 1
        /\ lk'.host = lk.host /\ lk'.plug = lk.plug /\ lk'.serv = lk.serv /\ lk'.told = lk.told
        /\ lk'.slot = lk.slot /\ lk'.leg = lk.leg /\ lk'.why = lk.why /\ lk'.got = lk.got
        /\ lk'.left = lk.left /\ lk'.call = lk.call
    BY <1>10 DEF ModuleInit, Keep, LinkFields, LinkInv, InitOnce
  <2>3. lkSocket' = lkSocket /\ lkRoutes' = lkRoutes
    BY <1>10 DEF ModuleInit, Keep
  <2> QED
    BY <2>1, <2>2, <2>3, LinkTypes DEF LinkInv, InitOnce, NothingLost, LegIsOwn, DegradesOnlyIfFailed
<1> QED
  BY <1>1, <1>2, <1>3, <1>4, <1>5, <1>6, <1>7, <1>8, <1>9, <1>10 DEF InitStep

LEMMA LinkKeeps == ASSUME LinkInv, [LinkNext]_linkVars PROVE LinkInv'
<1>1. CASE \/ PluginPrints \/ HostReadsLine \/ HostPins \/ HostConnects \/ BrokerConnects \/ HostAccepts
           \/ HealthAnswered \/ StreamOpens \/ CallEnds \/ PluginDrains \/ GraceEnds
           \/ HostSpawns \/ PluginDies \/ CallArrives \/ HostShutsDown
  BY <1>1, FramedKeeps
<1>2. CASE PluginServes \/ Announced \/ InitStep
  BY <1>2, InitKeeps
<1>3. CASE OtherLaunchAccepts
  BY <1>3 DEF OtherLaunchAccepts, LinkInv, InitOnce, NothingLost, LegIsOwn, DegradesOnlyIfFailed
<1>4. ASSUME NEW l \in Lines, StrangerPrints(l) PROVE LinkInv'
  <2> lk \in LinkRecords /\ DOMAIN lk = LinkFields
    BY LinkDomain DEF LinkInv
  <2>1. lk' \in LinkRecords
    BY <1>4 DEF StrangerPrints, Keep, LinkRecords
  <2>2. \A f \in InitFields : lk'[f] = lk[f]
    BY <1>4 DEF StrangerPrints, Keep, LinkFields, InitFields
  <2>3. lk.host # "idle" /\ lk'.host = lk.host /\ lk'.plug = "exited" /\ lk'.call = lk.call
    BY <1>4 DEF StrangerPrints, Keep, LinkFields, LinkInv, InitOnce
  <2> QED
    BY <1>4, <2>1, <2>2, <2>3, LinkFrame DEF StrangerPrints, Keep, LinkInv, InitOnce
<1>5. CASE UNCHANGED linkVars
  BY <1>5 DEF linkVars, LinkInv, InitOnce, NothingLost, LegIsOwn, DegradesOnlyIfFailed
<1> QED
  BY <1>1, <1>2, <1>3, <1>4, <1>5 DEF LinkNext, LinkStep

\* What the run checks of the connection.
LEMMA LinkSafe == LinkInv => LinkTypeOK /\ LegIsOwn /\ DegradesOnlyIfFailed /\ InitComesFirst
<1> SUFFICES ASSUME LinkInv PROVE LinkTypeOK /\ InitComesFirst
  BY DEF LinkInv
<1>1. /\ lk.serv \in {"none", "remote", "noop"} /\ lk.inits \in {0, 1}
      /\ lk.slot \in {"empty", "full"} /\ lk.got \subseteq Fetches
  BY LinkTypes DEF LinkInv
<1> QED
  BY <1>1 DEF LinkInv, InitOnce, LinkTypeOK, InitComesFirst

-----------------------------------------------------------------------------
(***************************************************************************)
(* The services a plugin calls back for.                                   *)
(***************************************************************************)

\* "On", wherever it is on its way, was once the host's answer; without a host nobody
\* is asked.
FlagInv ==
    /\ rsKind \in {"remote", "noop"} /\ rsFlag \in Flags /\ rsTold \in {"on", "off"}
    /\ rsAsked \in [1..MaxAsks -> {"none", "sent", "on", "off"}] /\ rsAsks \in Nat
    /\ rsGranted => rsEver
    /\ rsFlag = "on" => rsEver
    /\ \A n \in 1..MaxAsks : rsAsked[n] = "on" => rsEver
    /\ OnlyGrantedIsOn
    /\ rsKind = "noop" => rsFlag = "unseen" /\ \A n \in 1..MaxAsks : rsAsked[n] = "none"

\* "Not found" is said of a store that had nothing when the host looked.
SecretInv ==
    /\ rsSecret \in {"none", "sent", "answered", "message not found", "message failed", "value", "notFound", "other"}
    /\ rsSecret \in {"message not found", "notFound"} => ~rsSeen
    /\ rsKind = "noop" => rsSecret \in {"none", "other"}

\* An event is under way or has arrived, once.
EventInv ==
    /\ rsSent \in Nat /\ rsUnderWay \subseteq 1..rsSent /\ rsArrived \in Seq(Nat)
    /\ \A i \in 1..Len(rsArrived) : rsArrived[i] \in 1..rsSent /\ rsArrived[i] \notin rsUnderWay
    /\ \A i, j \in 1..Len(rsArrived) : rsArrived[i] = rsArrived[j] => i = j
    /\ rsKind = "noop" => rsArrived = <<>> /\ rsUnderWay = {}

\* The inductive invariant.
RemoteInv == FlagInv /\ SecretInv /\ EventInv

LEMMA RemoteBegins == RemoteInit => RemoteInv
<1> SUFFICES ASSUME RemoteInit PROVE RemoteInv
  OBVIOUS
<1>1. FlagInv
  BY DEF RemoteInit, FlagInv, OnlyGrantedIsOn, Flags
<1>2. SecretInv /\ EventInv
  BY DEF RemoteInit, SecretInv, EventInv
<1> QED
  BY <1>1, <1>2 DEF RemoteInv

\* Each part has variables of its own.
LEMMA FlagFrame == ASSUME FlagInv, UNCHANGED <<rsKind, flagVars, rsGranted, rsEver>> PROVE FlagInv'
BY DEF FlagInv, flagVars, OnlyGrantedIsOn

LEMMA SecretFrame == ASSUME SecretInv, UNCHANGED <<rsKind, secretCallVars>> PROVE SecretInv'
BY DEF SecretInv, secretCallVars

LEMMA EventFrame == ASSUME EventInv, UNCHANGED <<rsKind, eventVars>> PROVE EventInv'
<1>1. UNCHANGED <<rsKind, rsSent, rsUnderWay, rsArrived>>
  BY DEF eventVars
<1> QED
  BY <1>1, ZenonT(60) DEF EventInv

\* The flag: asked for, answered, cached.
LEMMA FlagKeeps ==
    ASSUME RemoteInv,
           FeatureAsked \/ \E n \in 1..MaxAsks : HostAnswersFlag(n) \/ RefreshApplies(n) \/ RefreshFails(n)
    PROVE  RemoteInv'
<1>0. UNCHANGED <<rsKind, secretCallVars, eventVars, hostSideVars>>
  BY DEF FeatureAsked, HostAnswersFlag, RefreshApplies, RefreshFails
<1>1. SecretInv' /\ EventInv'
  BY <1>0, SecretFrame, EventFrame DEF RemoteInv
<1> SUFFICES FlagInv'
  BY <1>1 DEF RemoteInv
<1>2. FlagInv /\ UNCHANGED <<rsKind, rsGranted, rsEver>>
  BY <1>0 DEF RemoteInv, hostSideVars
<1>3. CASE FeatureAsked
  <2>1. rsFlag' = rsFlag
    BY <1>3 DEF FeatureAsked
  <2>2. CASE /\ rsKind = "noop" \/ rsFlag # "unseen"
             /\ rsTold' = IF rsKind = "noop" THEN "off" ELSE rsFlag
             /\ UNCHANGED <<rsAsked, rsAsks>>
    BY <1>2, <2>1, <2>2 DEF FlagInv, Flags, OnlyGrantedIsOn
  <2>3. CASE /\ rsKind = "remote" /\ rsAsks < MaxAsks
             /\ rsAsks' = rsAsks + 1 /\ rsAsked' = [rsAsked EXCEPT ![rsAsks + 1] = "sent"]
             /\ rsTold' = Unseen
    <3>0. rsAsked \in [1..MaxAsks -> {"none", "sent", "on", "off"}] /\ rsAsks \in Nat
      BY <1>2 DEF FlagInv
    <3>1. rsAsked' \in [1..MaxAsks -> {"none", "sent", "on", "off"}] /\ rsAsks' \in Nat
      <4>1. rsAsks' \in Nat
        BY <2>3, <3>0
      <4>2. rsAsked' = [rsAsked EXCEPT ![rsAsks + 1] = "sent"]
        BY <2>3
      <4> QED
        BY <3>0, <4>1, <4>2
    <3>2. \A n \in 1..MaxAsks : rsAsked'[n] = "on" => rsAsked[n] = "on"
      BY <1>2, <2>3 DEF FlagInv
    <3> QED
      BY <1>2, <2>1, <2>3, <3>1, <3>2 DEF FlagInv, Unseen, OnlyGrantedIsOn
  <2> QED
    BY <1>3, <2>2, <2>3 DEF FeatureAsked, FlagEnabled
<1>4. ASSUME NEW n \in 1..MaxAsks, HostAnswersFlag(n) PROVE FlagInv'
  BY <1>2, <1>4 DEF HostAnswersFlag, FlagInv, OnlyGrantedIsOn
<1>5. ASSUME NEW n \in 1..MaxAsks, RefreshApplies(n) PROVE FlagInv'
  BY <1>2, <1>5 DEF RefreshApplies, FlagCached, FlagInv, OnlyGrantedIsOn, Flags
<1>6. ASSUME NEW n \in 1..MaxAsks, RefreshFails(n) PROVE FlagInv'
  BY <1>2, <1>6 DEF RefreshFails, FlagInv, OnlyGrantedIsOn
<1> QED
  BY <1>3, <1>4, <1>5, <1>6

\* A secret.
LEMMA SecretsKeep ==
    ASSUME RemoteInv, SecretGets \/ HostLooksUp \/ SecretReturns \/ SecretCallFails
    PROVE  RemoteInv'
<1>0. UNCHANGED <<rsKind, flagVars, eventVars, hostSideVars>>
  BY DEF SecretGets, HostLooksUp, SecretReturns, SecretCallFails
<1>1. FlagInv' /\ EventInv'
  BY <1>0, FlagFrame, EventFrame DEF RemoteInv, hostSideVars
<1> SUFFICES SecretInv'
  BY <1>1 DEF RemoteInv
<1>2. SecretInv /\ rsKind' = rsKind /\ rsKind \in {"remote", "noop"}
  BY <1>0 DEF RemoteInv, FlagInv
<1>3. CASE SecretGets
  BY <1>2, <1>3 DEF SecretGets, SecretInv
<1>4. CASE HostLooksUp
  <2>1. CASE rsStored
    BY <1>2, <1>4, <2>1 DEF HostLooksUp, SecretInv
  <2>2. CASE ~rsStored
    BY <1>2, <1>4, <2>2 DEF HostLooksUp, SecretInv
  <2> QED
    BY <2>1, <2>2
<1>5. CASE SecretReturns
  <2>1. rsSeen' = rsSeen /\ rsSecret \in {"answered", "message not found", "message failed"}
    BY <1>5 DEF SecretReturns
  <2>2. rsSecret' = CASE rsSecret = "answered" -> "value" [] rsSecret = "message not found" -> "notFound" [] OTHER -> "other"
    BY <1>5 DEF SecretReturns, ErrorOf
  <2> QED
    BY <1>2, <2>1, <2>2 DEF SecretInv
<1>6. CASE SecretCallFails
  BY <1>2, <1>6 DEF SecretCallFails, SecretInv
<1> QED
  BY <1>3, <1>4, <1>5, <1>6

\* What changes at the host.
LEMMA HostKeeps ==
    ASSUME RemoteInv, NEW granted \in BOOLEAN, NEW stored \in BOOLEAN, HostChanges(granted, stored)
    PROVE  RemoteInv'
<1>1. SecretInv' /\ EventInv'
  BY SecretFrame, EventFrame DEF RemoteInv, HostChanges
<1>2. (rsEver => rsEver') /\ (rsGranted' => rsEver') /\ UNCHANGED <<rsKind, rsFlag, rsAsked, rsAsks, rsTold>>
  BY DEF HostChanges, flagVars
<1>3. FlagInv'
  BY <1>2 DEF RemoteInv, FlagInv, OnlyGrantedIsOn
<1> QED
  BY <1>1, <1>3 DEF RemoteInv

\* Events.
LEMMA EventsKeep ==
    ASSUME RemoteInv, PublishEvent \/ \E n \in 1..MaxEvents : EventArrives(n) \/ EventLost(n)
    PROVE  RemoteInv'
<1>0. UNCHANGED <<rsKind, flagVars, secretCallVars, hostSideVars>>
  BY DEF PublishEvent, EventArrives, EventLost
<1>1. FlagInv' /\ SecretInv'
  BY <1>0, FlagFrame, SecretFrame DEF RemoteInv, hostSideVars
<1> SUFFICES EventInv'
  BY <1>1 DEF RemoteInv
<1>2. EventInv /\ rsKind' = rsKind /\ Len(rsArrived) \in Nat
  BY <1>0 DEF RemoteInv, EventInv
<1>3. CASE PublishEvent
  <2>1. /\ rsSent' = rsSent + 1 /\ rsArrived' = rsArrived
        /\ rsUnderWay' = IF rsKind = "remote" THEN rsUnderWay \cup {rsSent + 1} ELSE rsUnderWay
    BY <1>3 DEF PublishEvent
  <2>2. rsKind = "noop" => rsUnderWay' = rsUnderWay
    BY <2>1
  <2>3. rsUnderWay' \subseteq 1..(rsSent + 1)
    BY <1>2, <2>1 DEF EventInv
  <2>4. \A i \in 1..Len(rsArrived) : rsArrived[i] \in 1..(rsSent + 1) /\ rsArrived[i] \notin rsUnderWay'
    BY <1>2, <2>1 DEF EventInv
  <2> QED
    BY <1>2, <2>1, <2>2, <2>3, <2>4 DEF EventInv
<1>4. ASSUME NEW n \in 1..MaxEvents, EventArrives(n) PROVE EventInv'
  <2>1. n \in rsUnderWay /\ rsArrived' = Append(rsArrived, n) /\ rsUnderWay' = rsUnderWay \ {n} /\ rsSent' = rsSent
    BY <1>4 DEF EventArrives, Remaining
  <2>2. n \in 1..rsSent /\ n \in Nat /\ rsKind # "noop"
    BY <1>2, <2>1 DEF EventInv
  <2>3. /\ rsArrived' \in Seq(Nat) /\ Len(rsArrived') = Len(rsArrived) + 1
        /\ \A i \in 1..Len(rsArrived) : rsArrived'[i] = rsArrived[i]
        /\ rsArrived'[Len(rsArrived) + 1] = n
    BY <1>2, <2>1, <2>2, AppendProperties DEF EventInv
  <2>4. \A i \in 1..Len(rsArrived') : i = Len(rsArrived) + 1 \/ i \in 1..Len(rsArrived)
    BY <1>2, <2>3
  <2>5. \A i \in 1..Len(rsArrived) : rsArrived[i] # n
    BY <1>2, <2>1 DEF EventInv
  <2>6. \A i \in 1..Len(rsArrived') : rsArrived'[i] \in 1..rsSent /\ rsArrived'[i] \notin rsUnderWay'
    BY <1>2, <2>1, <2>2, <2>3, <2>4 DEF EventInv
  <2>7. \A i, j \in 1..Len(rsArrived') : rsArrived'[i] = rsArrived'[j] => i = j
    BY <1>2, <2>3, <2>4, <2>5, SMTT(40) DEF EventInv
  <2> QED
    BY <1>2, <2>1, <2>2, <2>3, <2>6, <2>7 DEF EventInv
<1>5. ASSUME NEW n \in 1..MaxEvents, EventLost(n) PROVE EventInv'
  <2>1. n \in rsUnderWay /\ rsUnderWay' = rsUnderWay \ {n} /\ rsSent' = rsSent /\ rsArrived' = rsArrived
    BY <1>5 DEF EventLost
  <2> QED
    BY <1>2, <2>1 DEF EventInv
<1> QED
  BY <1>3, <1>4, <1>5

LEMMA RemoteKeeps == ASSUME RemoteInv, [RemoteNext]_remoteVars PROVE RemoteInv'
<1>1. CASE RemoteNext
  BY <1>1, FlagKeeps, SecretsKeep, EventsKeep, HostKeeps DEF RemoteNext
<1>2. CASE UNCHANGED remoteVars
  BY <1>2, FlagFrame, SecretFrame, EventFrame DEF remoteVars, RemoteInv, flagVars, secretCallVars, eventVars
<1> QED
  BY <1>1, <1>2

\* What the run checks of the services.
LEMMA RemoteSafe == RemoteInv => RemoteTypeOK /\ OnlyGrantedIsOn /\ AbsentIsAbsent
<1> SUFFICES ASSUME RemoteInv PROVE RemoteTypeOK /\ OnlyGrantedIsOn /\ AbsentIsAbsent
  OBVIOUS
<1>1. OnlyGrantedIsOn /\ AbsentIsAbsent
  BY DEF RemoteInv, FlagInv, SecretInv, AbsentIsAbsent
<1>2. RemoteTypeOK
  BY DEF RemoteInv, FlagInv, SecretInv, EventInv, RemoteTypeOK
<1> QED
  BY <1>1, <1>2

LEMMA HostStepOfPlugin == [MCNext]_MCVars => [LinkNext]_linkVars /\ [RemoteNext]_remoteVars
BY DEF MCNext, MCVars, InPart

\* A plugin and what it sees of its host are sound whatever is printed, lost, late or
\* refused, and however many questions and events there are: the leg is the launch's own,
\* it is missing only for a reason, Module::init comes first, a feature is on only if it
\* was granted, and a secret is called absent only if it was.
THEOREM PluginServicesSound == MCSpec => []PluginServicesAreSound
<1>1. MCInit => LinkInv /\ RemoteInv
  BY LinkBegins, RemoteBegins DEF MCInit
<1>2. LinkInv /\ RemoteInv /\ [MCNext]_MCVars => LinkInv' /\ RemoteInv'
  BY LinkKeeps, RemoteKeeps, HostStepOfPlugin
<1>3. LinkInv /\ RemoteInv => PluginServicesAreSound
  BY LinkSafe, RemoteSafe DEF PluginServicesAreSound
<1> QED
  BY <1>1, <1>2, <1>3, PTL DEF MCSpec

-----------------------------------------------------------------------------
(***************************************************************************)
(* The userspace tunnel.                                                   *)
(***************************************************************************)
LoopStates == {"none", "waiting", "sending", "ticking", "writing", "ended"}
LoopAlive(l) == usLoop[l] \notin {"none", "ended"}

\* What the calls and the loops keep.
UserspaceTyped ==
    /\ usCall \in {"idle", "bind", "store", "teardown"}
    /\ usLast \in 0..MaxApplies /\ usInst \in 0..MaxApplies /\ usDevice \in 0..MaxApplies
    /\ usLoop \in [Loops -> LoopStates]
    /\ usCancel \in [Loops -> BOOLEAN] /\ usSession \in [Loops -> BOOLEAN]
    /\ usShook \in [Loops -> BOOLEAN] /\ usHandshake \in [Loops -> BOOLEAN]
    /\ usRx \in [Loops -> Nat] /\ usTx \in [Loops -> Nat]

\* Loops are numbered in the order they are spawned; one that is alive has the
\* device, and so has an apply that is about to spawn the next one.  That is why
\* there is never a second loop.
DeviceShape ==
    /\ \A l \in Loops : (usLoop[l] = "none") <=> (l > usLast)
    /\ \A l \in Loops : LoopAlive(l) => usDevice = l
    /\ usCall = "bind" => usLast < MaxApplies /\ usDevice = usLast + 1

\* A loop that writes to the device got its packet through a session.
WritesOfSession ==
    \A l \in Loops : /\ usSession[l] => usShook[l]
                     /\ usLoop[l] = "writing" => usShook[l] /\ usRx[l] > 0

\* The inductive invariant.
UserspaceInv ==
    /\ UserspaceTyped /\ DeviceShape /\ WritesOfSession
    /\ AskedIsCurrent /\ EndsOnlyIfTold /\ HandshakeWasMade

LEMMA CountedIsPositive ==
    ASSUME NEW n \in Nat PROVE Counted(n) \in Nat /\ Counted(n) > 0
BY UserspaceAssumption DEF Counted

LEMMA UserspaceBegins == UserspaceInit => UserspaceInv
<1> SUFFICES ASSUME UserspaceInit PROVE UserspaceInv
  OBVIOUS
<1>1. UserspaceTyped
  BY UserspaceAssumption DEF UserspaceInit, UserspaceTyped, LoopStates, NoLoop
<1>2. DeviceShape
  BY UserspaceAssumption DEF UserspaceInit, DeviceShape, LoopAlive, Loops, NoLoop
<1>3. WritesOfSession /\ AskedIsCurrent /\ EndsOnlyIfTold /\ HandshakeWasMade
  BY DEF UserspaceInit, WritesOfSession, AskedIsCurrent, EndsOnlyIfTold, HandshakeWasMade, At, NoLoop
<1> QED
  BY <1>1, <1>2, <1>3 DEF UserspaceInv

\* apply, teardown and peer_stats.
LEMMA CallsKeepTunnel ==
    ASSUME UserspaceInv,
           OpenDevice \/ CallGoesOn \/ Teardown \/ AskStats \/ StatsAnswered
    PROVE  UserspaceInv'
<1> USE UserspaceAssumption
    DEF UserspaceInv, UserspaceTyped, DeviceShape, WritesOfSession, AskedIsCurrent, EndsOnlyIfTold,
        HandshakeWasMade, LoopStates, LoopAlive, At, GoTo, Loops, NoLoop, usEngine, usTunnel
<1>1. CASE OpenDevice
  BY <1>1 DEF OpenDevice, DeviceFree
<1>2. CASE BindFails
  BY <1>2 DEF BindFails
<1>3. CASE SpawnLoop
  BY <1>3 DEF SpawnLoop
<1>4. CASE StoreInstance
  BY <1>4 DEF StoreInstance, Dropped, InstanceFree
<1>5. CASE TeardownDrops
  BY <1>5 DEF TeardownDrops, Dropped, InstanceFree
<1>6. CASE Teardown
  BY <1>6 DEF Teardown
<1>7. CASE AskStats
  BY <1>7 DEF AskStats
<1>8. CASE StatsAnswered
  BY <1>8 DEF StatsAnswered
<1> QED
  BY <1>1, <1>2, <1>3, <1>4, <1>5, <1>6, <1>7, <1>8 DEF CallGoesOn

\* The arms of an event loop.
LEMMA LoopKeepsTunnel ==
    ASSUME UserspaceInv, NEW l \in Loops,
           \/ ArmEnds(l) \/ LoopCancelled(l) \/ ReadFails(l) \/ TunReadTooLong(l)
           \/ UdpHandshake(l) \/ UdpData(l) \/ TimerTick(l)
           \/ \E sends \in BOOLEAN : TunRead(l, sends)
    PROVE  UserspaceInv'
<1> USE UserspaceAssumption
    DEF UserspaceInv, UserspaceTyped, DeviceShape, WritesOfSession, AskedIsCurrent, EndsOnlyIfTold,
        HandshakeWasMade, LoopStates, LoopAlive, At, GoTo, Loops, NoLoop, usEngine, usTunnel
<1>1. CASE SendOver(l)
  BY <1>1, CountedIsPositive DEF SendOver
<1>2. CASE WriteOver(l)
  BY <1>2 DEF WriteOver
<1>3. CASE TickOver(l)
  BY <1>3 DEF TickOver
<1>4. CASE LoopCancelled(l)
  BY <1>4, SMTT(40) DEF LoopCancelled, LoopOver
<1>5. CASE ReadFails(l)
  BY <1>5 DEF ReadFails, NothingRead
<1>6. CASE TunReadTooLong(l)
  BY <1>6 DEF TunReadTooLong, LoopOver, Takes
<1>7. CASE UdpHandshake(l)
  BY <1>7 DEF UdpHandshake, Takes
<1>8. CASE UdpData(l)
  BY <1>8, CountedIsPositive DEF UdpData, Takes, Opens
<1>9. CASE TimerTick(l)
  <2>1. CASE usTx' = [usTx EXCEPT ![l] = Counted(@)] /\ GoTo(l, "ticking") /\ UNCHANGED usSession
    BY <1>9, <2>1, CountedIsPositive DEF TimerTick, Takes
  <2>2. CASE usSession' = [usSession EXCEPT ![l] = FALSE] /\ UNCHANGED <<usLoop, usTx>>
    BY <1>9, <2>2 DEF TimerTick, Takes
  <2> QED
    BY <1>9, <2>1, <2>2 DEF TimerTick
<1>10. ASSUME NEW sends \in BOOLEAN, TunRead(l, sends) PROVE UserspaceInv'
  BY <1>10 DEF TunRead, Takes
<1> QED
  BY <1>1, <1>2, <1>3, <1>4, <1>5, <1>6, <1>7, <1>8, <1>9, <1>10 DEF ArmEnds

LEMMA UserspaceStep == UserspaceInv /\ [UserspaceNext]_userspaceVars => UserspaceInv'
<1> SUFFICES ASSUME UserspaceInv, [UserspaceNext]_userspaceVars PROVE UserspaceInv'
  OBVIOUS
<1>1. CASE UserspaceNext
  BY <1>1, CallsKeepTunnel, LoopKeepsTunnel DEF UserspaceNext
<1>2. CASE UNCHANGED userspaceVars
  BY <1>2 DEF userspaceVars, UserspaceInv, UserspaceTyped, DeviceShape, WritesOfSession, AskedIsCurrent,
              EndsOnlyIfTold, HandshakeWasMade, LoopAlive, At
<1> QED
  BY <1>1, <1>2

\* One loop at most: every one that is alive has the device.
LEMMA OneLoopAtMost == UserspaceInv => UserspaceIsSound
<1> SUFFICES ASSUME UserspaceInv PROVE UserspaceIsSound
  OBVIOUS
<1> DEFINE alive == {l \in Loops : usLoop[l] \notin {"none", "ended"}}
<1>1. alive \subseteq {usDevice}
  BY DEF UserspaceInv, DeviceShape, LoopAlive
<1>2. IsFiniteSet({usDevice}) /\ Cardinality({usDevice}) = 1
  BY FS_Singleton
<1>3. Cardinality(alive) <= 1
  BY <1>1, <1>2, FS_Subset
<1>4. UserspaceTypeOK
  BY <1>3 DEF UserspaceInv, UserspaceTyped, DeviceShape, UserspaceTypeOK, LoopAlive, LoopStates
<1> QED
  BY <1>4 DEF UserspaceInv, UserspaceIsSound

\* A step of the host is a step of one part, and leaves the tunnel alone or is its own.
LEMMA HostStepOfTunnel == [MCNext]_MCVars => [UserspaceNext]_userspaceVars
BY DEF MCNext, MCVars, InPart

\* The userspace tunnel is sound for any number of applies: one loop has the device,
\* peer_stats answers of the instance that is there, a loop ends only if it was told to
\* or met a packet too long for it, and last_handshake tells of a session.
THEOREM UserspaceSound == MCSpec => []UserspaceIsSound
<1>1. MCInit => UserspaceInv
  BY UserspaceBegins DEF MCInit
<1>2. UserspaceInv /\ [MCNext]_MCVars => UserspaceInv'
  BY UserspaceStep, HostStepOfTunnel
<1> QED
  BY <1>1, <1>2, OneLoopAtMost, PTL DEF MCSpec
=============================================================================
