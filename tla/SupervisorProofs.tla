-------------------------- MODULE SupervisorProofs --------------------------
(***************************************************************************)
(* What holds of Supervisor for every set of modules and handles and every *)
(* restart budget.                                                         *)
(***************************************************************************)
EXTENDS Supervisor, TLAPS

\* The critical section in progress names a module of the table's domain.
OpHasModule ==
    op.kind \in {"load", "unload", "restart"} \/ op.step \in {"instantiate", "init", "start", "cleanup", "stop"}
        => op.mod \in Modules

TypeInv == TypeOK /\ OpHasModule

\* The values the actions put together have their types.
LEMMA ConstantTypes ==
    /\ Absent \in Entry /\ FreeInst \in Instance /\ Idle \in Op
    /\ Idle.kind = "idle" /\ Idle.step = "none"
<1>1. Absent \in Entry
  BY DEF Absent, Entry, TableStates
<1>2. FreeInst \in Instance
  BY DEF FreeInst, Instance, Lives, Polls
<1>3. Idle \in Op
  BY DEF Idle, Op, Kinds, Steps, Callers
<1>4. Idle.kind = "idle" /\ Idle.step = "none"
  BY DEF Idle
<1> QED
  BY <1>1, <1>2, <1>3, <1>4

LEMMA InstanceTypes ==
    ASSUME NEW m \in Modules
    PROVE  Created(m) \in Instance /\ Started(m) \in Instance
BY DEF Created, Started, Instance, Lives, Polls

LEMMA FailedEntryType ==
    ASSUME NEW e \in Entry, NEW b \in BOOLEAN
    PROVE  /\ FailedEntry(e, b) \in Entry
           /\ FailedEntry(e, b).state \in {"failed", "degraded"}
<1>1. Attempt(e) \in Nat
  BY DEF Attempt, Entry
<1>2. (IF b THEN e.taint \union {"stale"} ELSE e.taint) \in SUBSET {"stale", "dropped"}
  BY DEF Entry
<1>3. (IF Attempt(e) >= MaxRestarts THEN "failed" ELSE "degraded") \in {"failed", "degraded"}
  OBVIOUS
<1>4. FailedEntry(e, b) \in Entry
  BY <1>1, <1>2, <1>3 DEF FailedEntry, Entry, TableStates
<1>5. FailedEntry(e, b).state \in {"failed", "degraded"}
  BY <1>3 DEF FailedEntry, Entry
<1> QED
  BY <1>4, <1>5

Taints == SUBSET {"stale", "dropped"}

LEMMA TaintType ==
    ASSUME TypeOK, NEW m, NEW t, m \in Modules => t \in Taints
    PROVE  [loaded EXCEPT ![m].taint = t] \in [Modules -> Entry]
<1>1. \A e \in Entry : t \in Taints => [e EXCEPT !.taint = t] \in Entry
  BY DEF Entry, Taints
<1> QED
  BY <1>1 DEF TypeOK

LEMMA EntryTaint ==
    ASSUME TypeOK, NEW m \in Modules
    PROVE  /\ loaded[m].taint \in Taints
           /\ loaded[m].taint \union {"stale"} \in Taints
           /\ loaded[m].taint \union {"dropped"} \in Taints
<1>1. loaded[m] \in Entry
  BY DEF TypeOK
<1> QED
  BY <1>1 DEF Entry, Taints

LEMMA StableType ==
    ASSUME TypeOK, NEW m
    PROVE  [loaded EXCEPT ![m].stable = TRUE] \in [Modules -> Entry]
<1>1. \A e \in Entry : [e EXCEPT !.stable = TRUE] \in Entry
  BY DEF Entry
<1> QED
  BY <1>1 DEF TypeOK

LEMMA SetStateType ==
    ASSUME TypeOK, NEW m \in Modules, NEW s \in TableStates, NEW i, SetState(m, s, i)
    PROVE  loaded' \in [Modules -> Entry]
<1> DEFINE t == IF loaded[m].inst = i THEN loaded[m].taint
                                      ELSE loaded[m].taint \union {"stale"}
<1>1. t \in Taints
  BY EntryTaint
<1>2. \A e \in Entry : [e EXCEPT !.state = s, !.taint = t] \in Entry
  BY <1>1 DEF Entry, Taints
<1>3. loaded' = [loaded EXCEPT ![m] = [loaded[m] EXCEPT !.state = s, !.taint = t]]
  BY DEF SetState, TypeOK
<1> QED
  BY <1>2, <1>3 DEF TypeOK

LEMMA AfterProbeType ==
    ASSUME NEW r \in Instance PROVE AfterProbe(r) \in Instance
BY DEF AfterProbe, Instance, Polls

LEMMA CancelType ==
    ASSUME TypeOK, NEW i PROVE Cancel(i) \in [Insts -> Instance]
BY ZenonT(60) DEF TypeOK, Cancel, Instance

LEMMA SetLifeType ==
    ASSUME TypeOK, NEW i, NEW l \in Lives
    PROVE  [inst EXCEPT ![i].life = l] \in [Insts -> Instance]
BY ZenonT(60) DEF TypeOK, Instance

LEMMA ReportLaterType ==
    ASSUME TypeOK, ReportLater
    PROVE  retry' \in [Modules -> Retries] /\ lateReports' \in [Modules -> Nat]
BY DEF TypeOK, ReportLater, Retries

LEMMA DisownType ==
    ASSUME TypeOK, NEW m \in Modules, Disown(m)
    PROVE  /\ retry' \in [Modules -> Retries]
           /\ lateTimers' \in [Modules -> Nat] /\ lateReports' \in [Modules -> Nat]
<1>1. retry' \in [Modules -> Retries]
  BY DEF TypeOK, Disown, Retries
<1>2. lateTimers' \in [Modules -> Nat]
  BY DEF TypeOK, Disown
<1>3. lateReports' \in [Modules -> Nat]
  BY DEF TypeOK, Disown
<1> QED
  BY <1>1, <1>2, <1>3

LEMMA SeenType ==
    ASSUME TypeOK, NEW m, NEW s \in ModuleStates
    PROVE  [seen EXCEPT ![m] = s] \in [Modules -> ModuleStates]
BY DEF TypeOK

LEMMA StepType ==
    ASSUME TypeInv, [Next]_vars PROVE TypeInv'
<1> USE DEF TypeInv, OpHasModule
<1>gone. ASSUME Gone PROVE TypeInv'
  BY <1>gone, ConstantTypes DEF Gone, TypeOK, Phases, Retries, ModuleStates, TableStates
<1>1. CASE Crash
  BY <1>1, <1>gone DEF Crash
<1>2. CASE Boot
  BY <1>2 DEF Boot, TypeOK, Phases
<1>3. CASE Serve
  BY <1>3 DEF Serve, TypeOK, Phases
<1>4. CASE DropRequest
  <2>1. inst' \in [Insts -> Instance]
    <3>1. CASE op.step = "stop"
      <4>1. PICK left \in {inst[op.inst].life, "stopped"} : inst' = [inst EXCEPT ![op.inst].life = left]
        BY <1>4, <3>1 DEF DropRequest
      <4>2. CASE op.inst \in Insts
        BY <4>1, <4>2, SetLifeType DEF TypeOK, Instance, Lives
      <4>3. CASE op.inst \notin Insts
        BY <4>1, <4>3 DEF TypeOK
      <4> QED
        BY <4>2, <4>3
    <3>2. CASE op.step \in {"init", "start", "cleanup"}
      <4>1. PICK left \in {"stopped", "orphaned"} : inst' = [inst EXCEPT ![op.inst].life = left]
        BY <1>4, <3>2 DEF DropRequest
      <4> QED
        BY <4>1, SetLifeType DEF Lives
    <3>3. CASE op.step = "instantiate"
      <4>1. [Created(op.mod) EXCEPT !.life = "orphaned"] \in Instance
        BY <3>3 DEF Created, Instance, Lives, Polls
      <4> QED
        BY <1>4, <3>3, <4>1 DEF DropRequest, TypeOK
    <3> QED
      BY <1>4, <3>1, <3>2, <3>3 DEF DropRequest
  <2>2. loaded' \in [Modules -> Entry]
    <3>1. CASE loaded' = [loaded EXCEPT ![op.mod].taint = @ \union {"dropped"}]
      BY <3>1, EntryTaint, TaintType
    <3> QED
      BY <1>4, <3>1 DEF DropRequest, TypeOK
  <2> QED
    BY <1>4, <2>1, <2>2, ConstantTypes DEF DropRequest, TypeOK
<1>5. CASE ShutdownBegin
  BY <1>5 DEF ShutdownBegin, TypeOK, Phases
<1>6. CASE ShutdownLock
  BY <1>6 DEF ShutdownLock, TypeOK, Op, Kinds, Steps, Callers
<1>7. CASE Instantiate
  BY <1>7, InstanceTypes DEF Instantiate, TypeOK, Op, Steps, ModuleStates
<1>8. CASE InstantiateFails
  BY <1>8, ConstantTypes DEF InstantiateFails, ReportLater, TypeOK, Retries
<1>9. CASE StartFails
  BY <1>9 DEF StartFails, TypeOK, Op, Steps
<1>10. CASE CleanedUp
  <2>1. inst' \in [Insts -> Instance]
    BY <1>10, SetLifeType DEF CleanedUp, Lives
  <2>2. /\ retry' \in [Modules -> Retries] /\ lateReports' \in [Modules -> Nat]
        /\ seen' \in [Modules -> ModuleStates]
    BY <1>10, ReportLaterType, SeenType DEF CleanedUp, TypeOK, ModuleStates, TableStates
  <2> QED
    BY <1>10, <2>1, <2>2, ConstantTypes DEF CleanedUp, TypeOK
<1>11. ASSUME NEW ok \in BOOLEAN, InitReturns(ok) PROVE TypeInv'
  <2>1. inst' \in [Insts -> Instance]
    <3>1. CASE ok
      BY <1>11, <3>1, SetLifeType DEF InitReturns, Lives
    <3>2. CASE ~ok
      BY <1>11, <3>2, ZenonT(60) DEF InitReturns, TypeOK, Instance
    <3> QED
      BY <3>1, <3>2
  <2>2. op' \in Op /\ op'.mod = op.mod
    BY <1>11 DEF InitReturns, TypeOK, Op, Steps
  <2> QED
    BY <1>11, <2>1, <2>2 DEF InitReturns, TypeOK
<1>12. CASE LoadStarted
  <2>1. op.mod \in Modules
    BY <1>12 DEF LoadStarted
  <2>2. NewEntry(op.inst, nextSeq) \in Entry
    BY DEF NewEntry, Entry, TableStates, TypeOK, Op
  <2>3. /\ inst' \in [Insts -> Instance] /\ loaded' \in [Modules -> Entry]
        /\ seen' \in [Modules -> ModuleStates]
    BY <1>12, <2>1, <2>2, InstanceTypes, SeenType DEF LoadStarted, TypeOK, ModuleStates, TableStates
  <2>4. /\ enabled' \subseteq Modules /\ disk' \subseteq Modules /\ wanted' \subseteq Modules
        /\ saveFailed' \in BOOLEAN
    BY <1>12, <2>1 DEF LoadStarted, Add, Save, TypeOK
  <2>5. younger' \in [Modules -> SUBSET Modules]
    BY <1>12, <2>1 DEF LoadStarted, TypeOK
  <2> QED
    BY <1>12, <2>3, <2>4, <2>5, ConstantTypes DEF LoadStarted, TypeOK
<1>remove. ASSUME NEW m \in Modules, RemoveEntry(m)
           PROVE /\ loaded' \in [Modules -> Entry] /\ inst' \in [Insts -> Instance]
                 /\ seen' \in [Modules -> ModuleStates] /\ retry' \in [Modules -> Retries]
                 /\ lateTimers' \in [Modules -> Nat] /\ lateReports' \in [Modules -> Nat]
                 /\ younger' \in [Modules -> SUBSET Modules]
  <2>1. inst' \in [Insts -> Instance]
    BY <1>remove, SetLifeType DEF RemoveEntry, Lives
  <2>2. younger' \in [Modules -> SUBSET Modules]
    BY <1>remove DEF RemoveEntry, TypeOK
  <2> QED
    BY <1>remove, <2>1, <2>2, ConstantTypes, DisownType, SeenType
    DEF RemoveEntry, TypeOK, ModuleStates
<1>13. CASE Unloaded
  BY <1>13, <1>remove, ConstantTypes DEF Unloaded, Remove, Save, TypeOK
<1>14. CASE OldStopped
  <2>1. inst' \in [Insts -> Instance]
    BY <1>14, SetLifeType DEF OldStopped, Lives
  <2>2. op' \in Op /\ op'.mod = op.mod
    BY <1>14 DEF OldStopped, TypeOK, Op, Steps
  <2> QED
    BY <1>14, <2>1, <2>2 DEF OldStopped, TypeOK
<1>15. CASE RestartStarted
  <2>1. op.mod \in Modules
    BY <1>15 DEF RestartStarted
  <2>2. RestartedEntry(loaded[op.mod], op.inst) \in Entry
    <3>1. loaded[op.mod] \in Entry /\ op.inst \in Insts \union {None}
      BY <2>1 DEF TypeOK, Op
    <3> QED
      BY <3>1 DEF RestartedEntry, Entry, TableStates
  <2>3. /\ inst' \in [Insts -> Instance] /\ loaded' \in [Modules -> Entry]
    BY <1>15, <2>1, <2>2, InstanceTypes DEF RestartStarted, TypeOK
  <2>4. seen' \in [Modules -> ModuleStates]
    BY <1>15, SeenType DEF RestartStarted, ModuleStates, TableStates
  <2> QED
    BY <1>15, <2>3, <2>4, DisownType, ConstantTypes DEF RestartStarted, TypeOK
<1>16. CASE ShutdownStopped
  BY <1>16, <1>remove DEF ShutdownStopped, TypeOK, Op, Steps
<1>17. CASE ShutdownExit
  BY <1>17, <1>gone DEF ShutdownExit
<1>18. ASSUME NEW m \in Modules, ShutdownStop(m) PROVE TypeInv'
  BY <1>18, CancelType DEF ShutdownStop, TypeOK, Op, Steps, ModuleStates, Entry
<1>19. ASSUME NEW m \in Modules, NEW by \in {"client", "boot"}, LoadBegin(m, by)
       PROVE TypeInv'
  BY <1>19 DEF LoadBegin, TypeOK, Op, Kinds, Steps, Callers
<1>20. ASSUME NEW m \in Modules, UnloadBegin(m) PROVE TypeInv'
  BY <1>20, CancelType DEF UnloadBegin, TypeOK, Op, Kinds, Steps, Callers, ModuleStates, Entry
<1>21. ASSUME NEW m \in Modules, UnloadNotLoaded(m) PROVE TypeInv'
  BY <1>21 DEF UnloadNotLoaded, TypeOK
<1>22. ASSUME NEW m \in Modules, NEW by \in {"own", "late"}, RestartBegin(m, by)
       PROVE TypeInv'
  <2>1. loaded' \in [Modules -> Entry]
    <3>1. CASE UNCHANGED loaded
      BY <3>1 DEF TypeOK
    <3>2. CASE loaded' = [loaded EXCEPT ![m].taint =
                             IF by = "late" THEN @ \union {"stale"} ELSE @]
      BY <3>2, EntryTaint, TaintType
    <3> QED
      BY <1>22, <3>1, <3>2 DEF RestartBegin
  <2>2. inst' \in [Insts -> Instance]
    BY <1>22, CancelType DEF RestartBegin, TypeOK
  <2>3. op' \in Op /\ (op' = op \/ op'.mod = m)
    BY <1>22 DEF RestartBegin, TypeOK, Op, Kinds, Steps, Callers, Entry
  <2>4. retry' \in [Modules -> Retries] /\ lateTimers' \in [Modules -> Nat]
    BY <1>22 DEF RestartBegin, TypeOK, Retries
  <2> QED
    BY <1>22, <2>1, <2>2, <2>3, <2>4 DEF RestartBegin, TypeOK
<1>fail. ASSUME NEW m \in Modules, NEW own \in BOOLEAN, Fail(m, own)
         PROVE /\ loaded' \in [Modules -> Entry] /\ seen' \in [Modules -> ModuleStates]
               /\ retry' \in [Modules -> Retries] /\ lateTimers' \in [Modules -> Nat]
  <2>1. /\ FailedEntry(loaded[m], ~own) \in Entry
        /\ FailedEntry(loaded[m], ~own).state \in {"failed", "degraded"}
    <3>1. loaded[m] \in Entry /\ (~own) \in BOOLEAN
      BY DEF TypeOK
    <3> QED
      BY <3>1, FailedEntryType
  <2>2. loaded' \in [Modules -> Entry] /\ loaded'[m].state \in {"failed", "degraded"}
    BY <1>fail, <2>1 DEF Fail, TypeOK
  <2>3. seen' \in [Modules -> ModuleStates]
    BY <1>fail, <2>2 DEF Fail, TypeOK, ModuleStates, TableStates
  <2>4. retry' \in [Modules -> Retries] /\ lateTimers' \in [Modules -> Nat]
    BY <1>fail DEF Fail, Schedule, TypeOK, Retries
  <2> QED
    BY <2>2, <2>3, <2>4
<1>23. ASSUME NEW m \in Modules, NEW by \in {"own", "late"}, ReportRestartFailure(m, by)
       PROVE TypeInv'
  <2>1. (by = "own") \in BOOLEAN
    OBVIOUS
  <2>2. inst' \in [Insts -> Instance] /\ lateReports' \in [Modules -> Nat]
    BY <1>23, CancelType DEF ReportRestartFailure, TypeOK
  <2>3. /\ loaded' \in [Modules -> Entry] /\ seen' \in [Modules -> ModuleStates]
        /\ retry' \in [Modules -> Retries] /\ lateTimers' \in [Modules -> Nat]
    <3>1. CASE IsLoaded(m)
      BY <1>23, <3>1, <2>1, <1>fail DEF ReportRestartFailure
    <3>2. CASE ~IsLoaded(m)
      BY <1>23, <3>2 DEF ReportRestartFailure, TypeOK
    <3> QED
      BY <3>1, <3>2
  <2> QED
    BY <1>23, <2>2, <2>3 DEF ReportRestartFailure, TypeOK
<1>24. ASSUME NEW m \in Modules, RestartAbandoned(m) PROVE TypeInv'
  BY <1>24 DEF RestartAbandoned, TypeOK, Retries
<1>25. ASSUME NEW m \in Modules, StabilityElapses(m) PROVE TypeInv'
  <2>1. loaded' \in [Modules -> Entry]
    BY <1>25, StableType DEF StabilityElapses
  <2> QED
    BY <1>25, <2>1 DEF StabilityElapses, TypeOK
<1>26. ASSUME NEW i \in Insts, PollTick(i) PROVE TypeInv'
  BY <1>26, SMTT(30) DEF PollTick, TypeOK, Instance, Polls
<1>27. ASSUME NEW i \in Insts, PollExit(i) PROVE TypeInv'
  BY <1>27 DEF PollExit, TypeOK, Instance, Polls
<1>28. ASSUME NEW i \in Insts, NEW level \in {"healthy", "degraded", "unhealthy"},
              NEW m \in Modules, ProbeApply(m, i, level)
       PROVE TypeInv'
  <2>2. inst' \in [Insts -> Instance]
    <3>1. AfterProbe(inst[i]) \in Instance
      BY AfterProbeType DEF TypeOK
    <3>2. LET c == Cancel(loaded[m].inst) IN [c EXCEPT ![i] = AfterProbe(@)] \in [Insts -> Instance]
      BY CancelType, AfterProbeType
    <3> QED
      BY <1>28, <3>1, <3>2 DEF ProbeApply, TypeOK
  <2>3. /\ loaded' \in [Modules -> Entry] /\ seen' \in [Modules -> ModuleStates]
        /\ retry' \in [Modules -> Retries] /\ lateTimers' \in [Modules -> Nat]
    <3>1. CASE \E s \in {"running", "degraded"} : SetState(m, s, i) /\ UNCHANGED <<retry, lateTimers>>
      <4>1. PICK s \in {"running", "degraded"} : SetState(m, s, i) /\ UNCHANGED <<retry, lateTimers>>
        BY <3>1
      <4>2. s \in TableStates /\ s \in ModuleStates
        BY DEF TableStates, ModuleStates
      <4>3. loaded' \in [Modules -> Entry]
        BY <4>1, <4>2, SetStateType
      <4> QED
        BY <4>1, <4>2, <4>3, SeenType DEF SetState, TypeOK
    <3>2. CASE IsLoaded(m) /\ m \in Modules /\ Fail(m, loaded[m].inst = i)
      <4>1. (loaded[m].inst = i) \in BOOLEAN
        OBVIOUS
      <4> QED
        BY <3>2, <4>1, <1>fail
    <3>3. CASE UNCHANGED <<loaded, seen, retry, lateTimers>>
      BY <3>3 DEF TypeOK
    <3> QED
      BY <1>28, <3>1, <3>2, <3>3 DEF ProbeApply
  <2> QED
    BY <1>28, <2>2, <2>3 DEF ProbeApply, TypeOK
<1>29. CASE UNCHANGED vars
  BY <1>29 DEF vars, TypeOK
<1> QED
  BY <1>1, <1>2, <1>3, <1>4, <1>5, <1>6, <1>7, <1>8, <1>9, <1>10, <1>11, <1>12,
     <1>13, <1>14, <1>15, <1>16, <1>17, <1>18, <1>19, <1>20, <1>21, <1>22,
     <1>23, <1>24, <1>25, <1>26, <1>27, <1>28, <1>29
  DEF Next, LockedStep

LEMMA InitTypes == Init => TypeInv
<1>1. Init => op \in Op /\ OpHasModule
  BY ConstantTypes DEF Init, OpHasModule
<1>2. Init => /\ loaded \in [Modules -> Entry] /\ inst \in [Insts -> Instance]
              /\ younger \in [Modules -> SUBSET Modules]
  BY ConstantTypes DEF Init
<1>3. Init => /\ enabled \subseteq Modules /\ disk \subseteq Modules
              /\ todo \subseteq Modules /\ wanted \subseteq Modules
  BY DEF Init
<1>4. Init => /\ phase \in Phases /\ retry \in [Modules -> Retries]
              /\ seen \in [Modules -> ModuleStates]
  BY DEF Init, Phases, Retries, ModuleStates, TableStates
<1>5. Init => nextSeq \in Nat
  BY DEF Init
<1>7. Init => saveFailed \in BOOLEAN
  BY Zenon DEF Init
<1>6. Init => /\ lateTimers \in [Modules -> Nat]
              /\ lateReports \in [Modules -> Nat]
  BY DEF Init
<1> QED
  BY <1>1, <1>2, <1>3, <1>4, <1>5, <1>6, <1>7 DEF TypeInv, TypeOK

\* Every variable stays in its value set, and a critical section always works
\* on a module of the table's domain.
THEOREM TypeCorrect == Spec => []TypeOK
<1>1. Init => TypeInv
  BY InitTypes
<1>2. TypeInv /\ [Next]_vars => TypeInv'
  BY StepType
<1>3. TypeInv => TypeOK
  BY DEF TypeInv
<1> QED
  BY <1>1, <1>2, <1>3, PTL DEF Spec

-----------------------------------------------------------------------------
(* Who owns an instance *)

\* A table entry holds an instance of its own module.
TableShape ==
    \A m \in Modules :
        IF IsLoaded(m)
        THEN loaded[m].inst \in Insts /\ inst[loaded[m].inst].mod = m
        ELSE loaded[m].inst = None

\* Where each critical section is, and which instance it works on: the
\* table's (stop), or one that is in no entry (init, start, cleanup).  Past
\* its stop, a restart has left a stopped instance in the table.
OpShape ==
    /\ op.kind = "idle" => op.step = "none"
    /\ op.kind = "load" => /\ op.step \in {"instantiate", "init", "start", "cleanup"}
                           /\ ~IsLoaded(op.mod)
    /\ op.kind = "unload" => op.step = "stop"
    /\ op.kind = "restart" =>
          /\ op.step \in {"stop", "instantiate", "init", "start", "cleanup"}
          /\ IsLoaded(op.mod)
          /\ op.step # "stop" => inst[loaded[op.mod].inst].life = "stopped"
    /\ op.kind = "shutdown" => op.step \in {"next", "stop"}
    /\ op.step = "stop" => IsLoaded(op.mod) /\ op.inst = loaded[op.mod].inst
    /\ op.step \in {"init", "start", "cleanup"} =>
          /\ op.inst \in Insts /\ inst[op.inst].mod = op.mod
          /\ \A m \in Modules : loaded[m].inst # op.inst
    /\ op.step \in {"none", "instantiate", "next"} => op.inst = None

\* An instance that may be working is in the table or held by the critical
\* section in progress.
WorkingIsOwned ==
    \A i \in Insts : Working(i) =>
        /\ inst[i].mod \in Modules
        /\ \/ loaded[inst[i].mod].inst = i
           \/ op.inst = i /\ op.mod = inst[i].mod

\* Only a dropped request leaves an instance to nobody.
OrphansNeedDrops == ~ClientsVanish => \A i \in Insts : inst[i].life # "orphaned"

OwnInv == TypeInv /\ TableShape /\ OpShape /\ WorkingIsOwned /\ OrphansNeedDrops

OwnParts == TableShape /\ OpShape /\ WorkingIsOwned /\ OrphansNeedDrops

\* What most steps leave alone.
SameLives == \A i \in Insts : inst'[i].mod = inst[i].mod /\ inst'[i].life = inst[i].life

SameTable == \A m \in Modules : /\ loaded'[m].inst = loaded[m].inst
                                /\ loaded'[m].state = "disabled" <=> loaded[m].state = "disabled"

LEMMA Frame ==
    ASSUME OwnInv, op' = op, SameLives, SameTable PROVE OwnParts'
<1> USE DEF OwnInv, SameLives, SameTable
<1>1. \A m \in Modules : loaded[m].inst \in Insts \union {None}
  BY DEF TypeInv, TypeOK, Entry
<1>2. TableShape'
  BY <1>1 DEF TableShape, IsLoaded
<1>3. OpShape'
  BY <1>1 DEF OpShape, IsLoaded, TableShape, TypeInv, OpHasModule
<1>4. WorkingIsOwned'
  BY DEF WorkingIsOwned, Working
<1>5. OrphansNeedDrops'
  BY DEF OrphansNeedDrops
<1> QED
  BY <1>2, <1>3, <1>4, <1>5 DEF OwnParts

LEMMA CancelKeeps ==
    ASSUME TypeOK, NEW i, inst' = Cancel(i) PROVE SameLives
BY DEF TypeOK, Cancel, Instance, SameLives

LEMMA FailKeeps ==
    ASSUME TypeOK, NEW m \in Modules, NEW own \in BOOLEAN, IsLoaded(m), Fail(m, own)
    PROVE  SameTable
<1>1. loaded[m] \in Entry /\ (~own) \in BOOLEAN
  BY DEF TypeOK
<1>2. FailedEntry(loaded[m], ~own).state # "disabled"
  BY <1>1, FailedEntryType
<1>3. FailedEntry(loaded[m], ~own).inst = loaded[m].inst
  BY <1>1 DEF FailedEntry, Entry
<1> QED
  BY <1>2, <1>3 DEF Fail, TypeOK, SameTable, IsLoaded

LEMMA SetStateKeeps ==
    ASSUME TypeOK, NEW m \in Modules, NEW i, NEW s \in {"running", "degraded"},
           IsLoaded(m), SetState(m, s, i)
    PROVE  SameTable
<1> DEFINE t == IF loaded[m].inst = i THEN loaded[m].taint
                                      ELSE loaded[m].taint \union {"stale"}
<1>1. loaded' = [loaded EXCEPT ![m] = [loaded[m] EXCEPT !.state = s, !.taint = t]]
  BY DEF SetState, TypeOK
<1>2. loaded[m] \in Entry
  BY DEF TypeOK
<1>3. [loaded[m] EXCEPT !.state = s, !.taint = t].state = s
  BY <1>2 DEF Entry
<1>4. [loaded[m] EXCEPT !.state = s, !.taint = t].inst = loaded[m].inst
  BY <1>2 DEF Entry
<1> QED
  BY <1>1, <1>3, <1>4 DEF TypeOK, SameTable, IsLoaded

LEMMA ProbeKeeps ==
    ASSUME TypeOK, NEW m \in Modules, NEW i \in Insts,
           NEW level \in {"healthy", "degraded", "unhealthy"}, ProbeApply(m, i, level)
    PROVE  SameLives /\ SameTable
<1>1. \A r \in Instance : AfterProbe(r).mod = r.mod /\ AfterProbe(r).life = r.life
  BY DEF AfterProbe, Instance
<1>2. SameLives
  <2>1. CASE inst' = [inst EXCEPT ![i] = AfterProbe(@)]
    BY <1>1, <2>1 DEF TypeOK, SameLives
  <2>2. CASE inst' = LET c == Cancel(loaded[m].inst) IN [c EXCEPT ![i] = AfterProbe(@)]
    <3> DEFINE c == Cancel(loaded[m].inst)
    <3>1. c \in [Insts -> Instance]
      BY CancelType
    <3>2. \A j \in Insts : c[j].mod = inst[j].mod /\ c[j].life = inst[j].life
      BY DEF Cancel, TypeOK, Instance
    <3> HIDE DEF c
    <3>3. inst' = [c EXCEPT ![i] = AfterProbe(@)]
      BY <2>2 DEF c
    <3> QED
      BY <1>1, <3>1, <3>2, <3>3 DEF SameLives
  <2> QED
    BY <2>1, <2>2 DEF ProbeApply
<1>3. SameTable
  <2>1. CASE \E s \in {"running", "degraded"} : IsLoaded(m) /\ SetState(m, s, i)
    BY <2>1, SetStateKeeps
  <2>2. CASE IsLoaded(m) /\ Fail(m, loaded[m].inst = i)
    <3>1. (loaded[m].inst = i) \in BOOLEAN
      OBVIOUS
    <3> QED
      BY <2>2, <3>1, FailKeeps
  <2>3. CASE UNCHANGED loaded
    BY <2>3 DEF SameTable
  <2> QED
    BY <2>1, <2>2, <2>3 DEF ProbeApply, IsLoaded
<1> QED
  BY <1>2, <1>3

LEMMA OwnGone ==
    ASSUME Gone PROVE OwnParts'
<1>1. /\ op'.kind = "idle" /\ op'.step = "none" /\ op'.inst = None
      /\ \A m \in Modules : loaded'[m].state = "disabled" /\ loaded'[m].inst = None
      /\ \A i \in Insts : inst'[i].life = "free"
  BY DEF Gone, Idle, Absent, FreeInst
<1> QED
  BY <1>1 DEF OwnParts, TableShape, OpShape, WorkingIsOwned, Working, OrphansNeedDrops, IsLoaded

\* Steps that begin a critical section.
LEMMA OwnBegin ==
    ASSUME OwnInv, op = Idle, SameLives, SameTable, NEW m \in Modules,
           op' \in Op, op'.mod = m,
           \/ op'.kind = "load" /\ op'.step = "instantiate" /\ op'.inst = None /\ ~IsLoaded(m)
           \/ op'.kind \in {"unload", "restart"} /\ op'.step = "stop" /\ IsLoaded(m)
              /\ op'.inst = loaded[m].inst
    PROVE  OwnParts'
<1> USE DEF OwnInv, SameLives, SameTable
<1>1. op.inst = None
  BY DEF Idle
<1>2. TableShape'
  BY DEF TableShape, IsLoaded
<1>3. OpShape'
  BY DEF OpShape, IsLoaded
<1>4. WorkingIsOwned'
  BY <1>1, NoneAssumption DEF WorkingIsOwned, Working
<1>5. OrphansNeedDrops'
  BY DEF OrphansNeedDrops
<1> QED
  BY <1>2, <1>3, <1>4, <1>5 DEF OwnParts

\* Steps that end one, the instance it worked on being settled.
LEMMA OwnEnd ==
    ASSUME OwnInv, op' = Idle, SameTable,
           \A i \in Insts : inst'[i].mod = inst[i].mod,
           \A i \in Insts : inst'[i].life = inst[i].life \/ inst'[i].life = "stopped"
                            \/ (ClientsVanish /\ inst'[i].life = "orphaned"),
           \A i \in Insts : op.inst = i /\ loaded[op.mod].inst # i =>
                                inst'[i].life \notin {"created", "inited", "started"}
    PROVE  OwnParts'
<1> USE DEF OwnInv, SameTable
<1>1. op'.kind = "idle" /\ op'.step = "none" /\ op'.inst = None
  BY DEF Idle
<1>2. TableShape'
  BY DEF TableShape, IsLoaded
<1>3. OpShape'
  BY <1>1 DEF OpShape
<1>4. WorkingIsOwned'
  BY DEF WorkingIsOwned, Working
<1>5. OrphansNeedDrops'
  BY DEF OrphansNeedDrops
<1> QED
  BY <1>2, <1>3, <1>4, <1>5 DEF OwnParts

LEMMA OwnInstantiate ==
    ASSUME OwnInv, Instantiate PROVE OwnParts'
<1> USE DEF OwnInv
<1>1. PICK i \in Insts : /\ Unused(i)
                         /\ inst' = [inst EXCEPT ![i] = Created(op.mod)]
                         /\ op' = [op EXCEPT !.step = "init", !.inst = i]
  BY DEF Instantiate
<1>2. op.step = "instantiate" /\ loaded' = loaded /\ op.mod \in Modules /\ op.inst = None
  BY DEF Instantiate, TypeInv, OpHasModule, OpShape
<1>3. op'.step = "init" /\ op'.inst = i /\ op'.kind = op.kind /\ op'.mod = op.mod
  BY <1>1 DEF TypeInv, TypeOK, Op
<1>4. /\ inst'[i].mod = op.mod /\ inst'[i].life = "created"
      /\ \A j \in Insts : j # i => inst'[j] = inst[j]
  BY <1>1 DEF TypeInv, TypeOK, Created
<1>5. \A m \in Modules : loaded[m].inst # i
  BY <1>1 DEF Unused
<1>6. TableShape'
  BY <1>2, <1>4, <1>5 DEF TableShape, IsLoaded
<1>7. OpShape'
  BY <1>2, <1>3, <1>4, <1>5 DEF OpShape, IsLoaded, TableShape
<1>8. WorkingIsOwned'
  BY <1>2, <1>3, <1>4, NoneAssumption DEF WorkingIsOwned, Working
<1>9. OrphansNeedDrops'
  BY <1>4 DEF OrphansNeedDrops
<1> QED
  BY <1>6, <1>7, <1>8, <1>9 DEF OwnParts

\* init returned, or start failed: the instance goes on to its next step.
LEMMA OwnMiddle ==
    ASSUME OwnInv, op.step \in {"init", "start"}, op' \in Op, op'.kind = op.kind,
           op'.mod = op.mod, op'.inst = op.inst, op'.step \in {"start", "cleanup"},
           loaded' = loaded,
           \A i \in Insts : /\ inst'[i].mod = inst[i].mod
                            /\ \/ inst'[i].life = inst[i].life
                               \/ i = op.inst /\ inst'[i].life = "inited"
    PROVE  OwnParts'
<1> USE DEF OwnInv
<1>1. op.mod \in Modules
  BY DEF TypeInv, OpHasModule
<1>2. TableShape'
  BY DEF TableShape, IsLoaded
<1>3. OpShape'
  BY <1>1 DEF OpShape, IsLoaded, TableShape
<1>4. WorkingIsOwned'
  BY <1>1 DEF WorkingIsOwned, Working, OpShape
<1>5. OrphansNeedDrops'
  BY DEF OrphansNeedDrops
<1> QED
  BY <1>2, <1>3, <1>4, <1>5 DEF OwnParts

\* The started instance enters the table, in place of a stopped one or none.
LEMMA OwnStarted ==
    ASSUME OwnInv, LoadStarted \/ RestartStarted PROVE OwnParts'
<1> USE DEF OwnInv
<1>1. /\ op.step = "start" /\ op' = Idle /\ op.mod \in Modules /\ op.inst \in Insts
      /\ op.kind \in {"load", "restart"}
  BY DEF LoadStarted, RestartStarted, TypeInv, OpHasModule, OpShape
<1>2. /\ inst'[op.inst].mod = op.mod /\ inst'[op.inst].life = "started"
      /\ \A j \in Insts : j # op.inst => inst'[j] = inst[j]
  BY <1>1 DEF LoadStarted, RestartStarted, TypeInv, TypeOK, Started
<1>3. /\ loaded'[op.mod].inst = op.inst /\ loaded'[op.mod].state = "running"
      /\ \A m \in Modules : m # op.mod => loaded'[m] = loaded[m]
  <2>1. CASE LoadStarted
    BY <1>1, <2>1 DEF LoadStarted, NewEntry, TypeInv, TypeOK
  <2>2. CASE RestartStarted
    <3>1. loaded[op.mod] \in Entry
      BY <1>1 DEF TypeInv, TypeOK
    <3>2. /\ RestartedEntry(loaded[op.mod], op.inst).inst = op.inst
          /\ RestartedEntry(loaded[op.mod], op.inst).state = "running"
      BY <3>1 DEF RestartedEntry, Entry
    <3> QED
      BY <1>1, <2>2, <3>2 DEF RestartStarted, TypeInv, TypeOK
  <2> QED
    BY <2>1, <2>2
<1>4. op'.kind = "idle" /\ op'.step = "none" /\ op'.inst = None
  BY <1>1 DEF Idle
<1>5. \A m \in Modules : loaded[m].inst # op.inst
  BY <1>1 DEF OpShape
<1>6. TableShape'
  BY <1>1, <1>2, <1>3, <1>5 DEF TableShape, IsLoaded
<1>7. OpShape'
  BY <1>4 DEF OpShape
<1>8. \A j \in Insts : Working(j) /\ j # op.inst /\ inst[j].mod = op.mod => FALSE
  BY <1>1, NoneAssumption DEF WorkingIsOwned, Working, OpShape, TableShape
<1>9. WorkingIsOwned'
  BY <1>1, <1>2, <1>3, <1>8 DEF WorkingIsOwned, Working
<1>10. OrphansNeedDrops'
  BY <1>2 DEF OrphansNeedDrops
<1> QED
  BY <1>6, <1>7, <1>9, <1>10 DEF OwnParts

\* stop_locked is done: instance stopped, entry gone.
LEMMA OwnRemoved ==
    ASSUME OwnInv, op.step = "stop", op.kind \in {"unload", "shutdown"}, RemoveEntry(op.mod),
           op' \in Op, op'.inst = None,
           \/ op'.kind = "idle" /\ op'.step = "none"
           \/ op'.kind = "shutdown" /\ op'.step = "next"
    PROVE  OwnParts'
<1> USE DEF OwnInv
<1>1. op.mod \in Modules /\ IsLoaded(op.mod) /\ op.inst = loaded[op.mod].inst
  BY DEF TypeInv, OpHasModule, OpShape
<1>2. op.inst \in Insts /\ inst[op.inst].mod = op.mod
  BY <1>1 DEF TableShape
<1>3. /\ \A j \in Insts : inst'[j].mod = inst[j].mod
      /\ \A j \in Insts : j # op.inst => inst'[j].life = inst[j].life
      /\ inst'[op.inst].life = "stopped"
  BY <1>1, <1>2 DEF RemoveEntry, TypeInv, TypeOK, Instance
<1>4. /\ loaded'[op.mod].state = "disabled" /\ loaded'[op.mod].inst = None
      /\ \A m \in Modules : m # op.mod => loaded'[m] = loaded[m]
  BY <1>1 DEF RemoveEntry, TypeInv, TypeOK, Absent
<1>5. TableShape'
  BY <1>3, <1>4 DEF TableShape, IsLoaded
<1>6. OpShape'
  BY DEF OpShape
<1>7. WorkingIsOwned'
  BY <1>1, <1>3, <1>4 DEF WorkingIsOwned, Working
<1>8. OrphansNeedDrops'
  BY <1>3 DEF OrphansNeedDrops
<1> QED
  BY <1>5, <1>6, <1>7, <1>8 DEF OwnParts

LEMMA OwnOldStopped ==
    ASSUME OwnInv, OldStopped PROVE OwnParts'
<1> USE DEF OwnInv
<1>1. /\ op.kind = "restart" /\ op.step = "stop" /\ loaded' = loaded
      /\ op.mod \in Modules /\ IsLoaded(op.mod) /\ op.inst = loaded[op.mod].inst
  BY DEF OldStopped, TypeInv, OpHasModule, OpShape
<1>2. op.inst \in Insts /\ inst[op.inst].mod = op.mod
  BY <1>1 DEF TableShape
<1>3. /\ \A j \in Insts : inst'[j].mod = inst[j].mod
      /\ \A j \in Insts : j # op.inst => inst'[j].life = inst[j].life
      /\ inst'[op.inst].life = "stopped"
  BY <1>1, <1>2 DEF OldStopped, TypeInv, TypeOK, Instance
<1>4. op'.kind = "restart" /\ op'.step = "instantiate" /\ op'.inst = None /\ op'.mod = op.mod
  BY <1>1 DEF OldStopped, TypeInv, TypeOK, Op
<1>5. TableShape'
  BY <1>1, <1>3 DEF TableShape, IsLoaded
<1>6. OpShape'
  BY <1>1, <1>3, <1>4 DEF OpShape, IsLoaded
<1>7. WorkingIsOwned'
  BY <1>1, <1>3 DEF WorkingIsOwned, Working
<1>8. OrphansNeedDrops'
  BY <1>3 DEF OrphansNeedDrops
<1> QED
  BY <1>5, <1>6, <1>7, <1>8 DEF OwnParts

\* shutdown takes the lock, or turns to its next module.
LEMMA OwnShutdown ==
    ASSUME OwnInv, ShutdownLock \/ \E m \in Modules : ShutdownStop(m) PROVE OwnParts'
<1> USE DEF OwnInv
<1>1. loaded' = loaded /\ op.inst = None
  <2>1. CASE ShutdownLock
    BY <2>1 DEF ShutdownLock, Idle
  <2>2. CASE \E m \in Modules : ShutdownStop(m)
    BY <2>2 DEF ShutdownStop, OpShape
  <2> QED
    BY <2>1, <2>2
<1>2. SameLives
  BY CancelKeeps DEF ShutdownLock, ShutdownStop, TypeInv, SameLives
<1>3. \/ op'.kind = "shutdown" /\ op'.step = "next" /\ op'.inst = None
      \/ /\ op'.kind = "shutdown" /\ op'.step = "stop"
         /\ IsLoaded(op'.mod) /\ op'.inst = loaded[op'.mod].inst
  <2>1. CASE ShutdownLock
    BY <2>1 DEF ShutdownLock
  <2>2. CASE \E m \in Modules : ShutdownStop(m)
    <3>1. PICK m \in Modules : ShutdownStop(m)
      BY <2>2
    <3>2. /\ op'.kind = op.kind /\ op'.step = "stop" /\ op'.mod = m
          /\ op'.inst = loaded[m].inst
      BY <3>1 DEF ShutdownStop, TypeInv, TypeOK, Op
    <3> QED
      BY <3>1, <3>2 DEF ShutdownStop
  <2> QED
    BY <2>1, <2>2
<1>4. TableShape'
  BY <1>1, <1>2 DEF TableShape, IsLoaded, SameLives
<1>5. OpShape'
  BY <1>1, <1>3 DEF OpShape, IsLoaded
<1>6. WorkingIsOwned'
  BY <1>1, <1>2, NoneAssumption DEF WorkingIsOwned, Working, SameLives
<1>7. OrphansNeedDrops'
  BY <1>2 DEF OrphansNeedDrops, SameLives
<1> QED
  BY <1>4, <1>5, <1>6, <1>7 DEF OwnParts

LEMMA OwnCleanedUp ==
    ASSUME OwnInv, CleanedUp PROVE OwnParts'
<1>1. op' = Idle /\ SameTable
  BY DEF CleanedUp, SameTable
<1>2. \A j \in Insts : /\ inst'[j].mod = inst[j].mod
                       /\ inst'[j].life = IF j = op.inst THEN "stopped" ELSE inst[j].life
  BY DEF CleanedUp, OwnInv, TypeInv, TypeOK, Instance
<1> QED
  BY <1>1, <1>2, OwnEnd

LEMMA OwnInstantiateFails ==
    ASSUME OwnInv, InstantiateFails PROVE OwnParts'
<1>1. op' = Idle /\ SameTable /\ inst' = inst
  BY DEF InstantiateFails, SameTable
<1>2. op.inst = None
  BY DEF InstantiateFails, OwnInv, OpShape
<1> QED
  BY <1>1, <1>2, OwnEnd, NoneAssumption

\* A request dropped before its instance exists.
LEMMA OwnDropEarly ==
    ASSUME OwnInv, DropRequest, op.step = "instantiate" PROVE OwnParts'
<1> USE DEF OwnInv
<1>1. op' = Idle /\ loaded' = loaded /\ ClientsVanish /\ op.inst = None
  BY DEF DropRequest, OpShape
<1>2. op'.kind = "idle" /\ op'.step = "none" /\ op'.inst = None
  BY <1>1 DEF Idle
<1>3. CASE inst' = inst
  <2>1. SameTable
    BY <1>1 DEF SameTable
  <2> QED
    BY <1>1, <1>3, <2>1, OwnEnd, NoneAssumption
<1>4. CASE \E i \in Insts : /\ Unused(i)
                            /\ inst' = [inst EXCEPT
                                  ![i] = [Created(op.mod) EXCEPT !.life = "orphaned"]]
  <2>1. PICK i \in Insts : /\ Unused(i)
                           /\ inst' = [inst EXCEPT
                                 ![i] = [Created(op.mod) EXCEPT !.life = "orphaned"]]
    BY <1>4
  <2>2. inst'[i].life = "orphaned" /\ \A j \in Insts : j # i => inst'[j] = inst[j]
    BY <2>1 DEF TypeInv, TypeOK, Created
  <2>3. \A m \in Modules : loaded[m].inst # i
    BY <2>1 DEF Unused
  <2>4. TableShape'
    BY <1>1, <2>2, <2>3 DEF TableShape, IsLoaded
  <2>5. WorkingIsOwned'
    BY <1>1, <2>2, NoneAssumption DEF WorkingIsOwned, Working
  <2>6. OpShape'
    BY <1>2 DEF OpShape
  <2> QED
    BY <1>1, <2>4, <2>5, <2>6 DEF OwnParts, OrphansNeedDrops
<1> QED
  BY <1>3, <1>4 DEF DropRequest

LEMMA OwnDrop ==
    ASSUME OwnInv, DropRequest PROVE OwnParts'
<1>1. CASE op.step = "instantiate"
  BY <1>1, OwnDropEarly
<1>2. CASE op.step \in {"init", "start", "cleanup"}
  <2>1. PICK left \in {"stopped", "orphaned"} : inst' = [inst EXCEPT ![op.inst].life = left]
    BY <1>2 DEF DropRequest
  <2>2. \A j \in Insts : /\ inst'[j].mod = inst[j].mod
                         /\ inst'[j].life = IF j = op.inst THEN left ELSE inst[j].life
    BY <2>1 DEF OwnInv, TypeInv, TypeOK, Instance
  <2>3. op' = Idle /\ SameTable /\ ClientsVanish
    BY <1>2 DEF DropRequest, SameTable
  <2> QED
    BY <2>2, <2>3, OwnEnd
<1>3. CASE op.step = "stop"
  <2>1. PICK left \in {inst[op.inst].life, "stopped"} : inst' = [inst EXCEPT ![op.inst].life = left]
    BY <1>3 DEF DropRequest
  <2>2. \A j \in Insts : /\ inst'[j].mod = inst[j].mod
                         /\ inst'[j].life = IF j = op.inst THEN left ELSE inst[j].life
    BY <2>1 DEF OwnInv, TypeInv, TypeOK, Instance
  <2>3. SameTable
    BY <1>3 DEF DropRequest, SameTable, OwnInv, TypeInv, TypeOK, Entry
  <2>4. op' = Idle /\ op.inst = loaded[op.mod].inst
    BY <1>3 DEF DropRequest, OwnInv, OpShape
  <2> QED
    BY <2>2, <2>3, <2>4, OwnEnd
<1> QED
  BY <1>1, <1>2, <1>3 DEF DropRequest

LEMMA OwnStep ==
    ASSUME OwnInv, [Next]_vars PROVE OwnInv'
<1> SUFFICES OwnParts'
  BY StepType DEF OwnInv, OwnParts
<1>t. TypeInv /\ TypeOK /\ TypeOK'
  BY StepType DEF OwnInv, TypeInv
<1>op. op' \in Op
  BY <1>t DEF TypeOK
<1>1. CASE Crash \/ ShutdownExit
  BY <1>1, OwnGone DEF Crash, ShutdownExit
<1>2. CASE Boot \/ Serve \/ ShutdownBegin \/ UNCHANGED vars
  BY <1>2, Frame DEF Boot, Serve, ShutdownBegin, vars, SameLives, SameTable
<1>3. CASE DropRequest
  BY <1>3, OwnDrop
<1>4. CASE ShutdownLock \/ \E m \in Modules : ShutdownStop(m)
  BY <1>4, OwnShutdown
<1>5. CASE Instantiate
  BY <1>5, OwnInstantiate
<1>6. CASE InstantiateFails
  BY <1>6, OwnInstantiateFails
<1>7. CASE StartFails
  <2>1. /\ op.step = "start" /\ op'.kind = op.kind /\ op'.mod = op.mod /\ op'.inst = op.inst
        /\ op'.step = "cleanup" /\ loaded' = loaded /\ inst' = inst
    BY <1>7, <1>t DEF StartFails, TypeOK, Op
  <2> QED
    BY <2>1, <1>op, OwnMiddle
<1>8. CASE CleanedUp
  BY <1>8, OwnCleanedUp
<1>9. ASSUME NEW ok \in BOOLEAN, InitReturns(ok) PROVE OwnParts'
  <2>1. /\ op.step = "init" /\ op'.kind = op.kind /\ op'.mod = op.mod /\ op'.inst = op.inst
        /\ op'.step \in {"start", "cleanup"} /\ loaded' = loaded
    BY <1>9, <1>t DEF InitReturns, TypeOK, Op
  <2>2. \A i \in Insts : /\ inst'[i].mod = inst[i].mod
                         /\ \/ inst'[i].life = inst[i].life
                            \/ i = op.inst /\ inst'[i].life = "inited"
    BY <1>9, <1>t DEF InitReturns, TypeOK, Instance
  <2> QED
    BY <2>1, <2>2, <1>op, OwnMiddle
<1>10. CASE LoadStarted \/ RestartStarted
  BY <1>10, OwnStarted
<1>11. CASE Unloaded
  <2>1. op.step = "stop" /\ op' = Idle /\ RemoveEntry(op.mod) /\ op.kind = "unload"
    BY <1>11 DEF Unloaded, OwnInv, OpShape
  <2>2. op'.kind = "idle" /\ op'.step = "none" /\ op'.inst = None
    BY <2>1 DEF Idle
  <2> QED
    BY <2>1, <2>2, <1>op, OwnRemoved
<1>12. CASE ShutdownStopped
  <2>1. op'.kind = "shutdown" /\ op'.step = "next" /\ op'.inst = None
    BY <1>12, <1>t DEF ShutdownStopped, TypeOK, Op
  <2> QED
    BY <1>12, <2>1, <1>op, OwnRemoved DEF ShutdownStopped
<1>13. CASE OldStopped
  BY <1>13, OwnOldStopped
<1>14. ASSUME NEW m \in Modules, NEW by \in {"client", "boot"}, LoadBegin(m, by)
       PROVE OwnParts'
  BY <1>14, <1>op, OwnBegin DEF LoadBegin, SameLives, SameTable
<1>15. ASSUME NEW m \in Modules, UnloadBegin(m) PROVE OwnParts'
  <2>1. SameLives /\ SameTable
    BY <1>15, <1>t, CancelKeeps DEF UnloadBegin, SameTable
  <2> QED
    BY <1>15, <2>1, <1>op, OwnBegin DEF UnloadBegin
<1>16. ASSUME NEW m \in Modules, NEW by \in {"own", "late"}, RestartBegin(m, by)
       PROVE OwnParts'
  <2>1. CASE IsLoaded(m)
    <3>1. SameLives
      BY <1>16, <2>1, <1>t, CancelKeeps DEF RestartBegin
    <3>2. SameTable
      BY <1>16, <2>1, <1>t DEF RestartBegin, SameTable, TypeOK, Entry
    <3> QED
      BY <1>16, <2>1, <3>1, <3>2, <1>op, OwnBegin DEF RestartBegin
  <2>2. CASE ~IsLoaded(m)
    BY <1>16, <2>2, Frame DEF RestartBegin, SameLives, SameTable
  <2> QED
    BY <2>1, <2>2
<1>17. ASSUME NEW m \in Modules, NEW by \in {"own", "late"}, ReportRestartFailure(m, by)
       PROVE OwnParts'
  <2>1. (by = "own") \in BOOLEAN
    OBVIOUS
  <2>2. CASE IsLoaded(m)
    <3>1. SameLives /\ SameTable
      BY <1>17, <2>1, <2>2, <1>t, CancelKeeps, FailKeeps DEF ReportRestartFailure
    <3> QED
      BY <1>17, <3>1, Frame DEF ReportRestartFailure
  <2>3. CASE ~IsLoaded(m)
    BY <1>17, <2>3, Frame DEF ReportRestartFailure, SameLives, SameTable
  <2> QED
    BY <2>2, <2>3
<1>18. ASSUME NEW m \in Modules, RestartAbandoned(m) \/ UnloadNotLoaded(m) PROVE OwnParts'
  BY <1>18, Frame DEF RestartAbandoned, UnloadNotLoaded, SameLives, SameTable
<1>19. ASSUME NEW m \in Modules, StabilityElapses(m) PROVE OwnParts'
  <2>1. SameTable
    BY <1>19, <1>t DEF StabilityElapses, SameTable, TypeOK, Entry
  <2> QED
    BY <1>19, <2>1, Frame DEF StabilityElapses, SameLives
<1>20. ASSUME NEW i \in Insts, PollTick(i) \/ PollExit(i) PROVE OwnParts'
  <2>1. SameLives
    BY <1>20, <1>t DEF PollTick, PollExit, SameLives, TypeOK, Instance
  <2> QED
    BY <1>20, <2>1, Frame DEF PollTick, PollExit, SameTable
<1>21. ASSUME NEW i \in Insts, NEW level \in {"healthy", "degraded", "unhealthy"},
              NEW m \in Modules, ProbeApply(m, i, level)
       PROVE OwnParts'
  BY <1>21, <1>t, ProbeKeeps, Frame DEF ProbeApply
<1> QED
  BY <1>1, <1>2, <1>3, <1>4, <1>5, <1>6, <1>7, <1>8, <1>9, <1>10, <1>11, <1>12,
     <1>13, <1>14, <1>15, <1>16, <1>17, <1>18, <1>19, <1>20, <1>21
  DEF Next, LockedStep


LEMMA OwnInvariant == Spec => []OwnInv
<1>1. Init => OwnInv
  <2> SUFFICES ASSUME Init PROVE OwnInv
    OBVIOUS
  <2>1. /\ op.kind = "idle" /\ op.step = "none" /\ op.inst = None
        /\ \A m \in Modules : loaded[m].state = "disabled" /\ loaded[m].inst = None
        /\ \A i \in Insts : inst[i].life = "free"
    BY DEF Init, Idle, Absent, FreeInst
  <2>2. TableShape /\ OpShape /\ WorkingIsOwned /\ OrphansNeedDrops
    BY <2>1 DEF TableShape, OpShape, WorkingIsOwned, Working, OrphansNeedDrops, IsLoaded
  <2> QED
    BY <2>2, InitTypes DEF OwnInv
<1>2. OwnInv /\ [Next]_vars => OwnInv'
  BY OwnStep
<1> QED
  BY <1>1, <1>2, PTL DEF Spec

LEMMA OwnedIsOne == OwnInv => OneLiveInstance
<1> SUFFICES ASSUME OwnInv, NEW i \in Insts, NEW j \in Insts, Working(i), Working(j),
                    inst[i].mod = inst[j].mod, i # j
             PROVE  FALSE
  BY DEF OneLiveInstance
<1> USE DEF OwnInv
<1> DEFINE m == inst[i].mod
<1>2. /\ m \in Modules
      /\ loaded[m].inst = i \/ (op.inst = i /\ op.mod = m)
      /\ loaded[m].inst = j \/ (op.inst = j /\ op.mod = m)
  BY DEF WorkingIsOwned
<1>3. /\ op.mod = m /\ op.inst \in Insts /\ loaded[m].inst \in Insts
      /\ op.inst # loaded[m].inst /\ Working(loaded[m].inst)
  BY <1>2
<1>4. IsLoaded(m)
  BY <1>2, <1>3, NoneAssumption DEF TableShape
<1>5. op.step \notin {"stop", "none", "instantiate", "next"}
  BY <1>3, NoneAssumption DEF OpShape
<1>6. op.kind = "restart"
  BY <1>3, <1>4, <1>5 DEF OpShape, TypeInv, TypeOK, Op, Kinds
<1> QED
  BY <1>3, <1>5, <1>6 DEF OpShape, Working

\* Two instances of one module are never at work together, however loads,
\* unloads, failures, restarts, left-over restart tasks and dropped requests
\* interleave.
THEOREM OneInstance == Spec => []OneLiveInstance
  BY OwnedIsOne, OwnInvariant, PTL

\* When clients stay until they are answered, load and unload leave no
\* instance behind that nobody would stop, so the same holds of every
\* instance that was ever created.
THEOREM NoStray == ASSUME ~ClientsVanish PROVE Spec => []NoStrayInstance
<1>1. OwnInv => NoStrayInstance
  BY OwnedIsOne DEF OwnInv, OrphansNeedDrops, OneLiveInstance, NoStrayInstance
<1> QED
  BY <1>1, OwnInvariant, PTL

-----------------------------------------------------------------------------
(* The enabled set and its file *)

LEMMA SameTableSet == ASSUME SameTable PROVE LoadedSet' = LoadedSet
BY DEF SameTable, LoadedSet, IsLoaded

\* Only the end of a load adds a name to the table.
LEMMA LoadedStep ==
    ASSUME OwnInv, [Next]_vars
    PROVE  \/ LoadedSet' \subseteq LoadedSet
           \/ LoadStarted /\ LoadedSet' \subseteq LoadedSet \union {op.mod}
<1>t. TypeOK /\ TypeInv
  BY DEF OwnInv, TypeInv
<1>1. CASE UNCHANGED loaded
  BY <1>1 DEF LoadedSet, IsLoaded
<1>2. CASE Gone
  BY <1>2 DEF Gone, Absent, LoadedSet, IsLoaded
<1>3. CASE DropRequest
  <2>1. SameTable
    BY <1>3, <1>t DEF DropRequest, SameTable, TypeOK, Entry
  <2> QED
    BY <2>1, SameTableSet
<1>4. CASE LoadStarted
  BY <1>4, <1>t DEF LoadStarted, LoadedSet, IsLoaded, TypeOK
<1>5. CASE RestartStarted
  <2>1. IsLoaded(op.mod) /\ op.mod \in Modules
    BY <1>5, <1>t DEF RestartStarted, OwnInv, OpShape, TypeInv, OpHasModule
  <2> QED
    BY <1>5, <1>t, <2>1 DEF RestartStarted, LoadedSet, IsLoaded, TypeOK
<1>6. ASSUME NEW m \in Modules, RemoveEntry(m) PROVE LoadedSet' \subseteq LoadedSet
  BY <1>6, <1>t DEF RemoveEntry, Absent, LoadedSet, IsLoaded, TypeOK
<1>7. CASE Unloaded \/ ShutdownStopped
  BY <1>7, <1>6, <1>t DEF Unloaded, ShutdownStopped, TypeInv, OpHasModule
<1>8. ASSUME NEW m \in Modules, NEW by \in {"own", "late"}, RestartBegin(m, by)
      PROVE  LoadedSet' \subseteq LoadedSet
  <2>1. SameTable
    BY <1>8, <1>t DEF RestartBegin, SameTable, TypeOK, Entry
  <2> QED
    BY <2>1, SameTableSet
<1>9. ASSUME NEW m \in Modules, NEW by \in {"own", "late"}, ReportRestartFailure(m, by)
      PROVE  LoadedSet' \subseteq LoadedSet
  <2>1. (by = "own") \in BOOLEAN
    OBVIOUS
  <2>2. SameTable
    BY <1>9, <2>1, <1>t, FailKeeps DEF ReportRestartFailure, SameTable
  <2> QED
    BY <2>2, SameTableSet
<1>10. ASSUME NEW m \in Modules, StabilityElapses(m) PROVE LoadedSet' \subseteq LoadedSet
  <2>1. SameTable
    BY <1>10, <1>t DEF StabilityElapses, SameTable, TypeOK, Entry
  <2> QED
    BY <2>1, SameTableSet
<1>11. ASSUME NEW i \in Insts, NEW level \in {"healthy", "degraded", "unhealthy"},
              NEW m \in Modules, ProbeApply(m, i, level)
       PROVE  LoadedSet' \subseteq LoadedSet
  BY <1>11, <1>t, ProbeKeeps, SameTableSet
<1>12. \/ UNCHANGED loaded \/ Gone \/ DropRequest \/ LoadStarted \/ RestartStarted
       \/ Unloaded \/ ShutdownStopped
       \/ \E m \in Modules : \/ \E by \in {"own", "late"} :
                                   RestartBegin(m, by) \/ ReportRestartFailure(m, by)
                             \/ StabilityElapses(m)
       \/ \E i \in Insts : \E level \in {"healthy", "degraded", "unhealthy"} :
             \E m \in Modules : ProbeApply(m, i, level)
  BY DEF Next, LockedStep, vars, Crash, Boot, Serve, ShutdownBegin, ShutdownLock, Instantiate,
         InstantiateFails, StartFails, CleanedUp, InitReturns, OldStopped, ShutdownExit,
         ShutdownStop, LoadBegin, UnloadBegin, UnloadNotLoaded, RestartAbandoned, PollTick,
         PollExit
<1> QED
  BY <1>1, <1>2, <1>3, <1>4, <1>5, <1>7, <1>8, <1>9, <1>10, <1>11, <1>12

\* The five steps that touch the enabled set, its file or the history of
\* answered requests.
LEMMA StoreSteps ==
    ASSUME [Next]_vars
    PROVE  \/ UNCHANGED <<enabled, disk, wanted, saveFailed>>
           \/ Gone \/ Boot \/ LoadStarted \/ Unloaded
           \/ \E m \in Modules : UnloadNotLoaded(m)
<1> DEFINE Same == UNCHANGED <<enabled, disk, wanted, saveFailed>>
<1>1. CASE LockedStep
  BY <1>1 DEF LockedStep, Instantiate, InstantiateFails, StartFails, CleanedUp, InitReturns,
              OldStopped, RestartStarted, ShutdownStopped, ShutdownExit, ShutdownStop
<1>2. CASE Serve \/ DropRequest \/ ShutdownBegin \/ ShutdownLock \/ UNCHANGED vars
  <2>1. Same
    BY <1>2 DEF Serve, DropRequest, ShutdownBegin, ShutdownLock, vars
  <2> QED
    BY <2>1
<1>3. ASSUME NEW m \in Modules,
             \/ \E by \in {"client", "boot"} : LoadBegin(m, by)
             \/ UnloadBegin(m) \/ RestartAbandoned(m) \/ StabilityElapses(m)
             \/ \E by \in {"own", "late"} : RestartBegin(m, by) \/ ReportRestartFailure(m, by)
      PROVE Same
  BY <1>3 DEF LoadBegin, UnloadBegin, RestartAbandoned, StabilityElapses, RestartBegin,
              ReportRestartFailure
<1>4. ASSUME NEW i \in Insts, PollTick(i) \/ PollExit(i) PROVE Same
  BY <1>4 DEF PollTick, PollExit
<1>5. ASSUME NEW i \in Insts, NEW level \in {"healthy", "degraded", "unhealthy"},
             NEW m \in Modules, ProbeApply(m, i, level)
      PROVE Same
  BY <1>5 DEF ProbeApply
<1> HIDE DEF Same
<1> QED
  BY <1>1, <1>2, <1>3, <1>4, <1>5 DEF Next, Crash, Same

\* Nothing runs in a daemon that is down.
DownIsEmpty == ~Up => op.kind = "idle" /\ LoadedSet = {}

LEMMA DownStep ==
    ASSUME OwnInv, DownIsEmpty, [Next]_vars PROVE DownIsEmpty'
<1>1. CASE Gone
  BY <1>1 DEF Gone, DownIsEmpty, Idle, Absent, LoadedSet, IsLoaded
<1>2. CASE ~Gone /\ phase' = "down"
  <2>1. phase = "down"
    BY <1>2, ZenonT(60) DEF Next, LockedStep, vars, Crash, Boot, Serve, DropRequest, ShutdownBegin,
       ShutdownLock, Instantiate, InstantiateFails, StartFails, CleanedUp, InitReturns,
       OldStopped, RestartStarted, ShutdownStopped, ShutdownExit, ShutdownStop, LoadBegin,
       UnloadBegin, RestartBegin, ReportRestartFailure, RestartAbandoned, StabilityElapses,
       PollTick, PollExit, ProbeApply, LoadStarted, Unloaded, UnloadNotLoaded
  <2>2. op.kind = "idle" /\ op.step = "none" /\ LoadedSet = {}
    BY <2>1 DEF DownIsEmpty, Up, OwnInv, OpShape
  <2>3. op' = op \/ op' = Idle
    BY <1>2, <2>1, <2>2 DEF Next, LockedStep, vars, Crash, Boot, Serve, DropRequest, ShutdownBegin,
       ShutdownLock, Instantiate, InstantiateFails, StartFails, CleanedUp, InitReturns,
       OldStopped, RestartStarted, ShutdownStopped, ShutdownExit, ShutdownStop, LoadBegin,
       UnloadBegin, RestartBegin, ReportRestartFailure, RestartAbandoned, StabilityElapses,
       PollTick, PollExit, ProbeApply, LoadStarted, Unloaded, UnloadNotLoaded, Up
  <2>4. ~LoadStarted
    BY <2>2 DEF LoadStarted
  <2> QED
    BY <2>2, <2>3, <2>4, LoadedStep, ConstantTypes DEF DownIsEmpty
<1>3. CASE phase' # "down"
  BY <1>3 DEF DownIsEmpty, Up
<1> QED
  BY <1>1, <1>2, <1>3

\* What is loaded is enabled.  If the file can be read at boot: a name that
\* is wanted and in the file is in memory, and while saves succeed file and
\* memory agree and miss nothing that is wanted.
StoreInv ==
    /\ OwnInv
    /\ DownIsEmpty
    /\ LoadedIsEnabled
    /\ ~ReadFaults /\ Up => (disk \intersect wanted) \subseteq enabled
    /\ ~ReadFaults /\ ~saveFailed => wanted \subseteq disk /\ (Up => enabled = disk)

LEMMA StoreStep ==
    ASSUME StoreInv, [Next]_vars PROVE StoreInv'
<1> USE DEF StoreInv
<1>1. OwnInv' /\ DownIsEmpty'
  BY OwnStep, DownStep
<1>2. CASE UNCHANGED <<enabled, disk, wanted, saveFailed>> /\ (Up' => Up)
  <2>1. LoadedSet' \subseteq LoadedSet \/ LoadStarted
    BY LoadedStep
  <2>2. LoadedIsEnabled'
    <3>1. CASE LoadedSet' \subseteq LoadedSet
      BY <1>2, <3>1 DEF LoadedIsEnabled
    <3>2. CASE LoadStarted
      BY <1>2, <3>2, LoadedStep DEF LoadedIsEnabled, LoadStarted, Add
    <3> QED
      BY <2>1, <3>1, <3>2
  <2> QED
    BY <1>1, <1>2, <2>2
<1>3. CASE Gone
  BY <1>1, <1>3 DEF Gone, Up, LoadedIsEnabled
<1>4. CASE Boot
  <2>1. LoadedSet' = {} /\ Up'
    BY <1>4 DEF Boot, DownIsEmpty, Up, LoadedSet, IsLoaded
  <2>2. LoadedIsEnabled'
    BY <2>1 DEF LoadedIsEnabled
  <2> QED
    BY <1>1, <1>4, <2>1, <2>2 DEF Boot
<1>5. CASE LoadStarted
  <2>1. Up /\ Up' /\ enabled' = enabled \union {op.mod} /\ wanted' = wanted \union {op.mod}
    BY <1>5 DEF LoadStarted, Add, DownIsEmpty, Up
  <2>2. LoadedIsEnabled'
    BY <2>1, LoadedStep DEF LoadedIsEnabled
  <2>3. CASE disk' = enabled' /\ UNCHANGED saveFailed
    BY <1>1, <2>1, <2>2, <2>3
  <2>4. CASE UNCHANGED disk /\ saveFailed' = TRUE
    BY <1>1, <2>1, <2>2, <2>4
  <2> QED
    BY <1>5, <2>3, <2>4 DEF LoadStarted, Save
<1>6. CASE Unloaded
  <2>1. Up /\ Up' /\ enabled' = enabled \ {op.mod} /\ wanted' = wanted \ {op.mod}
    BY <1>6 DEF Unloaded, Remove, DownIsEmpty, Up
  <2>2. op.mod \in Modules /\ loaded' = [loaded EXCEPT ![op.mod] = Absent]
    BY <1>6 DEF Unloaded, RemoveEntry, OwnInv, TypeInv, OpHasModule
  <2>3. LoadedSet' = LoadedSet \ {op.mod}
    BY <2>2 DEF LoadedSet, IsLoaded, Absent, OwnInv, TypeInv, TypeOK
  <2>4. LoadedIsEnabled'
    BY <2>1, <2>3 DEF LoadedIsEnabled
  <2>5. CASE disk' = enabled' /\ UNCHANGED saveFailed
    BY <1>1, <2>1, <2>4, <2>5
  <2>6. CASE UNCHANGED disk /\ saveFailed' = TRUE
    BY <1>1, <2>1, <2>4, <2>6
  <2> QED
    BY <1>6, <2>5, <2>6 DEF Unloaded, Save
<1>7. ASSUME NEW m \in Modules, UnloadNotLoaded(m) PROVE StoreInv'
  BY <1>1, <1>7 DEF UnloadNotLoaded, Up, LoadedIsEnabled, LoadedSet, IsLoaded
<1>8. Boot \/ (Up' => Up)
  BY ZenonT(60) DEF Up, Next, LockedStep, vars, Crash, Gone, Serve, DropRequest, ShutdownBegin,
       ShutdownLock, Instantiate, InstantiateFails, StartFails, CleanedUp, InitReturns,
       OldStopped, RestartStarted, ShutdownStopped, ShutdownExit, ShutdownStop, LoadBegin,
       UnloadBegin, RestartBegin, ReportRestartFailure, RestartAbandoned, StabilityElapses,
       PollTick, PollExit, ProbeApply, LoadStarted, Unloaded, UnloadNotLoaded
<1> QED
  BY <1>2, <1>3, <1>4, <1>5, <1>6, <1>7, <1>8, StoreSteps

LEMMA StoreInvariant == Spec => []StoreInv
<1>1. Init /\ OwnInv => StoreInv
  BY DEF Init, StoreInv, DownIsEmpty, LoadedIsEnabled, Up, Idle, Absent, LoadedSet, IsLoaded
<1>2. StoreInv /\ [Next]_vars => StoreInv'
  BY StoreStep
<1> QED
  BY <1>1, <1>2, OwnInvariant, PTL DEF Spec

\* Whatever is loaded is in the enabled set.
THEOREM LoadedEnabled == Spec => []LoadedIsEnabled
<1>1. StoreInv => LoadedIsEnabled
  BY DEF StoreInv
<1> QED
  BY <1>1, StoreInvariant, PTL

\* If reads and saves succeed, the file names every module that was loaded
\* and not unloaded, in every state: also after a crash at any point.
THEOREM Restores == Spec => []RestartRestores
<1>1. StoreInv => RestartRestores
  BY DEF StoreInv, RestartRestores
<1> QED
  BY <1>1, StoreInvariant, PTL

\* If the file can be read at boot, a name leaves it only after its unload
\* was answered, even when saves fail and the daemon crashes in between.
THEOREM FileShrinksOnUnload == ASSUME ~ReadFaults PROVE Spec => DiskShrinksOnUnload
<1>1. StoreInv /\ [Next]_vars => [\A m \in disk \ disk' : m \notin wanted']_vars
  <2> SUFFICES ASSUME StoreInv, [Next]_vars PROVE \A m \in disk \ disk' : m \notin wanted'
    OBVIOUS
  <2>1. CASE LoadStarted
    <3>1. Up
      BY <2>1 DEF LoadStarted, StoreInv, DownIsEmpty
    <3> QED
      BY <2>1, <3>1 DEF LoadStarted, Add, Save, StoreInv
  <2>2. CASE Unloaded
    <3>1. Up
      BY <2>2 DEF Unloaded, StoreInv, DownIsEmpty
    <3> QED
      BY <2>2, <3>1 DEF Unloaded, Remove, Save, StoreInv
  <2>3. disk' = disk \/ LoadStarted \/ Unloaded
    BY StoreSteps DEF Gone, Boot, UnloadNotLoaded
  <2> QED
    BY <2>1, <2>2, <2>3
<1> QED
  BY <1>1, StoreInvariant, PTL DEF Spec, DiskShrinksOnUnload

-----------------------------------------------------------------------------
(* Who watches a loaded module *)

Active == {"running", "degraded", "failed"}

\* The entry was changed by its own instance only; the instance it holds.
Clean(m) == IsLoaded(m) /\ loaded[m].taint = {}
Held(m) == inst[loaded[m].inst]

\* Who asked for the critical section.
OpCaller ==
    /\ op.kind = "restart" => op.by \in {"own", "late"}
    /\ op.by = "client" => op.kind \in {"load", "unload"}
    /\ op.step \in {"none", "next"} => op.mod = None

\* Outside critical sections an entry that was only changed by its own
\* instance is either polled by a loop that nobody cancelled, or its loop has
\* ended.
MonitorOf(m) ==
    Clean(m) /\ Settled(m) =>
        IF Held(m).cancelled
        THEN Held(m).poll = "none" /\ loaded[m].state # "running"
        ELSE /\ Held(m).life = "started" /\ Held(m).poll # "none"
             /\ loaded[m].state # "failed" /\ retry[m] = "none"

BudgetOf(m) ==
    /\ ~IsLoaded(m) => retry[m] = "none"
    /\ Clean(m) /\ loaded[m].state = "failed" =>
          loaded[m].attempt >= MaxRestarts /\ retry[m] = "none"
    /\ Clean(m) /\ retry[m] # "none" =>
          loaded[m].attempt < MaxRestarts /\ loaded[m].state = "degraded"

StrandOf(m) ==
    Clean(m) /\ Settled(m) /\ loaded[m].state = "degraded" /\ Held(m).cancelled
    /\ phase # "stopping" => retry[m] # "none"

\* While an entry's own restart holds the lock nothing else can touch it.
RestartOf(m) ==
    Clean(m) /\ op.kind = "restart" /\ op.mod = m =>
        /\ op.by = "own" /\ retry[m] = "none"
        /\ loaded[m].state = "degraded" /\ loaded[m].attempt < MaxRestarts
        /\ Held(m).cancelled /\ Held(m).poll = "none"

\* A published state that differs from the table's is about to be corrected.
EventOf(m) ==
    /\ ~IsLoaded(m) => seen[m] \notin Active
    /\ IsLoaded(m) /\ "dropped" \notin loaded[m].taint =>
          \/ seen[m] = loaded[m].state \/ op.mod = m
          \/ retry[m] = "reporting" \/ lateReports[m] > 0

HealthOf(m) == MonitorOf(m) /\ BudgetOf(m) /\ StrandOf(m) /\ RestartOf(m) /\ EventOf(m)

HealthInv == OwnInv /\ OpCaller /\ \A m \in Modules : HealthOf(m)

SameWatch(i) ==
    /\ inst'[i].life = inst[i].life /\ inst'[i].cancelled = inst[i].cancelled
    /\ inst'[i].poll = "none" <=> inst[i].poll = "none"

\* The step is about another module.
Untouched(m) ==
    /\ loaded'[m] = loaded[m] /\ retry'[m] = retry[m] /\ seen'[m] = seen[m]
    /\ lateReports'[m] = lateReports[m]
    /\ IsLoaded(m) => SameWatch(loaded[m].inst)
    /\ op'.mod = m <=> op.mod = m
    /\ op'.mod = m => op'.kind = op.kind /\ op'.by = op.by
    /\ phase = "stopping" => phase' = "stopping"

LEMMA UntouchedStep ==
    ASSUME NEW m \in Modules, HealthOf(m), Untouched(m) PROVE HealthOf(m)'
<1> USE DEF Untouched, SameWatch, Clean, IsLoaded, Held, Settled
<1>1. MonitorOf(m)'
  BY DEF HealthOf, MonitorOf
<1>2. BudgetOf(m)'
  BY DEF HealthOf, BudgetOf
<1>3. StrandOf(m)'
  BY DEF HealthOf, StrandOf
<1>4. RestartOf(m)'
  BY DEF HealthOf, RestartOf
<1>5. EventOf(m)'
  BY DEF HealthOf, EventOf
<1> QED
  BY <1>1, <1>2, <1>3, <1>4, <1>5 DEF HealthOf

\* Two names never share an instance.
LEMMA HeldApart ==
    ASSUME OwnInv, NEW m \in Modules, NEW n \in Modules, m # n, IsLoaded(m)
    PROVE  loaded[m].inst \in Insts /\ loaded[m].inst # loaded[n].inst
<1>1. loaded[m].inst \in Insts /\ inst[loaded[m].inst].mod = m
  BY DEF OwnInv, TableShape
<1>2. IF IsLoaded(n) THEN inst[loaded[n].inst].mod = n ELSE loaded[n].inst = None
  BY DEF OwnInv, TableShape
<1> QED
  BY <1>1, <1>2, NoneAssumption

LEMMA CancelFields ==
    ASSUME TypeOK, NEW i \in Insts
    PROVE  /\ \A j \in Insts : j # i => Cancel(i)[j] = inst[j]
           /\ Cancel(i)[i].cancelled /\ Cancel(i)[i].poll = inst[i].poll
           /\ Cancel(i)[i].life = inst[i].life
BY DEF TypeOK, Cancel, Instance

LEMMA LifeFields ==
    ASSUME TypeOK, NEW i \in Insts, NEW l
    PROVE  /\ \A j \in Insts : j # i => [inst EXCEPT ![i].life = l][j] = inst[j]
           /\ [inst EXCEPT ![i].life = l][i].cancelled = inst[i].cancelled
           /\ [inst EXCEPT ![i].life = l][i].poll = inst[i].poll
BY DEF TypeOK, Instance

LEMMA TaintFields ==
    ASSUME TypeOK, NEW m \in Modules, NEW t, loaded' = [loaded EXCEPT ![m].taint = t]
    PROVE  /\ \A n \in Modules : n # m => loaded'[n] = loaded[n]
           /\ loaded'[m].taint = t /\ loaded'[m].state = loaded[m].state
           /\ loaded'[m].inst = loaded[m].inst /\ loaded'[m].attempt = loaded[m].attempt
           /\ loaded'[m].seq = loaded[m].seq
BY DEF TypeOK, Entry

LEMMA FailFields ==
    ASSUME TypeOK, NEW m \in Modules, NEW own \in BOOLEAN, Fail(m, own)
    PROVE  /\ \A n \in Modules : n # m => /\ loaded'[n] = loaded[n] /\ seen'[n] = seen[n]
                                          /\ retry'[n] = retry[n]
           /\ loaded'[m].inst = loaded[m].inst /\ loaded'[m].seq = loaded[m].seq
           /\ loaded'[m].attempt \in Nat
           /\ loaded'[m].state = IF loaded'[m].attempt >= MaxRestarts THEN "failed" ELSE "degraded"
           /\ loaded'[m].taint = IF own THEN loaded[m].taint ELSE loaded[m].taint \union {"stale"}
           /\ seen'[m] = loaded'[m].state
           /\ own => retry'[m] = IF loaded'[m].state = "degraded" /\ phase # "stopping"
                                 THEN "sleeping" ELSE "none"
           /\ ~own => retry'[m] = retry[m]
<1>1. loaded[m] \in Entry /\ Attempt(loaded[m]) \in Nat
  BY DEF TypeOK, Attempt, Entry
<1>2. /\ FailedEntry(loaded[m], ~own).inst = loaded[m].inst
      /\ FailedEntry(loaded[m], ~own).seq = loaded[m].seq
      /\ FailedEntry(loaded[m], ~own).attempt = Attempt(loaded[m])
      /\ FailedEntry(loaded[m], ~own).state = IF Attempt(loaded[m]) >= MaxRestarts THEN "failed" ELSE "degraded"
      /\ FailedEntry(loaded[m], ~own).taint = IF own THEN loaded[m].taint ELSE loaded[m].taint \union {"stale"}
  BY <1>1 DEF FailedEntry, Entry
<1>3. loaded' = [loaded EXCEPT ![m] = FailedEntry(loaded[m], ~own)] /\ loaded \in [Modules -> Entry]
  BY DEF Fail, TypeOK
<1>4. \A n \in Modules : n # m => loaded'[n] = loaded[n] /\ seen'[n] = seen[n] /\ retry'[n] = retry[n]
  BY <1>3 DEF Fail, Schedule, TypeOK
<1>5. loaded'[m] = FailedEntry(loaded[m], ~own)
  BY <1>3
<1>6. seen'[m] = loaded'[m].state
  BY DEF Fail, TypeOK
<1>7. /\ own => retry'[m] = IF loaded'[m].state = "degraded" /\ phase # "stopping"
                            THEN "sleeping" ELSE "none"
      /\ ~own => retry'[m] = retry[m]
  BY DEF Fail, Schedule, TypeOK
<1> QED
  BY <1>1, <1>2, <1>4, <1>5, <1>6, <1>7

LEMMA SetStateFields ==
    ASSUME TypeOK, NEW m \in Modules, NEW s, NEW i, SetState(m, s, i)
    PROVE  /\ \A n \in Modules : n # m => loaded'[n] = loaded[n] /\ seen'[n] = seen[n]
           /\ loaded'[m].inst = loaded[m].inst /\ loaded'[m].seq = loaded[m].seq
           /\ loaded'[m].attempt = loaded[m].attempt
           /\ loaded'[m].state = s /\ seen'[m] = s
           /\ loaded'[m].taint = IF loaded[m].inst = i THEN loaded[m].taint
                                                       ELSE loaded[m].taint \union {"stale"}
<1> DEFINE t == IF loaded[m].inst = i THEN loaded[m].taint
                                      ELSE loaded[m].taint \union {"stale"}
<1>1. loaded' = [loaded EXCEPT ![m] = [loaded[m] EXCEPT !.state = s, !.taint = t]]
  BY DEF SetState, TypeOK
<1>2. loaded[m] \in Entry /\ loaded \in [Modules -> Entry]
  BY DEF TypeOK
<1>3. /\ [loaded[m] EXCEPT !.state = s, !.taint = t].state = s
      /\ [loaded[m] EXCEPT !.state = s, !.taint = t].taint = t
      /\ [loaded[m] EXCEPT !.state = s, !.taint = t].inst = loaded[m].inst
      /\ [loaded[m] EXCEPT !.state = s, !.taint = t].seq = loaded[m].seq
      /\ [loaded[m] EXCEPT !.state = s, !.taint = t].attempt = loaded[m].attempt
  BY <1>2 DEF Entry
<1>4. loaded'[m] = [loaded[m] EXCEPT !.state = s, !.taint = t]
      /\ \A n \in Modules : n # m => loaded'[n] = loaded[n]
  BY <1>1, <1>2
<1>5. seen'[m] = s /\ \A n \in Modules : n # m => seen'[n] = seen[n]
  BY DEF SetState, TypeOK
<1> QED
  BY <1>3, <1>4, <1>5

LEMMA RemoveFields ==
    ASSUME TypeOK, NEW m \in Modules, RemoveEntry(m)
    PROVE  /\ \A n \in Modules : n # m => /\ loaded'[n] = loaded[n] /\ seen'[n] = seen[n]
                                          /\ retry'[n] = retry[n] /\ lateReports'[n] = lateReports[n]
           /\ loaded'[m] = Absent /\ ~IsLoaded(m)' /\ seen'[m] = "stopped" /\ retry'[m] = "none"
<1>1. Absent.state = "disabled"
  BY DEF Absent
<1> QED
  BY <1>1 DEF TypeOK, RemoveEntry, Disown, IsLoaded

LEMMA CallerStep ==
    ASSUME OwnInv, OpCaller, [Next]_vars PROVE OpCaller'
<1>t. op \in Op
  BY DEF OwnInv, TypeInv, TypeOK
<1>1. CASE op' = op
  BY <1>1 DEF OpCaller
<1>2. CASE op' = Idle
  BY <1>2 DEF OpCaller, Idle
<1>3. CASE \E s \in Steps \ {"none", "next"} : \E i : op' = [op EXCEPT !.step = s, !.inst = i]
  BY <1>3, <1>t DEF OpCaller, Op
<1>4. CASE \E s \in Steps \ {"none", "next"} : op' = [op EXCEPT !.step = s]
  BY <1>4, <1>t DEF OpCaller, Op
<1>5. CASE ShutdownStopped
  BY <1>5, <1>t DEF OpCaller, Op, ShutdownStopped
<1>6. ASSUME NEW m \in Modules, ShutdownStop(m) PROVE OpCaller'
  BY <1>6, <1>t DEF OpCaller, Op, ShutdownStop
<1>7. ASSUME NEW m \in Modules, NEW by \in {"client", "boot"}, LoadBegin(m, by) PROVE OpCaller'
  BY <1>7 DEF OpCaller, LoadBegin
<1>8. ASSUME NEW m \in Modules, UnloadBegin(m) PROVE OpCaller'
  BY <1>8 DEF OpCaller, UnloadBegin
<1>9. ASSUME NEW m \in Modules, NEW by \in {"own", "late"}, RestartBegin(m, by) PROVE OpCaller'
  BY <1>9 DEF OpCaller, RestartBegin
<1>10. CASE ShutdownLock
  BY <1>10 DEF OpCaller, ShutdownLock
<1>11. CASE Instantiate
  BY <1>11, <1>3 DEF Instantiate, Steps
<1>12. CASE OldStopped
  BY <1>12, <1>3 DEF OldStopped, Steps
<1>13. CASE StartFails
  BY <1>13, <1>4 DEF StartFails, Steps
<1>14. ASSUME NEW ok \in BOOLEAN, InitReturns(ok) PROVE OpCaller'
  BY <1>14, <1>4 DEF InitReturns, Steps
<1> QED
  BY <1>1, <1>2, <1>5, <1>6, <1>7, <1>8, <1>9, <1>10, <1>11, <1>12, <1>13, <1>14, ZenonT(60)
  DEF Next, LockedStep, vars, Crash, Gone, Boot, Serve, DropRequest, ShutdownBegin,
      InstantiateFails, CleanedUp, RestartStarted, ShutdownExit, ReportRestartFailure,
      RestartAbandoned, StabilityElapses, PollTick, PollExit, ProbeApply, LoadStarted, Unloaded,
      UnloadNotLoaded

LEMMA HealthGone == ASSUME Gone, NEW m \in Modules PROVE HealthOf(m)'
<1>1. /\ loaded'[m].state = "disabled" /\ op'.kind = "idle" /\ retry'[m] = "none"
      /\ seen'[m] = "disabled"
  BY DEF Gone, Absent, Idle
<1> QED
  BY <1>1 DEF HealthOf, MonitorOf, BudgetOf, StrandOf, RestartOf, EventOf, Clean, IsLoaded, Active

\* Steps that begin a critical section.
LEMMA HealthLoadBegin ==
    ASSUME HealthInv, NEW m \in Modules, NEW by \in {"client", "boot"}, LoadBegin(m, by)
    PROVE  \A n \in Modules : HealthOf(n)'
<1>t. TypeOK /\ OwnInv /\ \A n \in Modules : HealthOf(n)
  BY DEF HealthInv, OwnInv, TypeInv
<1>i. op = Idle => op.mod = None /\ op.kind = "idle"
  BY DEF Idle
<1>n. None \notin Modules
  BY NoneAssumption
<1> QED
  <2>1. /\ op = Idle /\ op'.mod = m /\ op'.kind = "load" /\ ~IsLoaded(m) /\ loaded' = loaded
        /\ inst' = inst /\ retry' = retry /\ seen' = seen /\ lateReports' = lateReports
        /\ phase' = phase
    BY DEF LoadBegin
  <2>2. \A n \in Modules \ {m} : Untouched(n)
    BY <2>1, <1>i, <1>n DEF Untouched, SameWatch
  <2>3. HealthOf(m)'
    BY <2>1, <1>t DEF HealthOf, MonitorOf, BudgetOf, StrandOf, RestartOf, EventOf, Clean, IsLoaded
  <2> QED
    BY <2>2, <2>3, <1>t, UntouchedStep

LEMMA HealthStopBegin ==
    ASSUME HealthInv, NEW m \in Modules, UnloadBegin(m) \/ ShutdownStop(m)
    PROVE  \A n \in Modules : HealthOf(n)'
<1>t. TypeOK /\ OwnInv /\ \A n \in Modules : HealthOf(n)
  BY DEF HealthInv, OwnInv, TypeInv
<1>i. op = Idle => op.mod = None /\ op.kind = "idle"
  BY DEF Idle
<1>n. None \notin Modules
  BY NoneAssumption
<1> QED
  <2>1. /\ op.mod = None /\ op'.mod = m /\ op'.kind \in {"unload", "shutdown"} /\ IsLoaded(m)
        /\ loaded' = loaded /\ inst' = Cancel(loaded[m].inst) /\ retry' = retry
        /\ lateReports' = lateReports /\ phase' = phase
        /\ seen' = [seen EXCEPT ![m] = "stopping"]
    <3>1. CASE UnloadBegin(m)
      BY <3>1, <1>i DEF UnloadBegin
    <3>2. CASE ShutdownStop(m)
      BY <3>2, <1>t DEF ShutdownStop, HealthInv, OpCaller, TypeOK, Op
    <3> QED
      BY <3>1, <3>2
  <2>2. \A n \in Modules \ {m} : Untouched(n)
    <3> SUFFICES ASSUME NEW n \in Modules \ {m} PROVE Untouched(n)
      OBVIOUS
    <3>1. IsLoaded(n) => SameWatch(loaded[n].inst)
      BY <2>1, <1>t, HeldApart, CancelFields DEF SameWatch
    <3> QED
      BY <2>1, <3>1, <1>n, <1>t DEF Untouched, TypeOK
  <2>3. HealthOf(m)'
    BY <2>1, <1>t DEF HealthOf, MonitorOf, BudgetOf, StrandOf, RestartOf, EventOf, Clean, IsLoaded, Settled
  <2> QED
    BY <2>2, <2>3, <1>t, UntouchedStep

LEMMA HealthRestartBegin ==
    ASSUME HealthInv, NEW m \in Modules, NEW by \in {"own", "late"}, RestartBegin(m, by)
    PROVE  \A n \in Modules : HealthOf(n)'
<1>t. TypeOK /\ OwnInv /\ \A n \in Modules : HealthOf(n)
  BY DEF HealthInv, OwnInv, TypeInv
<1>i. op = Idle => op.mod = None /\ op.kind = "idle"
  BY DEF Idle
<1>n. None \notin Modules
  BY NoneAssumption
<1> QED
  <2>1. CASE ~IsLoaded(m)
    <3>1. /\ loaded' = loaded /\ inst' = inst /\ op' = op /\ seen' = seen
          /\ lateReports' = lateReports /\ phase' = phase
          /\ retry' = retry \/ (retry[m] = "sleeping" /\ retry' = [retry EXCEPT ![m] = "none"])
      BY <2>1 DEF RestartBegin
    <3>2. retry' = retry
      BY <3>1, <2>1, <1>t DEF HealthOf, BudgetOf
    <3>3. \A n \in Modules : Untouched(n)
      BY <3>1, <3>2 DEF Untouched, SameWatch
    <3> QED
      BY <3>3, <1>t, UntouchedStep
  <2>2. CASE IsLoaded(m)
    <3>1. /\ op = Idle /\ op'.mod = m /\ op'.kind = "restart" /\ op'.by = by
          /\ inst' = Cancel(loaded[m].inst) /\ seen' = seen
          /\ lateReports' = lateReports /\ phase' = phase
      BY <2>2 DEF RestartBegin
    <3>2. /\ \A n \in Modules : n # m => loaded'[n] = loaded[n]
          /\ loaded'[m].taint = (IF by = "late" THEN loaded[m].taint \union {"stale"} ELSE loaded[m].taint)
          /\ loaded'[m].state = loaded[m].state
          /\ loaded'[m].inst = loaded[m].inst /\ loaded'[m].attempt = loaded[m].attempt
      <4> DEFINE t == IF by = "late" THEN loaded[m].taint \union {"stale"} ELSE loaded[m].taint
      <4>1. loaded' = [loaded EXCEPT ![m].taint = t]
        BY <2>2, <1>t DEF RestartBegin, TypeOK
      <4> HIDE DEF t
      <4>2. /\ \A n \in Modules : n # m => loaded'[n] = loaded[n]
            /\ loaded'[m].taint = t /\ loaded'[m].state = loaded[m].state
            /\ loaded'[m].inst = loaded[m].inst /\ loaded'[m].attempt = loaded[m].attempt
        BY <4>1, <1>t, TaintFields
      <4> QED
        BY <4>2 DEF t
    <3>3. \A n \in Modules : n # m => retry'[n] = retry[n]
      BY <1>t DEF RestartBegin, TypeOK
    <3>4. by = "own" => retry[m] = "sleeping" /\ retry'[m] = "none"
      BY <1>t DEF RestartBegin, TypeOK
    <3>5. by = "late" => retry'[m] = retry[m]
      BY DEF RestartBegin
    <3>6. \A n \in Modules \ {m} : Untouched(n)
      <4> SUFFICES ASSUME NEW n \in Modules \ {m} PROVE Untouched(n)
        OBVIOUS
      <4>1. IsLoaded(n) => SameWatch(loaded[n].inst)
        BY <2>2, <3>1, <1>t, HeldApart, CancelFields DEF SameWatch
      <4> QED
        BY <3>1, <3>2, <3>3, <4>1, <1>n, <1>i, <1>t DEF Untouched, TypeOK
    <3>7. HealthOf(m)'
      <4>1. CASE by = "late"
        <5>1. ~Clean(m)' /\ IsLoaded(m)'
          BY <3>2, <4>1, <2>2 DEF Clean, IsLoaded
        <5> QED
          BY <5>1, <3>1 DEF HealthOf, MonitorOf, BudgetOf, StrandOf, RestartOf, EventOf
      <4>2. CASE by = "own"
        <5>1. Settled(m) /\ ~Settled(m)' /\ retry[m] # "none"
          BY <3>1, <3>4, <4>2, <1>i, <1>n DEF Settled
        <5>2. Clean(m) => /\ loaded[m].attempt < MaxRestarts /\ loaded[m].state = "degraded"
                          /\ Held(m).cancelled /\ Held(m).poll = "none"
          BY <5>1, <1>t DEF HealthOf, BudgetOf, MonitorOf
        <5>3. Clean(m)' => Clean(m) /\ Held(m)'.cancelled /\ Held(m)'.poll = Held(m).poll
          <6>1. loaded[m].inst \in Insts
            BY <2>2, <1>t DEF OwnInv, TableShape
          <6> QED
            BY <6>1, <3>1, <3>2, <4>2, <1>t, CancelFields DEF Clean, IsLoaded, Held
        <5> QED
          BY <5>1, <5>2, <5>3, <2>2, <3>1, <3>2, <3>4, <4>2
          DEF HealthOf, MonitorOf, BudgetOf, StrandOf, RestartOf, EventOf, IsLoaded, Clean
      <4> QED
        BY <4>1, <4>2
    <3> QED
      BY <3>6, <3>7, <1>t, UntouchedStep
  <2> QED
    BY <2>1, <2>2

\* Steps in the middle of a load or a restart.
LEMMA HealthMiddle ==
    ASSUME HealthInv,
           Instantiate \/ StartFails \/ OldStopped \/ \E ok \in BOOLEAN : InitReturns(ok)
    PROVE  \A n \in Modules : HealthOf(n)'
<1>t. TypeOK /\ OwnInv /\ \A n \in Modules : HealthOf(n)
  BY DEF HealthInv, OwnInv, TypeInv
<1>1. /\ loaded' = loaded /\ retry' = retry /\ lateReports' = lateReports /\ phase' = phase
      /\ op.step \in {"instantiate", "init", "start", "stop"}
      /\ op.step = "stop" => op.kind = "restart" /\ OldStopped
      /\ seen' = seen \/ seen' = [seen EXCEPT ![op.mod] = "initializing"]
  BY DEF Instantiate, StartFails, OldStopped, InitReturns
<1>m. PICK m \in Modules : op.mod = m
  BY <1>1, <1>t DEF OwnInv, TypeInv, OpHasModule
<1>s. /\ \A n \in Modules : n # m => seen'[n] = seen[n]
      /\ seen'[m] = seen[m] \/ seen'[m] = "initializing"
  BY <1>1, <1>m, <1>t DEF TypeOK
<1>2. op'.mod = op.mod /\ op'.kind = op.kind /\ op'.by = op.by
  BY <1>t DEF Instantiate, StartFails, OldStopped, InitReturns, TypeOK, Op
<1>o. ASSUME op.step # "stop", NEW n \in Modules, loaded[n].inst \in Insts
      PROVE  inst'[loaded[n].inst] = inst[loaded[n].inst]
  <2>1. op.step \in {"init", "start"} => op.inst # loaded[n].inst
    BY <1>t DEF OwnInv, OpShape
  <2>2. CASE Instantiate
    <3>1. PICK i \in Insts : Unused(i) /\ inst' = [inst EXCEPT ![i] = Created(op.mod)]
      BY <2>2 DEF Instantiate
    <3> QED
      BY <3>1, <1>o, <1>t DEF Unused, TypeOK
  <2>3. ASSUME NEW ok \in BOOLEAN, InitReturns(ok)
        PROVE  inst'[loaded[n].inst] = inst[loaded[n].inst]
    <3>1. op.inst # loaded[n].inst
      BY <2>1, <2>3 DEF InitReturns
    <3> QED
      BY <2>3, <3>1, <1>o, <1>t DEF InitReturns, TypeOK
  <2>4. CASE StartFails
    BY <2>4 DEF StartFails
  <2> QED
    BY <2>2, <2>3, <2>4, <1>o DEF OldStopped
<1>3. ASSUME NEW n \in Modules, IsLoaded(n), n # m
      PROVE  SameWatch(loaded[n].inst)
  <2>1. loaded[n].inst \in Insts
    BY <1>3, <1>t DEF OwnInv, TableShape
  <2>2. CASE op.step = "stop"
    <3>1. op.inst = loaded[m].inst /\ IsLoaded(m)
      BY <2>2, <1>m, <1>t DEF OwnInv, OpShape
    <3>2. op.inst \in Insts /\ op.inst # loaded[n].inst
      BY <3>1, <1>3, <1>m, <1>t, HeldApart
    <3>3. inst'[loaded[n].inst] = inst[loaded[n].inst]
      <4>1. inst' = [inst EXCEPT ![op.inst].life = "stopped"]
        BY <2>2, <1>1 DEF OldStopped
      <4> QED
        BY <4>1, <2>1, <3>2, <1>t, LifeFields
    <3> QED
      BY <3>3 DEF SameWatch
  <2>3. CASE op.step # "stop"
    BY <2>1, <2>3, <1>o DEF SameWatch
  <2> QED
    BY <2>2, <2>3
<1>4. ASSUME NEW n \in Modules, n # m PROVE HealthOf(n)'
  <2>1. Untouched(n)
    BY <1>1, <1>2, <1>3, <1>4, <1>m, <1>s DEF Untouched
  <2> QED
    BY <2>1, <1>t, UntouchedStep
<1>5. HealthOf(m)'
  <2>1. CASE op.kind = "load"
    <3>1. ~IsLoaded(m)
      BY <2>1, <1>m, <1>t DEF OwnInv, OpShape
    <3> QED
      BY <3>1, <1>1, <1>2, <1>m, <1>s, <1>t
      DEF HealthOf, MonitorOf, BudgetOf, StrandOf, RestartOf, EventOf, Clean, IsLoaded, Active
  <2>2. CASE op.kind = "restart"
    <3>1. /\ loaded[m].inst \in Insts /\ IsLoaded(m)
      BY <2>2, <1>m, <1>t DEF OwnInv, OpShape, TableShape
    <3>2. /\ Held(m)'.cancelled = Held(m).cancelled
          /\ Held(m)'.poll = Held(m).poll
      <4>1. CASE op.step = "stop"
        <5>1. op.inst = loaded[m].inst
          BY <4>1, <1>m, <1>t DEF OwnInv, OpShape
        <5> QED
          <6>1. inst' = [inst EXCEPT ![loaded[m].inst].life = "stopped"]
            BY <4>1, <5>1, <1>1 DEF OldStopped
          <6> QED
            BY <6>1, <1>1, <3>1, <1>t, LifeFields DEF Held
      <4>2. CASE op.step # "stop"
        BY <3>1, <4>2, <1>o, <1>1, <1>2 DEF Held
      <4> QED
        BY <4>1, <4>2
    <3>3. ~Settled(m)'
      BY <1>2, <1>m DEF Settled
    <3> QED
      BY <3>1, <3>2, <3>3, <1>1, <1>2, <1>m, <1>s, <1>t
      DEF HealthOf, MonitorOf, BudgetOf, StrandOf, RestartOf, EventOf, Clean, IsLoaded
  <2>3. op.kind \in {"load", "restart"}
    BY <1>1, <1>t DEF OwnInv, OpShape, TypeOK, Op, Kinds
  <2> QED
    BY <2>1, <2>2, <2>3
<1> QED
  BY <1>4, <1>5

\* A load or restart that failed, its instance stopped.
LEMMA HealthFailed ==
    ASSUME HealthInv, InstantiateFails \/ CleanedUp
    PROVE  \A n \in Modules : HealthOf(n)'
<1>t. TypeOK /\ OwnInv /\ \A n \in Modules : HealthOf(n)
  BY DEF HealthInv, OwnInv, TypeInv
<1>1. /\ loaded' = loaded /\ phase' = phase /\ op.step \in {"instantiate", "cleanup"}
      /\ op' = Idle
  BY DEF InstantiateFails, CleanedUp
<1>p. PICK m \in Modules : op.mod = m
  BY <1>1, <1>t DEF OwnInv, TypeInv, OpHasModule
<1>m. /\ op'.mod = None /\ op'.kind = "idle" /\ None \notin Modules
      /\ op.kind \in {"load", "restart"}
  <2>1. op'.mod = None /\ op'.kind = "idle"
    BY <1>1 DEF Idle
  <2> QED
    BY <1>1, <2>1, NoneAssumption, <1>t DEF OwnInv, TypeInv, OpHasModule, OpShape, TypeOK, Op, Kinds
<1>2. ASSUME NEW n \in Modules, IsLoaded(n) PROVE SameWatch(loaded[n].inst)
  <2>1. loaded[n].inst \in Insts
    BY <1>2, <1>t DEF OwnInv, TableShape
  <2>2. op.step = "cleanup" => op.inst # loaded[n].inst
    BY <1>t DEF OwnInv, OpShape
  <2>3. inst'[loaded[n].inst] = inst[loaded[n].inst]
    BY <2>1, <2>2, <1>1, <1>t DEF InstantiateFails, CleanedUp, TypeOK
  <2> QED
    BY <2>3 DEF SameWatch
<1>3. ASSUME NEW n \in Modules, n # m PROVE HealthOf(n)'
  <2>1. retry'[n] = retry[n] /\ lateReports'[n] = lateReports[n] /\ seen'[n] = seen[n]
    BY <1>3, <1>p, <1>t DEF InstantiateFails, CleanedUp, ReportLater, TypeOK
  <2>2. Untouched(n)
    BY <1>1, <1>2, <1>3, <1>m, <1>p, <2>1 DEF Untouched
  <2> QED
    BY <2>2, <1>t, UntouchedStep
<1>4. HealthOf(m)'
  <2>1. CASE op.kind = "load"
    <3>1. ~IsLoaded(m)
      BY <2>1, <1>p, <1>t DEF OwnInv, OpShape
    <3>2. retry'[m] = retry[m] /\ (seen'[m] = seen[m] \/ seen'[m] = "disabled")
      BY <2>1, <1>m, <1>p, <1>t DEF InstantiateFails, CleanedUp, TypeOK
    <3> QED
      BY <3>1, <3>2, <1>1, <1>m, <1>p, <1>t
      DEF HealthOf, MonitorOf, BudgetOf, StrandOf, RestartOf, EventOf, Clean, IsLoaded, Active
  <2>2. CASE op.kind = "restart"
    <3>1. IsLoaded(m) /\ loaded[m].inst \in Insts
      BY <2>2, <1>m, <1>p, <1>t DEF OwnInv, OpShape, TableShape
    <3>2. op.by = "own" => retry'[m] = "reporting"
      BY <2>2, <1>m, <1>p, <1>t DEF InstantiateFails, CleanedUp, ReportLater, TypeOK
    <3>3. op.by # "own" => retry'[m] = retry[m] /\ lateReports'[m] > 0
      BY <2>2, <1>m, <1>p, <1>t DEF InstantiateFails, CleanedUp, ReportLater, TypeOK
    <3>4. SameWatch(loaded[m].inst)
      BY <1>2, <1>m, <1>p, <3>1
    <3>5. Clean(m) => /\ op.by = "own" /\ loaded[m].state = "degraded"
                           /\ loaded[m].attempt < MaxRestarts
                           /\ Held(m).cancelled /\ Held(m).poll = "none"
      BY <2>2, <1>m, <1>p, <1>t DEF HealthOf, RestartOf
    <3> QED
      BY <3>1, <3>2, <3>3, <3>4, <3>5, <1>1, <1>m, <1>p
      DEF HealthOf, MonitorOf, BudgetOf, StrandOf, RestartOf, EventOf, Clean, IsLoaded, Held, SameWatch
  <2> QED
    BY <2>1, <2>2, <1>m, <1>p
<1> QED
  BY <1>3, <1>4

\* A load or restart that succeeded.
LEMMA HealthStarted ==
    ASSUME HealthInv, LoadStarted \/ RestartStarted
    PROVE  \A n \in Modules : HealthOf(n)'
<1>t. TypeOK /\ OwnInv /\ \A n \in Modules : HealthOf(n)
  BY DEF HealthInv, OwnInv, TypeInv
<1>1. op.step = "start" /\ op' = Idle /\ phase' = phase /\ inst' = [inst EXCEPT ![op.inst] = Started(op.mod)]
  BY DEF LoadStarted, RestartStarted
<1>2. PICK m \in Modules : op.mod = m
  BY <1>1, <1>t DEF OwnInv, TypeInv, OpHasModule
<1>3. op'.mod = None /\ op'.kind = "idle" /\ None \notin Modules
  BY <1>1, NoneAssumption DEF Idle
<1>4. op.inst \in Insts /\ \A n \in Modules : loaded[n].inst # op.inst
  BY <1>1, <1>t DEF OwnInv, OpShape
<1>5. /\ inst'[op.inst].life = "started" /\ inst'[op.inst].poll = "sleeping"
      /\ ~inst'[op.inst].cancelled
      /\ \A j \in Insts : j # op.inst => inst'[j] = inst[j]
  BY <1>1, <1>4, <1>t DEF Started, TypeOK
<1>6. ASSUME NEW n \in Modules, n # m PROVE HealthOf(n)'
  <2>1. loaded'[n] = loaded[n] /\ seen'[n] = seen[n]
    BY <1>2, <1>6, <1>t DEF LoadStarted, RestartStarted, TypeOK
  <2>2. retry'[n] = retry[n] /\ lateReports'[n] = lateReports[n]
    BY <1>2, <1>6, <1>t DEF LoadStarted, RestartStarted, Disown, TypeOK
  <2>3. IsLoaded(n) => SameWatch(loaded[n].inst)
    BY <1>4, <1>5, <1>t DEF OwnInv, TableShape, SameWatch
  <2>4. Untouched(n)
    BY <2>1, <2>2, <2>3, <1>1, <1>2, <1>3, <1>6 DEF Untouched
  <2> QED
    BY <2>4, <1>t, UntouchedStep
<1>7. HealthOf(m)'
  <2>1. loaded'[m].state = "running" /\ loaded'[m].inst = op.inst
    <3>1. CASE LoadStarted
      BY <3>1, <1>2, <1>t DEF LoadStarted, NewEntry, TypeOK
    <3>2. CASE RestartStarted
      <4>1. loaded[m] \in Entry
        BY <1>t DEF TypeOK
      <4>2. /\ RestartedEntry(loaded[m], op.inst).state = "running"
            /\ RestartedEntry(loaded[m], op.inst).inst = op.inst
        BY <4>1 DEF RestartedEntry, Entry
      <4>3. loaded'[m] = RestartedEntry(loaded[m], op.inst)
        BY <3>2, <1>2, <1>t DEF RestartStarted, TypeOK
      <4> QED
        BY <4>2, <4>3
    <3> QED
      BY <3>1, <3>2
  <2>2. seen'[m] = "running"
    BY <1>2, <1>t DEF LoadStarted, RestartStarted, TypeOK
  <2>3. retry'[m] = "none"
    <3>1. CASE LoadStarted
      <4>1. ~IsLoaded(m)
        BY <3>1, <1>2, <1>t DEF LoadStarted, OwnInv, OpShape
      <4> QED
        BY <3>1, <4>1, <1>t DEF LoadStarted, HealthOf, BudgetOf
    <3>2. CASE RestartStarted
      BY <3>2, <1>2, <1>t DEF RestartStarted, Disown, TypeOK
    <3> QED
      BY <3>1, <3>2
  <2> QED
    BY <2>1, <2>2, <2>3, <1>3, <1>5
    DEF HealthOf, MonitorOf, BudgetOf, StrandOf, RestartOf, EventOf, Clean, IsLoaded, Held
<1> QED
  BY <1>6, <1>7

\* An entry that goes.
LEMMA HealthRemoved ==
    ASSUME HealthInv, Unloaded \/ ShutdownStopped
    PROVE  \A n \in Modules : HealthOf(n)'
<1>t. TypeOK /\ OwnInv /\ \A n \in Modules : HealthOf(n)
  BY DEF HealthInv, OwnInv, TypeInv
<1>1. op.step = "stop" /\ phase' = phase /\ RemoveEntry(op.mod)
  BY <1>t DEF Unloaded, ShutdownStopped, OwnInv, OpShape
<1>2. PICK m \in Modules : op.mod = m
  BY <1>1, <1>t DEF OwnInv, TypeInv, OpHasModule
<1>3. op'.mod = None /\ op'.kind # "restart" /\ None \notin Modules
  <2>1. CASE Unloaded
    BY <2>1, NoneAssumption DEF Unloaded, Idle
  <2>2. CASE ShutdownStopped
    BY <2>2, NoneAssumption, <1>t DEF ShutdownStopped, TypeOK, Op
  <2> QED
    BY <2>1, <2>2
<1>4. IsLoaded(m)
  BY <1>1, <1>2, <1>t DEF OwnInv, OpShape
<1>5. ASSUME NEW n \in Modules, n # m PROVE HealthOf(n)'
  <2>1. /\ loaded'[n] = loaded[n] /\ seen'[n] = seen[n]
        /\ retry'[n] = retry[n] /\ lateReports'[n] = lateReports[n]
    BY <1>1, <1>2, <1>5, <1>t, RemoveFields
  <2>2. IsLoaded(n) => SameWatch(loaded[n].inst)
    <3>1. inst' = [inst EXCEPT ![loaded[m].inst].life = "stopped"]
      BY <1>1, <1>2 DEF RemoveEntry
    <3>2. IsLoaded(n) => loaded[n].inst \in Insts /\ loaded[n].inst # loaded[m].inst
      BY <1>5, <1>t, HeldApart
    <3>3. loaded[m].inst \in Insts
      BY <1>4, <1>t DEF OwnInv, TableShape
    <3> QED
      BY <3>1, <3>2, <3>3, <1>t, LifeFields DEF SameWatch
  <2>3. Untouched(n)
    BY <2>1, <2>2, <1>1, <1>2, <1>3, <1>5 DEF Untouched
  <2> QED
    BY <2>3, <1>t, UntouchedStep
<1>6. HealthOf(m)'
  <2>1. ~IsLoaded(m)' /\ seen'[m] = "stopped" /\ retry'[m] = "none"
    BY <1>1, <1>2, <1>t, RemoveFields
  <2> QED
    BY <2>1 DEF HealthOf, MonitorOf, BudgetOf, StrandOf, RestartOf, EventOf, Clean, Active
<1> QED
  BY <1>5, <1>6

\* A request whose client went away.
LEMMA HealthDropped ==
    ASSUME HealthInv, DropRequest
    PROVE  \A n \in Modules : HealthOf(n)'
<1>t. TypeOK /\ OwnInv /\ \A n \in Modules : HealthOf(n)
  BY DEF HealthInv, OwnInv, TypeInv
<1>1. /\ op.step \in {"instantiate", "init", "start", "cleanup", "stop"} /\ op' = Idle
      /\ phase' = phase /\ seen' = seen /\ retry' = retry /\ lateReports' = lateReports
      /\ op.by = "client"
  BY DEF DropRequest
<1>2. PICK m \in Modules : op.mod = m
  BY <1>1, <1>t DEF OwnInv, TypeInv, OpHasModule
<1>3. op'.mod = None /\ op'.kind = "idle" /\ None \notin Modules
  BY <1>1, NoneAssumption DEF Idle
<1>4. op.kind \in {"load", "unload"}
  BY <1>1 DEF HealthInv, OpCaller
<1>5. CASE op.step = "stop"
  <2>1. IsLoaded(m) /\ op.inst = loaded[m].inst /\ loaded[m].inst \in Insts
    BY <1>2, <1>5, <1>t DEF OwnInv, OpShape, TableShape
  <2>2. PICK left : inst' = [inst EXCEPT ![loaded[m].inst].life = left]
    BY <1>5, <2>1 DEF DropRequest
  <2>3. /\ \A n \in Modules : n # m => loaded'[n] = loaded[n]
        /\ "dropped" \in loaded'[m].taint /\ loaded'[m].state = loaded[m].state
    <3> DEFINE t == loaded[m].taint \union {"dropped"}
    <3>1. loaded' = [loaded EXCEPT ![m].taint = t]
      BY <1>2, <1>5, <1>t DEF DropRequest, TypeOK
    <3>2. "dropped" \in t
      OBVIOUS
    <3> HIDE DEF t
    <3> QED
      BY <3>1, <3>2, <1>t, TaintFields
  <2>4. ASSUME NEW n \in Modules, n # m PROVE HealthOf(n)'
    <3>1. IsLoaded(n) => SameWatch(loaded[n].inst)
      BY <2>1, <2>2, <2>4, <1>t, HeldApart, LifeFields DEF SameWatch
    <3>2. Untouched(n)
      BY <3>1, <2>3, <2>4, <1>1, <1>2, <1>3 DEF Untouched
    <3> QED
      BY <3>2, <1>t, UntouchedStep
  <2>5. HealthOf(m)'
    <3>1. IsLoaded(m)' /\ ~Clean(m)'
      BY <2>1, <2>3 DEF Clean, IsLoaded
    <3> QED
      BY <3>1, <2>3 DEF HealthOf, MonitorOf, BudgetOf, StrandOf, RestartOf, EventOf
  <2> QED
    BY <2>4, <2>5
<1>6. CASE op.step # "stop"
  <2>1. op.kind = "load" /\ ~IsLoaded(m) /\ loaded' = loaded
    BY <1>1, <1>2, <1>4, <1>6, <1>t DEF DropRequest, OwnInv, OpShape
  <2>2. ASSUME NEW n \in Modules, IsLoaded(n) PROVE SameWatch(loaded[n].inst)
    <3>1. loaded[n].inst \in Insts
      BY <2>2, <1>t DEF OwnInv, TableShape
    <3>2. op.step # "instantiate" => op.inst # loaded[n].inst
      BY <1>1, <1>6, <1>t DEF OwnInv, OpShape
    <3>3. inst'[loaded[n].inst] = inst[loaded[n].inst]
      <4>1. CASE op.step = "instantiate" /\ inst' # inst
        <5>1. PICK i \in Insts : Unused(i) /\ inst' = [inst EXCEPT ![i] = [Created(op.mod) EXCEPT !.life = "orphaned"]]
          BY <4>1 DEF DropRequest
        <5> QED
          BY <5>1, <3>1, <1>t DEF Unused, TypeOK
      <4>2. CASE op.step # "instantiate"
        <5>1. PICK left : inst' = [inst EXCEPT ![op.inst].life = left]
          BY <4>2, <1>6, <1>1 DEF DropRequest
        <5> QED
          BY <5>1, <4>2, <3>1, <3>2, <1>t DEF TypeOK
      <4> QED
        BY <4>1, <4>2
    <3> QED
      BY <3>3 DEF SameWatch
  <2>3. ASSUME NEW n \in Modules, n # m PROVE HealthOf(n)'
    <3>1. Untouched(n)
      BY <2>1, <2>2, <2>3, <1>1, <1>2, <1>3 DEF Untouched
    <3> QED
      BY <3>1, <1>t, UntouchedStep
  <2>4. HealthOf(m)'
    BY <2>1, <1>1, <1>t DEF HealthOf, MonitorOf, BudgetOf, StrandOf, RestartOf, EventOf, Clean, IsLoaded
  <2> QED
    BY <2>3, <2>4
<1> QED
  BY <1>5, <1>6

\* report_failure, for a probe or a failed restart: what it makes of the entry.
LEMMA HealthFail ==
    ASSUME HealthInv, NEW m \in Modules, NEW own \in BOOLEAN, IsLoaded(m), Fail(m, own),
           op = Idle, op' = Idle, phase' = phase,
           inst'[loaded[m].inst].cancelled,
           own /\ Clean(m) => inst'[loaded[m].inst].poll = "none"
    PROVE  HealthOf(m)'
<1>t. TypeOK
  BY DEF HealthInv, OwnInv, TypeInv
<1>1. op'.mod = None /\ op'.kind = "idle" /\ None \notin Modules
  BY NoneAssumption DEF Idle
<1>2. /\ loaded'[m].inst = loaded[m].inst /\ loaded'[m].attempt \in Nat
      /\ loaded'[m].state = IF loaded'[m].attempt >= MaxRestarts THEN "failed" ELSE "degraded"
      /\ loaded'[m].taint = IF own THEN loaded[m].taint ELSE loaded[m].taint \union {"stale"}
      /\ seen'[m] = loaded'[m].state
      /\ own => retry'[m] = IF loaded'[m].state = "degraded" /\ phase # "stopping"
                            THEN "sleeping" ELSE "none"
  BY <1>t, FailFields
<1>3. IsLoaded(m)'
  BY <1>2 DEF IsLoaded
<1>4. CASE own
  <2>1. Clean(m)' => Clean(m) /\ Held(m)'.cancelled /\ Held(m)'.poll = "none"
    BY <1>2, <1>4 DEF Clean, Held
  <2>2. MonitorOf(m)'
    BY <1>2, <2>1 DEF MonitorOf
  <2>3. BudgetOf(m)'
    BY <1>2, <1>3, <1>4, BoundAssumption DEF BudgetOf
  <2>4. StrandOf(m)' /\ RestartOf(m)' /\ EventOf(m)'
    BY <1>1, <1>2, <1>3, <1>4 DEF StrandOf, RestartOf, EventOf
  <2> QED
    BY <2>2, <2>3, <2>4 DEF HealthOf
<1>5. CASE ~own
  <2>1. ~Clean(m)'
    BY <1>2, <1>5 DEF Clean
  <2> QED
    BY <1>2, <1>3, <2>1 DEF HealthOf, MonitorOf, BudgetOf, StrandOf, RestartOf, EventOf
<1> QED
  BY <1>4, <1>5

LEMMA HealthReport ==
    ASSUME HealthInv, NEW m \in Modules, NEW by \in {"own", "late"}, ReportRestartFailure(m, by)
    PROVE  \A n \in Modules : HealthOf(n)'
<1>t. TypeOK /\ OwnInv /\ \A n \in Modules : HealthOf(n)
  BY DEF HealthInv, OwnInv, TypeInv
<1>1. /\ op = Idle /\ op' = op /\ phase' = phase
      /\ \A n \in Modules : n # m => lateReports'[n] = lateReports[n]
      /\ by = "own" => retry[m] = "reporting"
  BY <1>t DEF ReportRestartFailure, TypeOK
<1>2. Settled(m)
  BY <1>1, NoneAssumption DEF Settled, Idle
<1>3. CASE ~IsLoaded(m)
  <2>1. loaded' = loaded /\ seen' = seen /\ retry' = retry /\ inst' = inst
    BY <1>3 DEF ReportRestartFailure
  <2>2. \A n \in Modules \ {m} : Untouched(n)
    BY <1>1, <2>1 DEF Untouched, SameWatch
  <2>3. HealthOf(m)'
    BY <1>3, <2>1, <1>t DEF HealthOf, MonitorOf, BudgetOf, StrandOf, RestartOf, EventOf, Clean, IsLoaded
  <2> QED
    BY <2>2, <2>3, <1>t, UntouchedStep
<1>4. CASE IsLoaded(m)
  <2>1. Fail(m, by = "own") /\ inst' = Cancel(loaded[m].inst) /\ (by = "own") \in BOOLEAN
    BY <1>4 DEF ReportRestartFailure
  <2>2. loaded[m].inst \in Insts
    BY <1>4, <1>t DEF OwnInv, TableShape
  <2>3. inst'[loaded[m].inst].cancelled /\ inst'[loaded[m].inst].poll = Held(m).poll
    BY <2>1, <2>2, <1>t, CancelFields DEF Held
  <2>4. by = "own" /\ Clean(m) => Held(m).poll = "none"
    BY <1>1, <1>2, <1>t DEF HealthOf, MonitorOf
  <2>5. HealthOf(m)'
    BY <1>1, <1>4, <2>1, <2>3, <2>4, HealthFail
  <2>6. ASSUME NEW n \in Modules, n # m PROVE HealthOf(n)'
    <3>1. IsLoaded(n) => SameWatch(loaded[n].inst)
      BY <2>1, <2>2, <2>6, <1>t, HeldApart, CancelFields DEF SameWatch
    <3>2. loaded'[n] = loaded[n] /\ seen'[n] = seen[n] /\ retry'[n] = retry[n]
      BY <2>1, <2>6, <1>t, FailFields
    <3>3. Untouched(n)
      BY <1>1, <2>6, <3>1, <3>2 DEF Untouched
    <3> QED
      BY <3>3, <1>t, UntouchedStep
  <2> QED
    BY <2>5, <2>6
<1> QED
  BY <1>3, <1>4

LEMMA ProbeFields ==
    ASSUME NEW r \in Instance
    PROVE  /\ AfterProbe(r).life = r.life /\ AfterProbe(r).cancelled = r.cancelled
           /\ AfterProbe(r).poll = IF r.cancelled THEN "none" ELSE "sleeping"
BY DEF AfterProbe, Instance

\* An answer of health() that reaches the entry of its own or of a younger instance.
LEMMA HealthProbe ==
    ASSUME HealthInv, NEW i \in Insts, NEW level \in {"healthy", "degraded", "unhealthy"},
           NEW m \in Modules, ProbeApply(m, i, level)
    PROVE  \A n \in Modules : HealthOf(n)'
<1>t. TypeOK /\ OwnInv /\ \A n \in Modules : HealthOf(n)
  BY DEF HealthInv, OwnInv, TypeInv
<1>1. /\ op = Idle /\ op' = Idle /\ phase' = phase /\ lateReports' = lateReports
      /\ inst[i].poll = "probing" /\ inst[i].mod = m
  BY DEF ProbeApply
<1>2. op.mod = None /\ op'.mod = None /\ op'.kind = "idle" /\ None \notin Modules
  BY <1>1, NoneAssumption DEF Idle
<1>3. inst[i] \in Instance
  BY <1>t DEF TypeOK
<1>own. Clean(m) /\ loaded[m].inst = i =>
            ~inst[i].cancelled /\ inst[i].life = "started" /\ loaded[m].state # "failed" /\ retry[m] = "none"
  BY <1>1, <1>2, <1>t DEF HealthOf, MonitorOf, Settled, Held
<1>4. ASSUME inst' = [inst EXCEPT ![i] = AfterProbe(inst[i])],
             retry' = retry,
             \/ UNCHANGED <<loaded, seen>>
             \/ /\ IsLoaded(m)
                /\ \E s \in {"running", "degraded"} : SetState(m, s, i)
      PROVE  \A n \in Modules : HealthOf(n)'
  <2>1. /\ \A j \in Insts : j # i => inst'[j] = inst[j]
        /\ inst'[i].life = inst[i].life /\ inst'[i].cancelled = inst[i].cancelled
        /\ inst'[i].poll = IF inst[i].cancelled THEN "none" ELSE "sleeping"
    BY <1>3, <1>4, <1>t, ProbeFields DEF TypeOK
  <2>2. ASSUME NEW n \in Modules, n # m PROVE HealthOf(n)'
    <3>1. IsLoaded(n) => SameWatch(loaded[n].inst)
      <4>1. IsLoaded(n) => loaded[n].inst \in Insts /\ loaded[n].inst # i
        BY <1>1, <2>2, <1>t DEF OwnInv, TableShape
      <4> QED
        BY <2>1, <4>1 DEF SameWatch
    <3>2. loaded'[n] = loaded[n] /\ seen'[n] = seen[n]
      BY <1>4, <2>2, <1>t, SetStateFields
    <3>3. Untouched(n)
      BY <1>1, <1>4, <2>2, <3>1, <3>2 DEF Untouched
    <3> QED
      BY <3>3, <1>t, UntouchedStep
  <2>3. ASSUME UNCHANGED <<loaded, seen>> PROVE HealthOf(m)'
    <3>1. CASE IsLoaded(m) /\ ~Clean(m)
      BY <1>1, <1>2, <1>4, <2>3, <3>1, <1>t
      DEF HealthOf, MonitorOf, BudgetOf, StrandOf, RestartOf, EventOf, Clean, IsLoaded
    <3>2. CASE ~IsLoaded(m)
      BY <1>1, <1>2, <1>4, <2>3, <3>2, <1>t
      DEF HealthOf, MonitorOf, BudgetOf, StrandOf, RestartOf, EventOf, Clean, IsLoaded
    <3>3. CASE Clean(m)
      <4>1. SameWatch(loaded[m].inst)
        <5>1. loaded[m].inst \in Insts
          BY <3>3, <1>t DEF Clean, OwnInv, TableShape
        <5> QED
          BY <5>1, <2>1, <1>own, <3>3, <1>1 DEF SameWatch
      <4>2. Untouched(m)
        BY <4>1, <1>1, <1>4, <2>3 DEF Untouched
      <4> QED
        BY <4>2, <1>t, UntouchedStep
    <3> QED
      BY <3>1, <3>2, <3>3 DEF Clean
  <2>4. ASSUME NEW s \in {"running", "degraded"}, IsLoaded(m), SetState(m, s, i)
        PROVE  HealthOf(m)'
    <3>1. /\ loaded'[m].inst = loaded[m].inst /\ loaded'[m].attempt = loaded[m].attempt
          /\ loaded'[m].state = s /\ seen'[m] = s
          /\ loaded'[m].taint = IF loaded[m].inst = i THEN loaded[m].taint
                                                      ELSE loaded[m].taint \union {"stale"}
      BY <2>4, <1>t, SetStateFields
    <3>2. IsLoaded(m)'
      BY <3>1 DEF IsLoaded
    <3>3. Clean(m)' => Clean(m) /\ loaded[m].inst = i
      BY <3>1, <2>4 DEF Clean
    <3>4. Clean(m)' => /\ ~Held(m)'.cancelled /\ Held(m)'.life = "started"
                       /\ Held(m)'.poll = "sleeping" /\ retry'[m] = "none"
      BY <3>1, <3>3, <1>own, <2>1, <1>4 DEF Held
    <3> QED
      BY <3>1, <3>2, <3>4, <1>2 DEF HealthOf, MonitorOf, BudgetOf, StrandOf, RestartOf, EventOf
  <2> QED
    BY <1>4, <2>2, <2>3, <2>4
<1>5. ASSUME IsLoaded(m), Fail(m, loaded[m].inst = i),
             inst' = [Cancel(loaded[m].inst) EXCEPT ![i] = AfterProbe(@)]
      PROVE  \A n \in Modules : HealthOf(n)'
  <2> DEFINE h == loaded[m].inst
             c == Cancel(h)
  <2>1. h \in Insts /\ (h = i) \in BOOLEAN
    BY <1>5, <1>t DEF OwnInv, TableShape
  <2>2. /\ c \in [Insts -> Instance] /\ \A j \in Insts : j # h => c[j] = inst[j]
        /\ c[h].cancelled /\ c[h].poll = inst[h].poll /\ c[h].life = inst[h].life
    BY <2>1, <1>t, CancelFields, CancelType
  <2>3. c[i] \in Instance /\ inst' = [c EXCEPT ![i] = AfterProbe(c[i])]
    BY <1>5, <2>2
  <2> HIDE DEF c
  <2>4. /\ \A j \in Insts : j # i => inst'[j] = c[j]
        /\ inst'[i].cancelled = c[i].cancelled
        /\ inst'[i].poll = IF c[i].cancelled THEN "none" ELSE "sleeping"
    BY <2>2, <2>3, ProbeFields
  <2>5. inst'[h].cancelled /\ (h = i => inst'[h].poll = "none")
    BY <2>1, <2>2, <2>4
  <2>6. HealthOf(m)'
    BY <1>1, <1>5, <2>1, <2>5, HealthFail
  <2>7. ASSUME NEW n \in Modules, n # m PROVE HealthOf(n)'
    <3>1. IsLoaded(n) => SameWatch(loaded[n].inst)
      <4>1. IsLoaded(n) => loaded[n].inst \in Insts /\ loaded[n].inst # i /\ loaded[n].inst # h
        BY <1>1, <1>5, <2>7, <1>t, HeldApart DEF OwnInv, TableShape
      <4> QED
        BY <2>2, <2>4, <4>1 DEF SameWatch
    <3>2. loaded'[n] = loaded[n] /\ seen'[n] = seen[n] /\ retry'[n] = retry[n]
      BY <1>5, <2>1, <2>7, <1>t, FailFields
    <3>3. Untouched(n)
      BY <1>1, <2>7, <3>1, <3>2 DEF Untouched
    <3> QED
      BY <3>3, <1>t, UntouchedStep
  <2> QED
    BY <2>6, <2>7
<1> QED
  BY <1>4, <1>5 DEF ProbeApply, IsLoaded

\* The poll loop's own steps, timers, and what touches no entry.
LEMMA HealthQuiet ==
    ASSUME HealthInv,
           \/ Boot \/ Serve \/ ShutdownBegin \/ ShutdownLock \/ UNCHANGED vars
           \/ \E m \in Modules : UnloadNotLoaded(m)
           \/ \E i \in Insts : PollTick(i) \/ PollExit(i)
    PROVE  \A n \in Modules : HealthOf(n)'
<1>t. TypeOK /\ OwnInv /\ \A n \in Modules : HealthOf(n)
  BY DEF HealthInv, OwnInv, TypeInv
<1>1. ASSUME UNCHANGED <<loaded, inst, retry, seen, lateReports>>, phase = "stopping" => phase' = "stopping",
             op' = op \/ (op.mod = None /\ op'.mod = None)
      PROVE  \A n \in Modules : HealthOf(n)'
  <2>1. \A n \in Modules : Untouched(n)
    BY <1>1, NoneAssumption DEF Untouched, SameWatch
  <2> QED
    BY <2>1, <1>t, UntouchedStep
<1>2. CASE Boot \/ Serve \/ ShutdownBegin \/ UNCHANGED vars \/ \E m \in Modules : UnloadNotLoaded(m)
  BY <1>1, <1>2 DEF Boot, Serve, ShutdownBegin, UnloadNotLoaded, vars
<1>3. CASE ShutdownLock
  BY <1>1, <1>3 DEF ShutdownLock, Idle
<1>4. ASSUME NEW i \in Insts, PollTick(i) \/ PollExit(i)
      PROVE  \A n \in Modules : HealthOf(n)'
  <2>1. /\ loaded' = loaded /\ retry' = retry /\ seen' = seen /\ lateReports' = lateReports
        /\ op' = op /\ phase' = phase
    BY <1>4 DEF PollTick, PollExit
  <2>2. /\ \A j \in Insts : j # i => inst'[j] = inst[j]
        /\ inst'[i].life = inst[i].life /\ inst'[i].cancelled = inst[i].cancelled
        /\ inst[i].poll # "none"
        /\ inst'[i].poll = "none" => inst[i].cancelled
    BY <1>4, <1>t, SMTT(30) DEF PollTick, PollExit, TypeOK, Instance
  <2> SUFFICES ASSUME NEW n \in Modules PROVE HealthOf(n)'
    OBVIOUS
  <2>3. CASE IsLoaded(n) => SameWatch(loaded[n].inst)
    <3>1. Untouched(n)
      BY <2>1, <2>3 DEF Untouched
    <3> QED
      BY <3>1, <1>t, UntouchedStep
  <2>4. CASE IsLoaded(n) /\ ~SameWatch(loaded[n].inst)
    <3>1. loaded[n].inst = i
      BY <2>2, <2>4, <1>t DEF OwnInv, TableShape, SameWatch
    <3>2. inst[i].cancelled /\ inst[i].poll # "none" /\ inst'[i].poll = "none"
      BY <2>2, <2>4, <3>1 DEF SameWatch
    <3>3. ~(Clean(n) /\ Settled(n))
      BY <3>1, <3>2, <1>t DEF HealthOf, MonitorOf, Held
    <3>4. /\ Held(n)'.poll = "none" /\ Held(n).poll # "none"
          /\ Held(n)'.cancelled = Held(n).cancelled
      BY <2>1, <2>2, <3>1, <3>2 DEF Held
    <3>5. (Clean(n)' <=> Clean(n)) /\ (Settled(n)' <=> Settled(n)) /\ (IsLoaded(n)' <=> IsLoaded(n))
      BY <2>1 DEF Clean, Settled, IsLoaded
    <3> QED
      BY <2>1, <3>3, <3>4, <3>5, <1>t DEF HealthOf, MonitorOf, BudgetOf, StrandOf, RestartOf, EventOf
  <2> QED
    BY <2>3, <2>4
<1> QED
  BY <1>2, <1>3, <1>4

LEMMA HealthTimers ==
    ASSUME HealthInv, NEW m \in Modules, RestartAbandoned(m) \/ StabilityElapses(m)
    PROVE  \A n \in Modules : HealthOf(n)'
<1>t. TypeOK /\ OwnInv /\ \A n \in Modules : HealthOf(n)
  BY DEF HealthInv, OwnInv, TypeInv
<1>1. inst' = inst /\ seen' = seen /\ lateReports' = lateReports /\ op' = op /\ phase' = phase
  BY DEF RestartAbandoned, StabilityElapses
<1>2. CASE RestartAbandoned(m)
  <2>1. /\ loaded' = loaded /\ phase = "stopping"
        /\ \A n \in Modules : n # m => retry'[n] = retry[n]
        /\ \/ retry'[m] = retry[m]
           \/ retry[m] = "sleeping" /\ retry'[m] = "none"
    BY <1>2, <1>t DEF RestartAbandoned, TypeOK
  <2>2. \A n \in Modules : retry'[n] = retry[n] => Untouched(n)
    BY <1>1, <2>1 DEF Untouched, SameWatch
  <2>3. ASSUME retry[m] = "sleeping", retry'[m] = "none" PROVE HealthOf(m)'
    <3>1. (Clean(m)' <=> Clean(m)) /\ (Settled(m)' <=> Settled(m)) /\ (IsLoaded(m)' <=> IsLoaded(m))
          /\ Held(m)' = Held(m)
      BY <1>1, <2>1 DEF Clean, Settled, IsLoaded, Held
    <3> QED
      BY <1>1, <2>1, <2>3, <3>1, <1>t DEF HealthOf, MonitorOf, BudgetOf, StrandOf, RestartOf, EventOf
  <2> QED
    BY <2>1, <2>2, <2>3, <1>t, UntouchedStep
<1>3. CASE StabilityElapses(m)
  <2>1. /\ retry' = retry /\ \A n \in Modules : n # m => loaded'[n] = loaded[n]
        /\ loaded'[m].state = loaded[m].state /\ loaded'[m].inst = loaded[m].inst
        /\ loaded'[m].attempt = loaded[m].attempt /\ loaded'[m].taint = loaded[m].taint
    BY <1>3, <1>t DEF StabilityElapses, TypeOK, Entry
  <2>2. \A n \in Modules : n # m => Untouched(n)
    BY <1>1, <2>1 DEF Untouched, SameWatch
  <2>3. HealthOf(m)'
    <3>1. (Clean(m)' <=> Clean(m)) /\ (Settled(m)' <=> Settled(m)) /\ (IsLoaded(m)' <=> IsLoaded(m))
          /\ Held(m)' = Held(m)
      BY <1>1, <2>1 DEF Clean, Settled, IsLoaded, Held
    <3> QED
      BY <1>1, <2>1, <3>1, <1>t DEF HealthOf, MonitorOf, BudgetOf, StrandOf, RestartOf, EventOf
  <2> QED
    BY <2>2, <2>3, <1>t, UntouchedStep
<1> QED
  BY <1>2, <1>3

LEMMA HealthStep ==
    ASSUME HealthInv, [Next]_vars PROVE HealthInv'
<1>1. OwnInv' /\ OpCaller'
  BY OwnStep, CallerStep DEF HealthInv
<1>2. \A n \in Modules : HealthOf(n)'
  BY HealthGone, HealthLoadBegin, HealthStopBegin, HealthRestartBegin, HealthMiddle, HealthFailed,
     HealthStarted, HealthRemoved, HealthDropped, HealthReport, HealthProbe, HealthQuiet, HealthTimers
  DEF Next, LockedStep, Crash, ShutdownExit
<1> QED
  BY <1>1, <1>2 DEF HealthInv

LEMMA HealthInvariant == Spec => []HealthInv
<1>1. Init /\ OwnInv => HealthInv
  <2> SUFFICES ASSUME Init, OwnInv PROVE HealthInv
    OBVIOUS
  <2>1. /\ op.kind = "idle" /\ op.mod = None /\ op.by = "none"
        /\ \A m \in Modules : /\ loaded[m].state = "disabled" /\ retry[m] = "none"
                              /\ seen[m] = "disabled"
    BY DEF Init, Idle, Absent
  <2> QED
    BY <2>1 DEF HealthInv, OpCaller, HealthOf, MonitorOf, BudgetOf, StrandOf, RestartOf, EventOf,
                Clean, IsLoaded, Active
<1>2. HealthInv /\ [Next]_vars => HealthInv'
  BY HealthStep
<1> QED
  BY <1>1, <1>2, OwnInvariant, PTL DEF Spec

\* Failed means that the budget is used up and nothing of the module's own is
\* scheduled, and a scheduled restart that budget is left, for every budget.
THEOREM BudgetKept == Spec => []ParkedAtBudget
<1>1. HealthInv => ParkedAtBudget
  BY DEF HealthInv, HealthOf, BudgetOf, ParkedAtBudget, Clean, IsLoaded
<1> QED
  BY <1>1, HealthInvariant, PTL

\* Whatever a module does, one that is shown as running is polled and one that
\* has failed and is polled no longer has its restart coming.
THEOREM NobodyForgotten == Spec => []NoneForgotten
<1>1. HealthInv => NoneForgotten
  BY DEF HealthInv, HealthOf, MonitorOf, StrandOf, NoneForgotten, RunningIsMonitored, NoneStranded,
         Clean, IsLoaded, Held
<1> QED
  BY <1>1, HealthInvariant, PTL

\* The last event published for a module is the state the table shows.
THEOREM EventsAreTrue == Spec => []EventsMatchTable
<1>1. HealthInv => EventsMatchTable
  BY DEF HealthInv, HealthOf, EventOf, EventsMatchTable, Settled, Active
<1> QED
  BY <1>1, HealthInvariant, PTL

-----------------------------------------------------------------------------
(* The order of shutdown *)

\* load_seq numbers are given out in order, and the names that came after a
\* loaded one are loaded and have larger numbers.
SeqOf(m) ==
    IsLoaded(m) => /\ loaded[m].seq < nextSeq
                   /\ \A n \in younger[m] : IsLoaded(n) /\ loaded[m].seq < loaded[n].seq

OrderInv == OwnInv /\ (\A m \in Modules : SeqOf(m)) /\ ShutdownIsLIFO

\* What most steps leave alone.
SameOrder ==
    /\ \A m \in Modules : /\ loaded'[m].seq = loaded[m].seq
                          /\ loaded'[m].state = "disabled" <=> loaded[m].state = "disabled"
    /\ younger' = younger /\ nextSeq' = nextSeq

LEMMA OrderFrame ==
    ASSUME OrderInv, SameOrder PROVE \A m \in Modules : SeqOf(m)'
<1>1. younger \in [Modules -> SUBSET Modules]
  BY DEF OrderInv, OwnInv, TypeInv, TypeOK
<1> QED
  BY <1>1 DEF OrderInv, SameOrder, SeqOf, IsLoaded

LEMMA OrderSteps ==
    ASSUME OwnInv, [Next]_vars
    PROVE  \/ SameOrder \/ Gone \/ LoadStarted
           \/ \E m \in Modules : RemoveEntry(m) /\ nextSeq' = nextSeq
<1>t. TypeOK /\ TypeInv
  BY DEF OwnInv, TypeInv
<1>1. CASE loaded' = loaded /\ younger' = younger /\ nextSeq' = nextSeq
  BY <1>1 DEF SameOrder
<1>3. CASE DropRequest
  <2>1. younger' = younger /\ nextSeq' = nextSeq
    BY <1>3 DEF DropRequest
  <2>2. CASE op.step = "stop"
    <3> DEFINE t == loaded[op.mod].taint \union {"dropped"}
    <3>1. op.mod \in Modules
      BY <2>2, <1>t DEF TypeInv, OpHasModule
    <3>2. loaded' = [loaded EXCEPT ![op.mod].taint = t]
      BY <1>3, <2>2, <3>1, <1>t DEF DropRequest, TypeOK
    <3> HIDE DEF t
    <3> QED
      BY <2>1, <3>1, <3>2, <1>t, TaintFields DEF SameOrder
  <2>3. CASE op.step # "stop"
    BY <1>3, <2>1, <2>3 DEF DropRequest, SameOrder
  <2> QED
    BY <2>2, <2>3
<1>5. CASE RestartStarted
  <2>1. IsLoaded(op.mod) /\ op.mod \in Modules
    BY <1>5, <1>t DEF RestartStarted, OwnInv, OpShape, TypeInv, OpHasModule
  <2>2. loaded[op.mod] \in Entry
    BY <2>1, <1>t DEF TypeOK
  <2>3. /\ RestartedEntry(loaded[op.mod], op.inst).seq = loaded[op.mod].seq
        /\ RestartedEntry(loaded[op.mod], op.inst).state = "running"
    BY <2>2 DEF RestartedEntry, Entry
  <2>4. /\ loaded'[op.mod] = RestartedEntry(loaded[op.mod], op.inst)
        /\ \A n \in Modules : n # op.mod => loaded'[n] = loaded[n]
        /\ younger' = younger /\ nextSeq' = nextSeq
    BY <1>5, <1>t, <2>1 DEF RestartStarted, TypeOK
  <2> QED
    BY <2>1, <2>3, <2>4 DEF SameOrder, IsLoaded
<1>7. CASE Unloaded \/ ShutdownStopped
  <2>1. op.mod \in Modules
    BY <1>7, <1>t DEF Unloaded, ShutdownStopped, TypeInv, OpHasModule
  <2> QED
    BY <1>7, <2>1 DEF Unloaded, ShutdownStopped
<1>8. ASSUME NEW m \in Modules, NEW by \in {"own", "late"}, RestartBegin(m, by) PROVE SameOrder
  <2>1. younger' = younger /\ nextSeq' = nextSeq
    BY <1>8 DEF RestartBegin
  <2>2. CASE IsLoaded(m)
    <3> DEFINE t == IF by = "late" THEN loaded[m].taint \union {"stale"} ELSE loaded[m].taint
    <3>1. loaded' = [loaded EXCEPT ![m].taint = t]
      BY <1>8, <2>2, <1>t DEF RestartBegin, TypeOK
    <3> HIDE DEF t
    <3> QED
      BY <2>1, <3>1, <1>t, TaintFields DEF SameOrder
  <2>3. CASE ~IsLoaded(m)
    BY <1>8, <2>1, <2>3 DEF RestartBegin, SameOrder
  <2> QED
    BY <2>2, <2>3
<1>fail. ASSUME NEW m \in Modules, NEW own \in BOOLEAN, IsLoaded(m), Fail(m, own),
                younger' = younger, nextSeq' = nextSeq
         PROVE  SameOrder
  BY <1>fail, <1>t, FailFields DEF SameOrder, IsLoaded
<1>9. ASSUME NEW m \in Modules, NEW by \in {"own", "late"}, ReportRestartFailure(m, by)
      PROVE SameOrder
  <2>1. (by = "own") \in BOOLEAN
    OBVIOUS
  <2>2. CASE IsLoaded(m)
    BY <1>9, <2>1, <2>2, <1>fail DEF ReportRestartFailure
  <2>3. CASE ~IsLoaded(m)
    BY <1>9, <2>3 DEF ReportRestartFailure, SameOrder
  <2> QED
    BY <2>2, <2>3
<1>10. ASSUME NEW m \in Modules, StabilityElapses(m) PROVE SameOrder
  BY <1>10, <1>t DEF StabilityElapses, SameOrder, TypeOK, Entry
<1>11. ASSUME NEW i \in Insts, NEW level \in {"healthy", "degraded", "unhealthy"},
              NEW m \in Modules, ProbeApply(m, i, level)
       PROVE  SameOrder
  <2>1. younger' = younger /\ nextSeq' = nextSeq
    BY <1>11 DEF ProbeApply
  <2>2. CASE \E s \in {"running", "degraded"} : IsLoaded(m) /\ SetState(m, s, i)
    <3>1. PICK s \in {"running", "degraded"} : IsLoaded(m) /\ SetState(m, s, i)
      BY <2>2
    <3>2. /\ \A n \in Modules : n # m => loaded'[n] = loaded[n]
          /\ loaded'[m].seq = loaded[m].seq /\ loaded'[m].state = s
      BY <3>1, <1>t, SetStateFields
    <3> QED
      BY <2>1, <3>1, <3>2 DEF SameOrder, IsLoaded
  <2>3. CASE IsLoaded(m) /\ Fail(m, loaded[m].inst = i)
    <3>1. (loaded[m].inst = i) \in BOOLEAN
      OBVIOUS
    <3> QED
      BY <2>1, <2>3, <3>1, <1>fail
  <2>4. CASE UNCHANGED loaded
    BY <2>1, <2>4 DEF SameOrder
  <2> QED
    BY <1>11, <2>2, <2>3, <2>4 DEF ProbeApply, IsLoaded
<1>12. \/ (loaded' = loaded /\ younger' = younger /\ nextSeq' = nextSeq)
       \/ Gone \/ DropRequest \/ LoadStarted \/ RestartStarted
       \/ Unloaded \/ ShutdownStopped
       \/ \E m \in Modules : \/ \E by \in {"own", "late"} :
                                   RestartBegin(m, by) \/ ReportRestartFailure(m, by)
                             \/ StabilityElapses(m)
       \/ \E i \in Insts : \E level \in {"healthy", "degraded", "unhealthy"} :
             \E m \in Modules : ProbeApply(m, i, level)
  BY DEF Next, LockedStep, vars, Crash, Boot, Serve, ShutdownBegin, ShutdownLock, Instantiate,
         InstantiateFails, StartFails, CleanedUp, InitReturns, OldStopped, ShutdownExit,
         ShutdownStop, LoadBegin, UnloadBegin, UnloadNotLoaded, RestartAbandoned, PollTick,
         PollExit
<1> QED
  BY <1>1, <1>3, <1>5, <1>7, <1>8, <1>9, <1>10, <1>11, <1>12

LEMMA OrderStep ==
    ASSUME OrderInv, [Next]_vars PROVE OrderInv'
<1>t. TypeOK /\ OwnInv
  BY DEF OrderInv, OwnInv, TypeInv
<1>n. /\ nextSeq \in Nat /\ younger \in [Modules -> SUBSET Modules]
      /\ \A n \in Modules : loaded[n].seq \in Nat
  BY <1>t DEF TypeOK, Entry
<1>1. \A m \in Modules : SeqOf(m)'
  <2>1. CASE SameOrder
    BY <2>1, OrderFrame
  <2>2. CASE Gone
    <3>1. \A m \in Modules : loaded'[m].state = "disabled"
      BY <2>2 DEF Gone, Absent
    <3> QED
      BY <3>1 DEF SeqOf, IsLoaded
  <2>3. CASE LoadStarted
    <3>1. PICK k \in Modules : op.mod = k
      BY <2>3, <1>t DEF LoadStarted, OwnInv, TypeInv, OpHasModule
    <3>2. ~IsLoaded(k)
      BY <2>3, <3>1, <1>t DEF LoadStarted, OwnInv, OpShape
    <3>3. /\ loaded'[k].seq = nextSeq /\ loaded'[k].state = "running" /\ nextSeq' = nextSeq + 1
          /\ \A n \in Modules : n # k => loaded'[n] = loaded[n]
          /\ \A n \in Modules : younger'[n] = IF IsLoaded(n) THEN younger[n] \union {k} ELSE {}
      BY <2>3, <3>1, <1>t DEF LoadStarted, NewEntry, TypeOK
    <3> SUFFICES ASSUME NEW m \in Modules, IsLoaded(m)'
                 PROVE  /\ loaded'[m].seq < nextSeq'
                        /\ \A n \in younger'[m] : /\ loaded'[n].state # "disabled"
                                                   /\ loaded'[m].seq < loaded'[n].seq
      BY DEF SeqOf, IsLoaded
    <3>4. CASE m = k
      <4>1. younger'[m] = {} /\ loaded'[m].seq = nextSeq
        BY <3>2, <3>3, <3>4
      <4> QED
        BY <4>1, <3>3, <1>n
    <3>5. CASE m # k
      <4>1. IsLoaded(m) /\ loaded[m].seq < nextSeq
        BY <3>3, <3>5 DEF OrderInv, SeqOf, IsLoaded
      <4>2. \A n \in younger[m] : n \in Modules /\ n # k /\ IsLoaded(n) /\ loaded[m].seq < loaded[n].seq
        BY <4>1, <3>2, <1>n DEF OrderInv, SeqOf
      <4>3. younger'[m] = younger[m] \union {k} /\ loaded'[m] = loaded[m]
        BY <4>1, <3>3, <3>5
      <4>4. \A n \in younger[m] : loaded'[n] = loaded[n] /\ loaded[n].state # "disabled"
        BY <4>2, <3>3 DEF IsLoaded
      <4>5. loaded'[m].seq < nextSeq'
        BY <4>1, <4>3, <3>3, <1>n
      <4> QED
        BY <4>1, <4>2, <4>3, <4>4, <4>5, <3>3
    <3> QED
      BY <3>4, <3>5
  <2>4. ASSUME NEW k \in Modules, RemoveEntry(k), nextSeq' = nextSeq
        PROVE  \A m \in Modules : SeqOf(m)'
    <3>1. /\ \A n \in Modules : n # k => loaded'[n] = loaded[n]
          /\ ~IsLoaded(k)'
      BY <2>4, <1>t, RemoveFields
    <3>2. \A n \in Modules : younger'[n] = IF n = k THEN {} ELSE younger[n] \ {k}
      BY <2>4 DEF RemoveEntry
    <3> QED
      BY <2>4, <3>1, <3>2, <1>n DEF OrderInv, SeqOf, IsLoaded
  <2> QED
    BY <2>1, <2>2, <2>3, <2>4, <1>t, OrderSteps
<1>2. ShutdownIsLIFO'
  <2>1. CASE op' = op
    <3>1. CASE op.kind = "shutdown" /\ op.step = "stop"
      <4>1. younger[op.mod] = {} /\ op.mod \in Modules
        BY <3>1 DEF OrderInv, ShutdownIsLIFO, OwnInv, TypeInv, OpHasModule
      <4>2. younger' = younger \/ op' = Idle \/ LoadStarted \/ Unloaded \/ ShutdownStopped
        BY ZenonT(60) DEF Next, LockedStep, vars, Crash, Gone, Boot, Serve, DropRequest, ShutdownBegin,
           ShutdownLock, Instantiate, InstantiateFails, StartFails, CleanedUp, InitReturns,
           OldStopped, RestartStarted, ShutdownExit, ShutdownStop, LoadBegin,
           UnloadBegin, RestartBegin, ReportRestartFailure, RestartAbandoned, StabilityElapses,
           PollTick, PollExit, ProbeApply, UnloadNotLoaded
      <4>3. op' # Idle /\ ~LoadStarted /\ ~Unloaded
        BY <2>1, <3>1 DEF Idle, LoadStarted, Unloaded
      <4>4. ~ShutdownStopped
        BY <2>1, <3>1, <1>t DEF ShutdownStopped, TypeOK, Op
      <4> QED
        BY <2>1, <4>1, <4>2, <4>3, <4>4 DEF ShutdownIsLIFO
    <3>2. CASE ~(op.kind = "shutdown" /\ op.step = "stop")
      BY <2>1, <3>2 DEF ShutdownIsLIFO
    <3> QED
      BY <3>1, <3>2
  <2>2. ASSUME NEW m \in Modules, ShutdownStop(m) PROVE ShutdownIsLIFO'
    <3>1. /\ op'.mod = m /\ younger' = younger /\ IsLoaded(m)
          /\ \A n \in LoadedSet : loaded[n].seq <= loaded[m].seq
      BY <2>2, <1>t DEF ShutdownStop, TypeOK, Op
    <3>2. younger[m] = {}
      BY <3>1, <1>n DEF OrderInv, SeqOf, LoadedSet
    <3> QED
      BY <3>1, <3>2 DEF ShutdownIsLIFO
  <2>3. CASE op' # op /\ ~(\E m \in Modules : ShutdownStop(m))
    <3>1. op' = Idle \/ op'.kind # "shutdown" \/ op'.step # "stop"
      <4>1. CASE LockedStep
        BY <2>3, <4>1, <1>t DEF LockedStep, Gone, Instantiate, InstantiateFails, StartFails, CleanedUp,
           InitReturns, OldStopped, RestartStarted, ShutdownExit, LoadStarted, Unloaded,
           ShutdownStopped, TypeOK, Op
      <4>2. CASE ~LockedStep
        BY <2>3, <4>2 DEF Next, vars, Crash, Gone, Boot, Serve, DropRequest, ShutdownBegin,
           ShutdownLock, LoadBegin, UnloadBegin, RestartBegin, ReportRestartFailure, RestartAbandoned,
           StabilityElapses, PollTick, PollExit, ProbeApply, UnloadNotLoaded
      <4> QED
        BY <4>1, <4>2
    <3> QED
      BY <3>1 DEF ShutdownIsLIFO, Idle
  <2> QED
    BY <2>1, <2>2, <2>3
<1> QED
  BY <1>1, <1>2, OwnStep DEF OrderInv

\* Shutdown never stops a module while one that was loaded after it is still
\* loaded, however many loads, unloads and restarts came before.
THEOREM ShutdownInOrder == Spec => []ShutdownIsLIFO
<1>1. Init /\ OwnInv => OrderInv
  BY DEF Init, OrderInv, SeqOf, ShutdownIsLIFO, IsLoaded, Absent, Idle
<1>2. OrderInv /\ [Next]_vars => OrderInv'
  BY OrderStep
<1>3. OrderInv => ShutdownIsLIFO
  BY DEF OrderInv
<1> QED
  BY <1>1, <1>2, <1>3, OwnInvariant, PTL DEF Spec

=============================================================================
