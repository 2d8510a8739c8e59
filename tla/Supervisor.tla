----------------------------- MODULE Supervisor -----------------------------
(***************************************************************************)
(* The module lifecycle state machine of penguind                          *)
(* (crates/penguin-daemon/src/supervisor.rs, state.rs) and the part of     *)
(* bins/penguind/src/daemon_main.rs that drives it: boot, serve, shutdown. *)
(*                                                                         *)
(* Who runs concurrently:                                                  *)
(*   - client requests (load, unload) handled by the gRPC server;          *)
(*   - one health-poll task per started instance;                          *)
(*   - the restart tasks that report_failure spawns;                       *)
(*   - the main task (start_enabled at boot, shutdown at the end).         *)
(* They meet at one RwLock.  load, unload, shutdown and                    *)
(* perform_scheduled_restart keep its write half across the module's own   *)
(* init/start/stop calls, so the critical section in progress is the       *)
(* variable op, one step per await.  report_failure, mark_degraded and     *)
(* restore_running_if_degraded never await inside the lock: one action.    *)
(*                                                                         *)
(* tokio's RwLock queues waiters; which task asks first is up to the       *)
(* scheduler, so an action that needs the lock is enabled when op is idle. *)
(*                                                                         *)
(* Module::stop is taken at its contract (penguin-sdk/src/module.rs:32):   *)
(* when it returns the instance does no more work.                         *)
(***************************************************************************)
EXTENDS Integers, FiniteSets

CONSTANTS
    Modules,       \* module names an operator may ask for
    Builtin,       \* the names in the compiled-in registry
    Insts,         \* pool of handles for Arc<dyn Module> instances
    None,          \* no module, no instance
    MaxRestarts,   \* SupervisorConfig.max_restarts (0 already defaulted)
    MaxLoads,      \* bound: successful loads in one life of the daemon
    MaxLate,       \* bound: restart tasks left over from earlier instances
    ClientsVanish, \* may a client disconnect while its request is served?
    ReadFaults     \* may reading enabled.json fail at boot?

ASSUME BuiltinAssumption == Builtin \subseteq Modules
ASSUME NoneAssumption == None \notin Modules /\ None \notin Insts
ASSUME BoundAssumption == /\ MaxRestarts \in Nat \ {0}
                          /\ MaxLoads \in Nat
                          /\ MaxLate \in Nat
ASSUME FaultAssumption == ClientsVanish \in BOOLEAN /\ ReadFaults \in BOOLEAN

VARIABLES
    phase,       \* daemon_main: down, boot (start_enabled), serving, stopping
    op,          \* the critical section that holds the write lock
    loaded,      \* Shared.loaded, state "disabled" standing for an absent key
    inst,        \* module instances with their health-poll task
    nextSeq,     \* Inner.load_seq
    retry,       \* restart task of the current instance's own failure
    lateTimers,  \* sleeping restart tasks of an instance since replaced
    lateReports, \* such tasks whose restart failed, about to report it
    enabled,     \* Shared.persisted
    disk,        \* <state_dir>/enabled.json
    todo,        \* names start_enabled has still to load
    seen,        \* last StateChanged event published for each module
    wanted,      \* history: loads minus unloads that were answered Ok
    younger,     \* history: for each name, the loaded names that came after it
    saveFailed   \* history: some PersistedState::save has failed

vars == <<phase, op, loaded, inst, nextSeq, retry, lateTimers, lateReports, enabled,
          disk, todo, seen, wanted, younger, saveFailed>>

-----------------------------------------------------------------------------
(* Values *)

Phases == {"down", "boot", "serving", "stopping"}
TableStates == {"disabled", "running", "degraded", "failed"}
ModuleStates == TableStates \union {"initializing", "stopping", "stopped"}
Lives == {"free", "created", "inited", "started", "stopped", "orphaned"}
Polls == {"none", "sleeping", "probing"}
Kinds == {"idle", "load", "unload", "restart", "shutdown"}
Steps == {"none", "instantiate", "init", "start", "cleanup", "stop", "next"}
Callers == {"none", "client", "boot", "own", "late", "main"}
Retries == {"none", "sleeping", "reporting"}

\* One value of Shared.loaded.  Of started_at only "has the stability window
\* passed" is kept.  taint is history:
\* the entry was changed on behalf of another instance ("stale"), or an
\* unload of it was dropped half way ("dropped").
Entry == [state: TableStates, inst: Insts \union {None}, attempt: Nat,
          stable: BOOLEAN, seq: Nat, taint: SUBSET {"stale", "dropped"}]

Absent == [state |-> "disabled", inst |-> None, attempt |-> 0,
           stable |-> FALSE, seq |-> 0, taint |-> {}]

Instance == [mod: Modules \union {None}, life: Lives, poll: Polls,
             cancelled: BOOLEAN]

FreeInst == [mod |-> None, life |-> "free", poll |-> "none",
             cancelled |-> FALSE]

Op == [kind: Kinds, step: Steps, mod: Modules \union {None},
       inst: Insts \union {None}, by: Callers]

Idle == [kind |-> "idle", step |-> "none", mod |-> None, inst |-> None,
         by |-> "none"]

-----------------------------------------------------------------------------
(* Helpers *)

IsLoaded(m) == loaded[m].state # "disabled"

LoadedSet == {m \in Modules : IsLoaded(m)}

\* A handle nobody holds: not in the table, not in op, no poll task.
Unused(i) == /\ inst[i].life \in {"free", "stopped"}
             /\ inst[i].poll = "none"
             /\ \A m \in Modules : loaded[m].inst # i
             /\ op.inst # i

\* The two pools that bound the model: handles, and left-over restart tasks.
HandleLeft == \E i \in Insts : Unused(i)
LateRoom(m) == lateTimers[m] + lateReports[m] < MaxLate

Created(m) == [mod |-> m, life |-> "created", poll |-> "none",
               cancelled |-> FALSE]

\* The instance once start() succeeded and spawn_health_poll ran.
Started(m) == [mod |-> m, life |-> "started", poll |-> "sleeping",
               cancelled |-> FALSE]

\* Mutant: the table keeps the state last published before start returned.
NewEntryTooEarly(i, s) == [state |-> "initializing", inst |-> i, attempt |-> 0,
                           stable |-> FALSE, seq |-> s, taint |-> {}]

\* The entry load inserts.
NewEntry(i, s) == [state |-> "running", inst |-> i, attempt |-> 0,
                   stable |-> FALSE, seq |-> s, taint |-> {}]

\* Mutant: a restart counts as a new load.
RestartedEntryAsNew(e, i) == [e EXCEPT !.state = "running", !.inst = i,
                                       !.stable = FALSE, !.taint = {},
                                       !.seq = nextSeq]

\* The entry perform_scheduled_restart inserts: attempt and load_seq survive.
RestartedEntry(e, i) == [e EXCEPT !.state = "running", !.inst = i,
                                  !.stable = FALSE, !.taint = {}]

\* Mutant: the attempt is not counted.
AttemptUncounted(e) == IF e.stable THEN 0 ELSE e.attempt

\* report_failure's bookkeeping on the entry.
Attempt(e) == (IF e.stable THEN 0 ELSE e.attempt) + 1

\* Mutant: off by one at the budget.
FailedEntryLate(e, stale) ==
    [e EXCEPT !.attempt = Attempt(e),
              !.state = IF Attempt(e) > MaxRestarts THEN "failed"
                                                    ELSE "degraded",
              !.taint = IF stale THEN @ \union {"stale"} ELSE @]

FailedEntry(e, stale) ==
    [e EXCEPT !.attempt = Attempt(e),
              !.state = IF Attempt(e) >= MaxRestarts THEN "failed"
                                                     ELSE "degraded",
              !.taint = IF stale THEN @ \union {"stale"} ELSE @]

\* Mutant: the loop does not look at its token.
AfterProbeDeaf(r) == [r EXCEPT !.poll = "sleeping"]

\* What the poll loop does after a probe was handled: the cancelled branch of
\* select! ends it, otherwise it sleeps again.
AfterProbe(r) == [r EXCEPT !.poll = IF r.cancelled THEN "none"
                                                   ELSE "sleeping"]

Cancel(i) == [inst EXCEPT ![i].cancelled = TRUE]

\* PersistedState::add and remove.
\* Mutant: a load is not recorded.
AddForgotten(m) == enabled
Add(m) == enabled \union {m}
Remove(m) == enabled \ {m}

\* Mutant: the set is saved as it was before the change.
SaveStale(set) == \/ disk' = enabled /\ UNCHANGED saveFailed
                  \/ UNCHANGED disk /\ saveFailed' = TRUE

\* PersistedState::save: the rename either replaces the file or fails.
Save(set) == \/ disk' = set /\ UNCHANGED saveFailed
             \/ UNCHANGED disk /\ saveFailed' = TRUE

Up == phase # "down"

-----------------------------------------------------------------------------
(* Boot and the end of the process *)

Init ==
    /\ phase = "down"
    /\ op = Idle
    /\ loaded = [m \in Modules |-> Absent]
    /\ inst = [i \in Insts |-> FreeInst]
    /\ nextSeq = 0
    /\ retry = [m \in Modules |-> "none"]
    /\ lateTimers = [m \in Modules |-> 0]
    /\ lateReports = [m \in Modules |-> 0]
    /\ enabled = {}
    /\ disk = {}
    /\ todo = {}
    /\ seen = [m \in Modules |-> "disabled"]
    /\ wanted = {}
    /\ younger = [m \in Modules |-> {}]
    /\ saveFailed = FALSE

\* Everything but the file dies with the process.
Gone ==
    /\ phase' = "down"
    /\ op' = Idle
    /\ loaded' = [m \in Modules |-> Absent]
    /\ inst' = [i \in Insts |-> FreeInst]
    /\ nextSeq' = 0
    /\ retry' = [m \in Modules |-> "none"]
    /\ lateTimers' = [m \in Modules |-> 0]
    /\ lateReports' = [m \in Modules |-> 0]
    /\ enabled' = {}
    /\ todo' = {}
    /\ seen' = [m \in Modules |-> "disabled"]
    /\ younger' = [m \in Modules |-> {}]
    /\ UNCHANGED <<disk, wanted, saveFailed>>

\* A kill or panic of the daemon, at any await.
Crash == Up /\ Gone

\* Mutant: the set that was read is not kept in memory.
BootForgets ==
    /\ phase = "down"
    /\ phase' = "boot"
    /\ todo' = disk
    /\ UNCHANGED <<op, loaded, inst, nextSeq, retry, lateTimers, lateReports,
                   enabled, disk, seen, wanted, younger, saveFailed>>

\* start_enabled reads the file; what cannot be read or parsed counts as the
\* empty set, in memory too.
Boot ==
    /\ phase = "down"
    /\ phase' = "boot"
    /\ \/ enabled' = disk
       \/ ReadFaults /\ enabled' = {}
    /\ todo' = enabled'
    /\ UNCHANGED <<op, loaded, inst, nextSeq, retry, lateTimers, lateReports,
                   disk, seen, wanted, younger, saveFailed>>

\* start_enabled returned: the control socket is opened.
Serve ==
    /\ phase = "boot" /\ todo = {} /\ op.by # "boot"
    /\ phase' = "serving"
    /\ UNCHANGED <<op, loaded, inst, nextSeq, retry, lateTimers, lateReports,
                   enabled, disk, todo, seen, wanted, younger, saveFailed>>

-----------------------------------------------------------------------------
(* load, and the steps it shares with perform_scheduled_restart *)

\* An already loaded name is answered with its state and nothing changes.
LoadBegin(m, by) ==
    /\ op = Idle
    /\ \/ by = "client" /\ phase = "serving" /\ UNCHANGED todo
       \/ by = "boot" /\ phase = "boot" /\ m \in todo /\ todo' = todo \ {m}
    /\ ~IsLoaded(m)
    /\ nextSeq < MaxLoads /\ HandleLeft
    /\ op' = [kind |-> "load", step |-> "instantiate", mod |-> m,
              inst |-> None, by |-> by]
    /\ UNCHANGED <<phase, loaded, inst, nextSeq, retry, lateTimers,
                   lateReports, enabled, disk, seen, wanted, younger,
                   saveFailed>>

\* Mutant: a failed restart is not reported.
ReportNever == UNCHANGED <<retry, lateReports>>

\* What follows a failed restart: the lock is dropped, the same task will
\* take it again in report_failure.
ReportLater ==
    IF op.by = "own"
    THEN /\ retry' = [retry EXCEPT ![op.mod] = "reporting"]
         /\ UNCHANGED lateReports
    ELSE /\ lateReports' = [lateReports EXCEPT ![op.mod] = @ + 1]
         /\ UNCHANGED retry

\* instantiate: a builtin's factory cannot fail; an external plugin may be
\* missing or fail to verify, launch or dispense.
Instantiate ==
    /\ op.step = "instantiate"
    /\ \E i \in Insts :
          /\ Unused(i)
          /\ inst' = [inst EXCEPT ![i] = Created(op.mod)]
          /\ op' = [op EXCEPT !.step = "init", !.inst = i]
    /\ seen' = [seen EXCEPT ![op.mod] = "initializing"]
    /\ UNCHANGED <<phase, loaded, nextSeq, retry, lateTimers, lateReports,
                   enabled, disk, todo, wanted, younger, saveFailed>>

InstantiateFails ==
    /\ op.step = "instantiate"
    /\ op.mod \notin Builtin
    /\ IF op.kind = "restart" THEN ReportLater
                              ELSE UNCHANGED <<retry, lateReports>>
    /\ op' = Idle
    /\ UNCHANGED <<phase, loaded, inst, nextSeq, lateTimers, enabled, disk,
                   todo, seen, wanted, younger, saveFailed>>

InitReturns(ok) ==
    /\ op.step = "init"
    /\ inst' = [inst EXCEPT ![op.inst].life = IF ok THEN "inited" ELSE @]
    /\ op' = [op EXCEPT !.step = IF ok THEN "start" ELSE "cleanup"]
    /\ UNCHANGED <<phase, loaded, nextSeq, retry, lateTimers, lateReports,
                   enabled, disk, todo, seen, wanted, younger, saveFailed>>

StartFails ==
    /\ op.step = "start"
    /\ op' = [op EXCEPT !.step = "cleanup"]
    /\ UNCHANGED <<phase, loaded, inst, nextSeq, retry, lateTimers,
                   lateReports, enabled, disk, todo, seen, wanted, younger,
                   saveFailed>>

\* Mutant: the instance that failed is dropped without a stop.
CleanedUpNot ==
    /\ op.step = "cleanup"
    /\ inst' = [inst EXCEPT ![op.inst].life = "orphaned"]
    /\ op' = Idle
    /\ IF op.kind = "restart"
       THEN ReportLater /\ UNCHANGED seen
       ELSE /\ seen' = [seen EXCEPT ![op.mod] = "disabled"]
            /\ UNCHANGED <<retry, lateReports>>
    /\ UNCHANGED <<phase, loaded, nextSeq, lateTimers, enabled, disk, todo,
                   wanted, younger, saveFailed>>

\* stop_failed_instance returned.
CleanedUp ==
    /\ op.step = "cleanup"
    /\ inst' = [inst EXCEPT ![op.inst].life = "stopped"]
    /\ op' = Idle
    /\ IF op.kind = "restart"
       THEN ReportLater /\ UNCHANGED seen
       ELSE /\ seen' = [seen EXCEPT ![op.mod] = "disabled"]
            /\ UNCHANGED <<retry, lateReports>>
    /\ UNCHANGED <<phase, loaded, nextSeq, lateTimers, enabled, disk, todo,
                   wanted, younger, saveFailed>>

\* load's last part: publish, insert, persist; no await in between.
LoadStarted ==
    /\ op.kind = "load" /\ op.step = "start"
    /\ nextSeq' = nextSeq + 1
    /\ inst' = [inst EXCEPT ![op.inst] = Started(op.mod)]
    /\ loaded' = [loaded EXCEPT ![op.mod] = NewEntry(op.inst, nextSeq)]
    /\ seen' = [seen EXCEPT ![op.mod] = "running"]
    /\ enabled' = Add(op.mod)
    /\ Save(enabled')
    /\ op' = Idle
    /\ wanted' = wanted \union {op.mod}
    /\ younger' = [n \in Modules |-> IF IsLoaded(n) THEN younger[n] \union {op.mod}
                                                   ELSE {}]
    /\ UNCHANGED <<phase, retry, lateTimers, lateReports, todo>>

-----------------------------------------------------------------------------
(* unload *)

UnloadBegin(m) ==
    /\ op = Idle /\ phase = "serving"
    /\ IsLoaded(m)
    /\ retry[m] # "none" => LateRoom(m)
    /\ op' = [kind |-> "unload", step |-> "stop", mod |-> m,
              inst |-> loaded[m].inst, by |-> "client"]
    /\ inst' = Cancel(loaded[m].inst)
    /\ seen' = [seen EXCEPT ![m] = "stopping"]
    /\ UNCHANGED <<phase, loaded, nextSeq, retry, lateTimers, lateReports,
                   enabled, disk, todo, wanted, younger, saveFailed>>

\* A name that is not in the table: answered Ok, nothing is touched.
UnloadNotLoaded(m) ==
    /\ op = Idle /\ phase = "serving"
    /\ ~IsLoaded(m)
    /\ wanted' = wanted \ {m}
    /\ UNCHANGED <<phase, op, loaded, inst, nextSeq, retry, lateTimers,
                   lateReports, enabled, disk, todo, seen, younger,
                   saveFailed>>

\* The entry's instance is replaced or goes.  Its pending restart task is not
\* cancelled; from now on it belongs to nobody.
Disown(m) ==
    /\ retry' = [retry EXCEPT ![m] = "none"]
    /\ lateTimers' = [lateTimers EXCEPT
                         ![m] = IF retry[m] = "sleeping" THEN @ + 1 ELSE @]
    /\ lateReports' = [lateReports EXCEPT
                         ![m] = IF retry[m] = "reporting" THEN @ + 1 ELSE @]

\* The end of stop_locked: the entry goes.
RemoveEntry(m) ==
    /\ inst' = [inst EXCEPT ![loaded[m].inst].life = "stopped"]
    /\ loaded' = [loaded EXCEPT ![m] = Absent]
    /\ seen' = [seen EXCEPT ![m] = "stopped"]
    /\ Disown(m)
    /\ younger' = [n \in Modules |-> IF n = m THEN {} ELSE younger[n] \ {m}]

Unloaded ==
    /\ op.kind = "unload"
    /\ RemoveEntry(op.mod)
    /\ enabled' = Remove(op.mod)
    /\ Save(enabled')
    /\ wanted' = wanted \ {op.mod}
    /\ op' = Idle
    /\ UNCHANGED <<phase, nextSeq, todo>>

\* The client goes away while its request is served: the server drops the
\* handler's future at its current await, which releases the lock.  An
\* instance whose start has begun, or an external plugin's process, is left
\* with nobody to stop it; an entry whose unload is cut stays in the table.
DropRequest ==
    /\ ClientsVanish
    /\ op.by = "client"
    /\ \/ /\ op.step = "instantiate"
          /\ \/ UNCHANGED inst
             \/ /\ op.mod \notin Builtin
                /\ \E i \in Insts :
                      /\ Unused(i)
                      /\ inst' = [inst EXCEPT
                            ![i] = [Created(op.mod) EXCEPT !.life = "orphaned"]]
          /\ UNCHANGED loaded
       \/ /\ op.step \in {"init", "start", "cleanup"}
          /\ \E left \in {"stopped", "orphaned"} :
                /\ op.step = "init" /\ op.mod \in Builtin => left = "stopped"
                /\ op.mod \notin Builtin => op.step = "cleanup" \/ left = "orphaned"
                /\ inst' = [inst EXCEPT ![op.inst].life = left]
          /\ UNCHANGED loaded
       \/ /\ op.step = "stop"
          /\ \E left \in {inst[op.inst].life, "stopped"} :
                inst' = [inst EXCEPT ![op.inst].life = left]
          /\ loaded' = [loaded EXCEPT ![op.mod].taint = @ \union {"dropped"}]
    /\ op' = Idle
    /\ UNCHANGED <<phase, nextSeq, retry, lateTimers, lateReports, enabled,
                   disk, todo, seen, wanted, younger, saveFailed>>

-----------------------------------------------------------------------------
(* report_failure and the restarts it schedules *)

\* The restart task report_failure spawns.  A parked module gets none, and
\* after life_token is cancelled the task ends at once.
Schedule(m, own) ==
    LET spawned == loaded'[m].state = "degraded" /\ phase # "stopping" IN
    IF own
    THEN /\ retry' = [retry EXCEPT ![m] = IF spawned THEN "sleeping"
                                                     ELSE "none"]
         /\ UNCHANGED lateTimers
    ELSE /\ lateTimers' = [lateTimers EXCEPT ![m] = IF spawned THEN @ + 1
                                                              ELSE @]
         /\ UNCHANGED retry

\* The body of report_failure for a loaded name.
Fail(m, own) ==
    /\ loaded' = [loaded EXCEPT ![m] = FailedEntry(@, ~own)]
    /\ seen' = [seen EXCEPT ![m] = loaded'[m].state]
    /\ Schedule(m, own)

\* A failed restart comes back for the lock to report itself; by then the
\* name may be unloaded, or loaded again.
ReportRestartFailure(m, by) ==
    /\ op = Idle
    /\ \/ by = "own" /\ retry[m] = "reporting" /\ UNCHANGED lateReports
       \/ /\ by = "late" /\ lateReports[m] > 0
          /\ lateReports' = [lateReports EXCEPT ![m] = @ - 1]
    /\ IF IsLoaded(m)
       THEN Fail(m, by = "own") /\ inst' = Cancel(loaded[m].inst)
       ELSE UNCHANGED <<loaded, seen, retry, lateTimers, inst>>
    /\ UNCHANGED <<phase, op, nextSeq, enabled, disk, todo, wanted, younger,
                   saveFailed>>

\* The backoff has elapsed and perform_scheduled_restart takes the lock.  The
\* name is all it was given: whatever is loaded under it now is restarted.
RestartBegin(m, by) ==
    /\ op = Idle /\ Up
    /\ \/ /\ by = "own" /\ retry[m] = "sleeping"
          /\ retry' = [retry EXCEPT ![m] = "none"]
          /\ UNCHANGED lateTimers
       \/ /\ by = "late" /\ lateTimers[m] > 0
          /\ lateTimers' = [lateTimers EXCEPT ![m] = @ - 1]
          /\ UNCHANGED retry
    /\ IF IsLoaded(m)
       THEN /\ HandleLeft
            /\ op' = [kind |-> "restart", step |-> "stop", mod |-> m,
                      inst |-> loaded[m].inst, by |-> by]
            /\ inst' = Cancel(loaded[m].inst)
            /\ loaded' = [loaded EXCEPT ![m].taint =
                             IF by = "late" THEN @ \union {"stale"} ELSE @]
       ELSE UNCHANGED <<op, inst, loaded>>
    /\ UNCHANGED <<phase, nextSeq, lateReports, enabled, disk, todo, seen,
                   wanted, younger, saveFailed>>

\* Mutant: the old instance is replaced without being stopped.
OldNotStopped ==
    /\ op.kind = "restart" /\ op.step = "stop"
    /\ op' = [op EXCEPT !.step = "instantiate", !.inst = None]
    /\ UNCHANGED <<phase, loaded, inst, nextSeq, retry, lateTimers, lateReports,
                   enabled, disk, todo, seen, wanted, younger, saveFailed>>

\* old_instance.stop() returned.
OldStopped ==
    /\ op.kind = "restart" /\ op.step = "stop"
    /\ inst' = [inst EXCEPT ![op.inst].life = "stopped"]
    /\ op' = [op EXCEPT !.step = "instantiate", !.inst = None]
    /\ UNCHANGED <<phase, loaded, nextSeq, retry, lateTimers, lateReports,
                   enabled, disk, todo, seen, wanted, younger, saveFailed>>

\* The new instance replaces the old; a restart task the old one was still
\* waiting for (the restart was somebody else's) now belongs to nobody.
RestartStarted ==
    /\ op.kind = "restart" /\ op.step = "start"
    /\ inst' = [inst EXCEPT ![op.inst] = Started(op.mod)]
    /\ loaded' = [loaded EXCEPT ![op.mod] = RestartedEntry(@, op.inst)]
    /\ seen' = [seen EXCEPT ![op.mod] = "running"]
    /\ Disown(op.mod)
    /\ op' = Idle
    /\ UNCHANGED <<phase, nextSeq, enabled, disk, todo, wanted, younger,
                   saveFailed>>

\* shutdown cancels life_token: sleeping restart tasks end.
RestartAbandoned(m) ==
    /\ phase = "stopping"
    /\ \/ retry[m] = "sleeping" /\ retry' = [retry EXCEPT ![m] = "none"]
          /\ UNCHANGED lateTimers
       \/ lateTimers[m] > 0 /\ lateTimers' = [lateTimers EXCEPT ![m] = @ - 1]
          /\ UNCHANGED retry
    /\ UNCHANGED <<phase, op, loaded, inst, nextSeq, lateReports, enabled,
                   disk, todo, seen, wanted, younger, saveFailed>>

-----------------------------------------------------------------------------
(* The health-poll task of instance i *)

\* The interval elapsed and health() is called.  A cancelled loop may still
\* take this branch: select! picks at random when both are ready.
PollTick(i) ==
    /\ inst[i].poll = "sleeping"
    /\ inst' = [inst EXCEPT ![i].poll = "probing"]
    /\ UNCHANGED <<phase, op, loaded, nextSeq, retry, lateTimers, lateReports,
                   enabled, disk, todo, seen, wanted, younger, saveFailed>>

PollExit(i) ==
    /\ inst[i].poll = "sleeping" /\ inst[i].cancelled
    /\ inst' = [inst EXCEPT ![i].poll = "none"]
    /\ UNCHANGED <<phase, op, loaded, nextSeq, retry, lateTimers, lateReports,
                   enabled, disk, todo, seen, wanted, younger, saveFailed>>

\* Mutant: no event is published.
SetStateSilently(m, s, i) ==
    /\ loaded' = [loaded EXCEPT
          ![m].state = s,
          ![m].taint = IF loaded[m].inst = i THEN @ ELSE @ \union {"stale"}]
    /\ UNCHANGED seen

\* mark_degraded and restore_running_if_degraded: the state is overwritten
\* whatever it is, respectively only when it is degraded.
SetState(m, s, i) ==
    /\ loaded' = [loaded EXCEPT
          ![m].state = s,
          ![m].taint = IF loaded[m].inst = i THEN @ ELSE @ \union {"stale"}]
    /\ seen' = [seen EXCEPT ![m] = s]

\* poll_health_once has its report and the lock.  The report is whatever
\* health() answers, so it is chosen here; the entry found under the name may
\* belong to a younger instance than the one probed.
ProbeApply(m, i, level) ==
    /\ op = Idle /\ Up
    /\ inst[i].poll = "probing" /\ inst[i].mod = m
    /\ \/ /\ level = "healthy" /\ loaded[m].state = "degraded"
          /\ SetState(m, "running", i)
          /\ inst' = [inst EXCEPT ![i] = AfterProbe(@)]
          /\ UNCHANGED <<retry, lateTimers>>
       \/ /\ level = "degraded" /\ loaded[m].state \in {"running", "failed"}
          /\ SetState(m, "degraded", i)
          /\ inst' = [inst EXCEPT ![i] = AfterProbe(@)]
          /\ UNCHANGED <<retry, lateTimers>>
       \/ /\ level = "unhealthy" /\ IsLoaded(m)
          /\ loaded[m].inst # i => LateRoom(m)
          /\ Fail(m, loaded[m].inst = i)
          /\ inst' = LET c == Cancel(loaded[m].inst)
                     IN  [c EXCEPT ![i] = AfterProbe(@)]
       \/ /\ \/ ~IsLoaded(m)
             \/ level = "healthy" /\ loaded[m].state # "degraded"
             \/ level = "degraded" /\ loaded[m].state = "degraded"
          /\ inst' = [inst EXCEPT ![i] = AfterProbe(@)]
          /\ UNCHANGED <<loaded, seen, retry, lateTimers>>
    /\ UNCHANGED <<phase, op, nextSeq, lateReports, enabled, disk, todo,
                   wanted, younger, saveFailed>>

\* The stability window of the entry's started_at passes.
StabilityElapses(m) ==
    /\ IsLoaded(m) /\ ~loaded[m].stable
    /\ loaded' = [loaded EXCEPT ![m].stable = TRUE]
    /\ UNCHANGED <<phase, op, inst, nextSeq, retry, lateTimers, lateReports,
                   enabled, disk, todo, seen, wanted, younger, saveFailed>>

-----------------------------------------------------------------------------
(* shutdown *)

\* The server has drained its requests; shutdown cancels life_token.
ShutdownBegin ==
    /\ phase = "serving" /\ op.by # "client"
    /\ phase' = "stopping"
    /\ UNCHANGED <<op, loaded, inst, nextSeq, retry, lateTimers, lateReports,
                   enabled, disk, todo, seen, wanted, younger, saveFailed>>

\* Mutant: shutdown first waits for the health-poll tasks.
ShutdownLockAfterPolls ==
    /\ phase = "stopping" /\ op = Idle
    /\ \A i \in Insts : inst[i].poll = "none"
    /\ op' = [kind |-> "shutdown", step |-> "next", mod |-> None,
              inst |-> None, by |-> "main"]
    /\ UNCHANGED <<phase, loaded, inst, nextSeq, retry, lateTimers,
                   lateReports, enabled, disk, todo, seen, wanted, younger,
                   saveFailed>>

ShutdownLock ==
    /\ phase = "stopping" /\ op = Idle
    /\ op' = [kind |-> "shutdown", step |-> "next", mod |-> None,
              inst |-> None, by |-> "main"]
    /\ UNCHANGED <<phase, loaded, inst, nextSeq, retry, lateTimers,
                   lateReports, enabled, disk, todo, seen, wanted, younger,
                   saveFailed>>

\* The youngest module by load_seq is next.
ShutdownStop(m) ==
    /\ op.kind = "shutdown" /\ op.step = "next"
    /\ IsLoaded(m)
    /\ \A n \in LoadedSet : loaded[n].seq <= loaded[m].seq
    /\ op' = [op EXCEPT !.step = "stop", !.mod = m, !.inst = loaded[m].inst]
    /\ inst' = Cancel(loaded[m].inst)
    /\ seen' = [seen EXCEPT ![m] = "stopping"]
    /\ UNCHANGED <<phase, loaded, nextSeq, retry, lateTimers, lateReports,
                   enabled, disk, todo, wanted, younger, saveFailed>>

ShutdownStopped ==
    /\ op.kind = "shutdown" /\ op.step = "stop"
    /\ RemoveEntry(op.mod)
    /\ op' = [op EXCEPT !.step = "next", !.mod = None, !.inst = None]
    /\ UNCHANGED <<phase, nextSeq, enabled, disk, todo, wanted, saveFailed>>

\* shutdown returned and run_daemon with it.
ShutdownExit ==
    /\ op.kind = "shutdown" /\ op.step = "next"
    /\ LoadedSet = {}
    /\ Gone

-----------------------------------------------------------------------------
(* Specification *)

\* What tasks do on their own once the lock is theirs.
LockedStep ==
    \/ Instantiate \/ InstantiateFails \/ StartFails \/ CleanedUp
    \/ \E ok \in BOOLEAN : InitReturns(ok)
    \/ LoadStarted \/ Unloaded \/ OldStopped \/ RestartStarted
    \/ ShutdownStopped \/ ShutdownExit
    \/ \E m \in Modules : ShutdownStop(m)

Next ==
    \/ Crash \/ Boot \/ Serve \/ DropRequest
    \/ ShutdownBegin \/ ShutdownLock
    \/ LockedStep
    \/ \E m \in Modules :
          \/ \E by \in {"client", "boot"} : LoadBegin(m, by)
          \/ UnloadBegin(m) \/ UnloadNotLoaded(m)
          \/ \E by \in {"own", "late"} :
                RestartBegin(m, by) \/ ReportRestartFailure(m, by)
          \/ RestartAbandoned(m) \/ StabilityElapses(m)
    \/ \E i \in Insts :
          \/ PollTick(i) \/ PollExit(i)
          \/ \E level \in {"healthy", "degraded", "unhealthy"} :
                \E m \in Modules : ProbeApply(m, i, level)

Spec == Init /\ [][Next]_vars

\* Modules' own calls return, so a locked step is taken.  tokio's RwLock is
\* FIFO: a task that asks for it again and again gets it.  Timers fire and
\* cancelled poll loops are woken.
Fairness ==
    /\ WF_vars(LockedStep)
    /\ SF_vars(ShutdownLock)
    /\ \A m \in Modules :
          /\ \A by \in {"own", "late"} :
                SF_vars(RestartBegin(m, by)) /\ SF_vars(ReportRestartFailure(m, by))
    /\ \A i \in Insts :
          /\ WF_vars(PollTick(i)) /\ WF_vars(PollExit(i))
          /\ SF_vars(\E level \in {"healthy", "degraded", "unhealthy"} :
                        \E m \in Modules : ProbeApply(m, i, level))

FairSpec == Spec /\ Fairness

-----------------------------------------------------------------------------
(* Properties *)

\* Every variable stays within its set of values.
TypeOK ==
    /\ phase \in Phases
    /\ op \in Op
    /\ loaded \in [Modules -> Entry]
    /\ inst \in [Insts -> Instance]
    /\ nextSeq \in Nat
    /\ retry \in [Modules -> Retries]
    /\ lateTimers \in [Modules -> Nat]
    /\ lateReports \in [Modules -> Nat]
    /\ enabled \subseteq Modules
    /\ disk \subseteq Modules
    /\ todo \subseteq Modules
    /\ seen \in [Modules -> ModuleStates]
    /\ wanted \subseteq Modules
    /\ younger \in [Modules -> SUBSET Modules]
    /\ saveFailed \in BOOLEAN

\* The entry of m is not in the middle of a critical section.
Settled(m) == op.mod # m

\* An instance that may be doing work and that somebody will stop.
Working(i) == inst[i].life \in {"created", "inited", "started"}

\* Two instances of one module are never at work together: a restart stops
\* the old instance, and a failed load or restart stops its own, before the
\* next one is created (load, perform_scheduled_restart,
\* stop_failed_instance), whichever tasks ask for restarts.
OneLiveInstance ==
    \A i, j \in Insts :
        Working(i) /\ Working(j) /\ inst[i].mod = inst[j].mod => i = j

\* What the table shows as running is an instance that was started, whose
\* health-poll loop is there and not cancelled: a later failure is noticed
\* (spawn_health_poll, report_failure).  Entries changed on behalf of an
\* older instance or by a dropped unload are exempt.
RunningIsMonitored ==
    \A m \in Modules :
        /\ loaded[m].state = "running" /\ loaded[m].taint = {} /\ Settled(m)
        => /\ inst[loaded[m].inst].life = "started"
           /\ inst[loaded[m].inst].poll # "none"
           /\ ~inst[loaded[m].inst].cancelled

\* A degraded module nobody polls any more still has its restart coming: a
\* timer, or a failed restart about to report itself (report_failure,
\* perform_scheduled_restart).
NoneStranded ==
    \A m \in Modules :
        /\ loaded[m].state = "degraded" /\ loaded[m].taint = {} /\ Settled(m)
        /\ inst[loaded[m].inst].cancelled
        /\ phase # "stopping"
        => retry[m] # "none"

\* No loaded module is left to itself: a running one is polled, a failed one has
\* its restart coming.
NoneForgotten == RunningIsMonitored /\ NoneStranded

\* Failed means that the budget is used up and nothing of the module's own is
\* scheduled; a scheduled restart means that budget is left
\* (report_failure's comparison with max_restarts).
ParkedAtBudget ==
    \A m \in Modules :
        loaded[m].taint = {} =>
            /\ loaded[m].state = "failed" => /\ loaded[m].attempt >= MaxRestarts
                                             /\ retry[m] = "none"
            /\ retry[m] # "none" => /\ loaded[m].attempt < MaxRestarts
                                    /\ loaded[m].state = "degraded"

\* Between critical sections the last StateChanged event a watcher saw for a
\* module is the state list() would show it, also when restarts fail, stale
\* probes arrive or requests are dropped before the module ran.
EventsMatchTable ==
    \A m \in Modules :
        /\ Settled(m) /\ retry[m] # "reporting" /\ lateReports[m] = 0
        /\ "dropped" \notin loaded[m].taint
        => IF IsLoaded(m) THEN seen[m] = loaded[m].state
                          ELSE seen[m] \notin {"running", "degraded", "failed"}

\* Shutdown stops a module only when every module loaded after it is gone,
\* whatever restarts happened in between (shutdown's sort by load_seq, which
\* perform_scheduled_restart carries over).
ShutdownIsLIFO ==
    op.kind = "shutdown" /\ op.step = "stop" => younger[op.mod] = {}

\* What is loaded is in the enabled set, so that the next save names it
\* (load's persisted.add, unload's remove after stop_locked).
LoadedIsEnabled == Up => LoadedSet \subseteq enabled

\* While saves and reads succeed, a daemon that dies at any point comes back
\* with every module that was loaded and not unloaded ("a daemon restart must
\* bring back exactly what was loaded before").
RestartRestores == ~saveFailed /\ ~ReadFaults => wanted \subseteq disk

\* "enabled.json only shrinks in response to a deliberate user action": a
\* name leaves the file only when its unload was answered, even when saves
\* fail (state.rs, start_enabled).
DiskShrinksOnUnload == [][\A m \in disk \ disk' : m \notin wanted']_vars

\* A module with a restart scheduled ends up running, failed or removed,
\* unless it has been in the table for a whole stability window: restarts
\* that keep failing use the budget up.
RestartsSettle ==
    \A m \in Modules :
        retry[m] # "none" ~> \/ loaded[m].state # "degraded"
                             \/ loaded[m].stable

\* shutdown ends: no restart or poll task can keep the lock from it, and it
\* stops every module.
ShutdownEnds == phase = "stopping" ~> phase = "down"

\* The health-poll loop of an instance that was replaced, parked or unloaded
\* comes to its end.
CancelledPollsEnd == \A i \in Insts : inst[i].cancelled ~> inst[i].poll = "none"

-----------------------------------------------------------------------------
(* What the documentation says and the code does not do *)

\* A module that reached Failed stays parked until it is unloaded
\* ("parks the module in Failed with no further restart scheduled").
FailedStaysParked ==
    [][\A m \in Modules : loaded[m].state = "failed" =>
          loaded'[m].state \in {"failed", "disabled"}]_vars

\* Failing restarts use the budget up whether or not the entry is old ("a
\* flapping module still burns through MAX_RESTARTS").
FlappingParks ==
    \A m \in Modules : retry[m] # "none" ~> loaded[m].state # "degraded"

\* The same as OneLiveInstance, counting what a dropped request leaves behind
\* ("the supervisor owns every module's lifecycle").
NoStrayInstance ==
    \A i, j \in Insts :
        /\ Working(i) \/ inst[i].life = "orphaned"
        /\ Working(j) \/ inst[j].life = "orphaned"
        /\ inst[i].mod = inst[j].mod
        => i = j

=============================================================================
