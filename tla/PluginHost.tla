----------------------------- MODULE PluginHost -----------------------------
(***************************************************************************)
(* The process behind one external plugin: PluginProcess (launch and       *)
(* shutdown, penguin-goplugin-host client.rs), the loader and the module   *)
(* that own it (penguin-daemon external.rs), and the calls the supervisor  *)
(* makes of them, which its lock puts one after another.                   *)
(*                                                                         *)
(* A call advances one action per await.  The plugin may exit or stop      *)
(* answering at any time; no RPC to it has a deadline, so a call to a      *)
(* plugin that hangs neither returns nor fails.                            *)
(***************************************************************************)
EXTENDS Naturals, FiniteSets

CONSTANTS
    Pids,           \* bound: processes that may ever be spawned
    None,
    ClientsVanish,  \* requests may be dropped with their connection
    PluginsHang     \* plugins may stop answering

ASSUME PluginAssumption ==
    /\ None \notin Pids
    /\ ClientsVanish \in BOOLEAN /\ PluginsHang \in BOOLEAN

VARIABLES
    proc,    \* the operating system's processes
    pc,      \* the await at which the supervisor's call is
    goal,    \* what that call is for
    client,  \* it belongs to a client's request
    cur,     \* the Child that the call owns
    entry,   \* the process whose module is in the supervisor's table
    owns,    \* that module's `process` has not been taken
    poll,    \* the module's health-poll task
    lost     \* history: how the last handle to a live process went away

vars == <<proc, pc, goal, client, cur, entry, owns, poll, lost>>

Launching == {"spawn", "handshake", "connect", "health", "dispense", "start"}
Stopping == {"wireStop", "shutdown", "grace", "reap"}
Rpcs == {"connect", "health", "dispense", "start", "wireStop", "shutdown"}

Init ==
    /\ proc = [p \in Pids |-> "free"]
    /\ pc = "idle" /\ goal = "load" /\ client = FALSE
    /\ cur = None /\ entry = None /\ owns = FALSE
    /\ poll = "off"
    /\ lost = [p \in Pids |-> "no"]

Live(p) == proc[p] \in {"running", "hung"}

\* The process that the call in progress is talking to.
Peer == IF pc = "wireStop" /\ goal \in {"unload", "restart"} THEN entry ELSE cur

\* A handle to a process goes away: nothing kills the process (the Command is
\* built without kill_on_drop).
Forget(p, why) ==
    /\ lost' = IF p # None /\ Live(p) THEN [lost EXCEPT ![p] = why] ELSE lost
    /\ cur' = None

-----------------------------------------------------------------------------

\* Supervisor::load resolves to PluginDirLoader::load.
Load(c) ==
    /\ pc = "idle" /\ entry = None
    /\ pc' = "spawn" /\ goal' = "load" /\ client' = c
    /\ UNCHANGED <<proc, cur, entry, owns, poll, lost>>

\* The call is over.  An unload removes the table's entry; a restart goes on
\* to launch the replacement; a launch that failed while a stale entry is in
\* the table is reported as a failure again, or parks the module.
Return ==
    /\ pc' = IF goal = "restart" THEN "spawn" ELSE "idle"
    /\ goal' = IF goal = "restart" THEN "reload" ELSE goal
    /\ entry' = IF goal = "unload" THEN None ELSE entry
    /\ IF entry # None /\ goal \in {"reload", "cleanup"}
       THEN poll' \in {"failed", "off"}
       ELSE UNCHANGED poll

\* No such plugin, or its manifest, signature or spawn fails.
SpawnFails ==
    /\ pc = "spawn"
    /\ Return
    /\ UNCHANGED <<proc, client, cur, owns, lost>>

\* spawn_plugin.
Spawn(p) ==
    /\ pc = "spawn" /\ proc[p] = "free"
    /\ proc' = [proc EXCEPT ![p] = "running"]
    /\ cur' = p
    /\ pc' = "handshake"
    /\ UNCHANGED <<goal, client, entry, owns, poll, lost>>

\* read_handshake_line: a line that parses.
HandshakeRead ==
    /\ pc = "handshake" /\ proc[cur] = "running"
    /\ pc' = "connect"
    /\ UNCHANGED <<proc, goal, client, cur, entry, owns, poll, lost>>

\* A bad line, the end of the pipe, or START_TIMEOUT: launch sends a SIGKILL,
\* which even a hung plugin obeys, and goes on to wait for the child.
HandshakeFails ==
    /\ pc = "handshake"
    /\ proc' = [proc EXCEPT ![cur] = "exited"]
    /\ pc' = "reap"
    /\ UNCHANGED <<goal, client, cur, entry, owns, poll, lost>>

\* The certificate, the target, TLS and the connection are all right.
Connected ==
    /\ pc = "connect" /\ proc[cur] = "running"
    /\ pc' = "health"
    /\ UNCHANGED <<proc, goal, client, cur, entry, owns, poll, lost>>

\* wait_for_health answers SERVING; launch returns.
Healthy ==
    /\ pc = "health" /\ proc[cur] = "running"
    /\ pc' = "dispense"
    /\ UNCHANGED <<proc, goal, client, cur, entry, owns, poll, lost>>

\* Any of the `?` of launch after the handshake.
LaunchFails ==
    /\ pc \in {"connect", "health"} /\ proc[cur] # "hung"
    /\ Return
    /\ Forget(cur, "launch failed")
    /\ UNCHANGED <<proc, client, owns>>

\* dispense: the Info call.
Dispensed ==
    /\ pc = "dispense" /\ proc[cur] = "running"
    /\ pc' = "start"
    /\ UNCHANGED <<proc, goal, client, cur, entry, owns, poll, lost>>

\* PluginDirLoader::load shuts the process down itself.
DispenseFails ==
    /\ pc = "dispense" /\ proc[cur] # "hung"
    /\ pc' = "shutdown" /\ goal' = "cleanup"
    /\ UNCHANGED <<proc, client, cur, entry, owns, poll, lost>>

\* Supervisor::load or perform_scheduled_restart enters the module in the
\* table and polls it (init is a no-op for a plugin).
Started ==
    /\ pc = "start" /\ proc[cur] = "running"
    /\ pc' = "idle"
    /\ entry' = cur /\ owns' = TRUE /\ cur' = None
    /\ poll' = "sleep"
    /\ UNCHANGED <<proc, goal, client, lost>>

\* stop_failed_instance.
StartFails ==
    /\ pc = "start" /\ proc[cur] # "hung"
    /\ pc' = "wireStop" /\ goal' = "cleanup"
    /\ UNCHANGED <<proc, client, cur, entry, owns, poll, lost>>

\* Supervisor::stop_locked, for unload or for the shutdown of the daemon.
Unload(c) ==
    /\ pc = "idle" /\ entry # None
    /\ pc' = "wireStop" /\ goal' = "unload" /\ client' = c
    /\ poll' = "off"
    /\ UNCHANGED <<proc, cur, entry, owns, lost>>

\* perform_scheduled_restart, after the poll has reported a failure.
Restart ==
    /\ pc = "idle" /\ entry # None /\ poll = "failed"
    /\ pc' = "wireStop" /\ goal' = "restart" /\ client' = FALSE
    /\ poll' = "off"
    /\ UNCHANGED <<proc, cur, entry, owns, lost>>

\* Mutant: the process is used and not taken.
WireStoppedUntaken ==
    /\ pc = "wireStop" /\ proc[Peer] # "hung"
    /\ pc' = "shutdown"
    /\ cur' = IF goal = "cleanup" THEN cur ELSE entry
    /\ UNCHANGED <<proc, goal, client, entry, owns, poll, lost>>

\* ExternalModule::stop: the wire-level stop returned, with or without an
\* error, and the process is taken, if it is still there.
WireStopped ==
    /\ pc = "wireStop" /\ proc[Peer] # "hung"
    /\ \/ /\ goal = "cleanup"
          /\ pc' = "shutdown"
          /\ UNCHANGED <<goal, cur, entry, owns, poll>>
       \/ /\ goal # "cleanup" /\ owns
          /\ pc' = "shutdown"
          /\ cur' = entry /\ owns' = FALSE
          /\ UNCHANGED <<goal, entry, poll>>
       \/ /\ goal # "cleanup" /\ ~owns
          /\ Return
          /\ UNCHANGED <<cur, owns>>
    /\ UNCHANGED <<proc, client, lost>>

\* PluginProcess::shutdown: GRPCController.Shutdown returned or failed.
ShutdownAnswered ==
    /\ pc = "shutdown" /\ proc[cur] # "hung"
    /\ pc' = "grace"
    /\ UNCHANGED <<proc, goal, client, cur, entry, owns, poll, lost>>

\* The child is gone within GRACEFUL_SHUTDOWN_TIMEOUT.
ExitedInTime ==
    /\ pc = "grace" /\ ~Live(cur)
    /\ Return
    /\ Forget(cur, "stopped")
    /\ UNCHANGED <<proc, client, owns>>

\* Mutant: the grace period has no end.
GraceForever ==
    /\ pc = "grace" /\ Live(cur)
    /\ UNCHANGED vars

\* It is not, and is sent a kill.
GraceOver ==
    /\ pc = "grace" /\ Live(cur)
    /\ proc' = [proc EXCEPT ![cur] = "exited"]
    /\ pc' = "reap"
    /\ UNCHANGED <<goal, client, cur, entry, owns, poll, lost>>

\* The killed child is waited for.
Reap ==
    /\ pc = "reap"
    /\ cur' = None
    /\ Return
    /\ UNCHANGED <<proc, client, owns, lost>>

\* The client's connection goes and the handler's future with it, at any
\* await; what the future owns is dropped.
DropRequest ==
    /\ ClientsVanish /\ client /\ pc \in Launching \cup Stopping
    /\ pc' = "idle"
    /\ Forget(cur, "dropped")
    /\ UNCHANGED <<proc, goal, client, entry, owns, poll>>

\* spawn_health_poll: the probe is sent.
Probe ==
    /\ poll = "sleep" /\ entry # None
    /\ poll' = "probing"
    /\ UNCHANGED <<proc, pc, goal, client, cur, entry, owns, lost>>

\* ModuleAdapter::health: a transport error reads as unhealthy; a plugin that
\* answers may say anything.
ProbeReturns ==
    /\ poll = "probing" /\ proc[entry] # "hung"
    /\ \/ poll' = "failed"
       \/ proc[entry] = "running" /\ poll' = "sleep"
    /\ UNCHANGED <<proc, pc, goal, client, cur, entry, owns, lost>>

\* The plugin's own doing.
PluginExits(p) ==
    /\ Live(p)
    /\ proc' = [proc EXCEPT ![p] = "exited"]
    /\ UNCHANGED <<pc, goal, client, cur, entry, owns, poll, lost>>

PluginHangs(p) ==
    /\ PluginsHang /\ proc[p] = "running"
    /\ proc' = [proc EXCEPT ![p] = "hung"]
    /\ UNCHANGED <<pc, goal, client, cur, entry, owns, poll, lost>>

\* The steps of the call in progress.
Advance ==
    \/ SpawnFails \/ HandshakeRead \/ HandshakeFails \/ Connected \/ Healthy
    \/ LaunchFails \/ Dispensed \/ DispenseFails \/ Started \/ StartFails
    \/ WireStopped \/ ShutdownAnswered \/ ExitedInTime \/ GraceOver \/ Reap
    \/ \E p \in Pids : Spawn(p)

Next ==
    \/ \E c \in BOOLEAN : Load(c) \/ Unload(c)
    \/ Restart \/ Advance \/ DropRequest \/ Probe \/ ProbeReturns
    \/ \E p \in Pids : PluginExits(p) \/ PluginHangs(p)

Spec == Init /\ [][Next]_vars

\* The runtime goes on with whatever can go on; timers and the lock's queue
\* let a restart begin.  Nothing is assumed of plugins or of clients.
Fairness == WF_vars(Advance) /\ WF_vars(Probe) /\ WF_vars(ProbeReturns) /\ SF_vars(Restart)

FairSpec == Spec /\ Fairness

-----------------------------------------------------------------------------

\* Type invariant; a call that is past its spawn has a process, and a module
\* in the table has had one.
TypeOK ==
    /\ proc \in [Pids -> {"free", "running", "hung", "exited"}]
    /\ pc \in {"idle"} \cup Launching \cup Stopping
    /\ goal \in {"load", "reload", "unload", "restart", "cleanup"}
    /\ client \in BOOLEAN
    /\ cur \in Pids \cup {None} /\ entry \in Pids \cup {None}
    /\ owns \in BOOLEAN /\ (owns => entry # None)
    /\ poll \in {"off", "sleep", "probing", "failed"}
    /\ lost \in [Pids -> {"no", "launch failed", "stopped", "dropped"}]
    /\ pc \in (Launching \ {"spawn"}) \cup (Stopping \ {"wireStop"}) => cur # None

\* Somebody still holds the process's Child: the call in progress, or the
\* module in the table.
Owned(p) == p = cur \/ (p = entry /\ owns)

\* external.rs: "the process must not survive a stop() call", and launch and
\* load clean up after a failed handshake and a failed dispense.  A live
\* process is owned, except after one of launch's late failures or after a
\* dropped request.
LostOnlyByLateFailure ==
    \A p \in Pids : Live(p) /\ ~Owned(p) => lost[p] \in {"launch failed", "dropped"}

\* Two handles would let one call kill what another is using: the table's
\* module and the call in progress never own the same process, and a process
\* that a call has taken from the table is never served again.
OneOwner ==
    /\ owns => cur # entry
    /\ pc = "idle" => cur = None

\* A plugin's process has one owner, who can kill it, but for the two known ways to
\* lose it (PluginProcess, ExternalModule::stop).
PluginIsOwned == TypeOK /\ LostOnlyByLateFailure /\ OneOwner

\* Every call of the supervisor ends (it holds the write lock meanwhile),
\* unless it is in an RPC to a plugin that hangs; the handshake, the grace
\* period and the kill end even then.
CallsEnd ==
    pc # "idle" ~> pc = "idle" \/ (pc \in Rpcs /\ proc[Peer] = "hung")

\* The health poll "is what makes crash detection real": a plugin that has
\* exited is taken out of service, unless an unload came first and ended the
\* poll (an unload whose client vanishes leaves the module in the table
\* without one).
ExitIsNoticed ==
    \A p \in Pids :
        entry = p /\ owns /\ proc[p] = "exited" /\ poll # "off"
            ~> entry # p \/ ~owns \/ goal = "unload"

\* ExternalModule::stop: "then unconditionally tears down its child process".
StopKills ==
    \A p \in Pids :
        pc = "wireStop" /\ entry = p /\ owns ~> ~Live(p)
=============================================================================
