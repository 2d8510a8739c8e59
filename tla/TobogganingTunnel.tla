------------------------- MODULE TobogganingTunnel -------------------------
(***************************************************************************)
(* The tobogganing module's tunnel: connect, disconnect and rotate         *)
(* (vpn.rs), which keep the state's mutex across the request to the        *)
(* manager and the backend's call; the backends (wireguard/); and the      *)
(* start, stop, monitor loop and commands of module.rs and commands.rs.    *)
(* The token is TobogganingAuth's: here ensure_valid_token answers or not. *)
(***************************************************************************)
EXTENDS Integers

CONSTANTS
    MaxRuns,     \* bound: calls of start
    MaxDeaths    \* bound: crashes of the daemon

ASSUME TunnelAssumption == MaxRuns \in Nat /\ MaxDeaths \in Nat

\* The monitor loop's tick, and a task for start's first connect and the commands.
TunnelUsers == {"monitor", "worker"}
Free == "free"

VARIABLES
    ttRunning,    \* running
    ttStarts,     \* calls of start so far
    ttLoop,       \* the monitor loop: off, on, or cancelled and not yet ended
    ttUser,       \* per task: the step it is at
    ttRotate,     \* the command is a rotate
    ttStop,       \* the step stop is at
    ttStopErr,    \* stop returns an error
    ttLock,       \* VpnManager.state's holder
    ttConnected,  \* VpnState.connected, and private_key with it
    ttEmbedded,   \* config.embedded: the userspace backend
    ttIface,      \* the interface: absent, up, half configured, closing
    ttGauge,      \* the tunnel_up gauge
    ttHealthy,    \* last_health is Healthy
    ttDeaths,
    ttExcuse      \* history: what has happened that explains a leftover
tunnelVars == <<ttRunning, ttStarts, ttLoop, ttUser, ttRotate, ttStop, ttStopErr, ttLock, ttConnected, ttEmbedded,
                ttIface, ttGauge, ttHealthy, ttDeaths, ttExcuse>>
ttLife == <<ttRunning, ttStarts, ttLoop, ttRotate, ttEmbedded, ttDeaths, ttStop, ttStopErr>>
ttDevice == <<ttLock, ttConnected, ttIface>>
ttSeen == <<ttGauge, ttHealthy>>

TunnelInit ==
    /\ ttRunning = FALSE /\ ttStarts = 0 /\ ttLoop = "off"
    /\ ttUser = [u \in TunnelUsers |-> "idle"] /\ ttRotate = FALSE
    /\ ttStop = "idle" /\ ttStopErr = FALSE
    /\ ttLock = Free /\ ttConnected = FALSE /\ ttEmbedded \in BOOLEAN /\ ttIface = "absent"
    /\ ttGauge = 0 /\ ttHealthy = FALSE /\ ttDeaths = 0 /\ ttExcuse = {}

TunnelAt(u, p) == ttUser[u] = p
TunnelTo(u, p) == ttUser' = [ttUser EXCEPT ![u] = p]
Rotates(u) == u = "worker" /\ ttRotate

MayEstablish == ttRunning

\* establish_tunnel: only a running module connects; the token comes first.
Establish(u) ==
    /\ TunnelAt(u, "establish")
    /\ TunnelTo(u, IF MayEstablish THEN "ensure" ELSE "idle")
    /\ UNCHANGED <<ttLife, ttDevice, ttSeen, ttExcuse>>

EnsureToken(u, ok) ==
    /\ TunnelAt(u, "ensure")
    /\ TunnelTo(u, IF ok THEN "connect" ELSE "idle")
    /\ UNCHANGED <<ttLife, ttDevice, ttSeen, ttExcuse>>

\* connect of a connected tunnel, or rotate of one that is not, is refused.
Refused(u) ==
    /\ TunnelAt(u, "connect") /\ ttLock = Free /\ ttConnected # Rotates(u)
    /\ TunnelTo(u, "idle")
    /\ UNCHANGED <<ttLife, ttDevice, ttSeen, ttExcuse>>

TakeLock(u) == ttLock = Free /\ ttLock' = u

\* Otherwise the mutex is kept and the configuration is fetched.
FetchConfig(u) ==
    /\ TunnelAt(u, "connect") /\ ttConnected = Rotates(u) /\ TakeLock(u)
    /\ TunnelTo(u, "fetch")
    /\ UNCHANGED <<ttLife, ttConnected, ttIface, ttSeen, ttExcuse>>

\* There is no token, the manager refuses or does not answer in HTTP_TIMEOUT, or
\* build_tunnel_spec cannot parse what it sent.
FetchFails(u) ==
    /\ TunnelAt(u, "fetch")
    /\ TunnelTo(u, "idle") /\ ttLock' = Free
    /\ UNCHANGED <<ttLife, ttConnected, ttIface, ttSeen, ttExcuse>>

FetchAnswered(u) ==
    /\ TunnelAt(u, "fetch") /\ TunnelTo(u, "apply")
    /\ UNCHANGED <<ttLife, ttDevice, ttSeen, ttExcuse>>

\* The userspace backend opens the device anew, which the kernel refuses while
\* another descriptor has it; the kernel backend reconfigures what is there.
CanOpen == ttEmbedded => ttIface = "absent"

\* backend.apply succeeds: the interface is up and, for connect, connected is set.
ApplySucceeds(u) ==
    /\ TunnelAt(u, "apply") /\ CanOpen
    /\ ttIface' = "up" /\ ttConnected' = TRUE /\ ttLock' = Free
    /\ TunnelTo(u, IF Rotates(u) THEN "idle" ELSE "gaugeUp")
    /\ UNCHANGED <<ttLife, ttSeen, ttExcuse>>

\* It fails: the kernel backend may have created the interface by then, and does
\* not remove it.
ApplyFails(u, half) ==
    /\ TunnelAt(u, "apply") /\ (half => ~ttEmbedded)
    /\ ttIface' = IF half /\ ttIface = "absent" THEN "half" ELSE ttIface
    /\ ttExcuse' = IF half THEN ttExcuse \cup {"half"} ELSE ttExcuse
    /\ TunnelTo(u, "idle") /\ ttLock' = Free
    /\ UNCHANGED <<ttLife, ttConnected, ttSeen>>

\* teardown: the kernel removes the interface; the userspace loop is cancelled,
\* and closes the device when it notices.
TornDown == IF ttEmbedded THEN "closing" ELSE "absent"

DeviceCloses ==
    /\ ttIface = "closing" /\ ttIface' = "absent"
    /\ UNCHANGED <<ttLife, ttUser, ttLock, ttConnected, ttSeen, ttExcuse>>

\* disconnect: nothing to do, done, or failed with the tunnel kept.
Disconnect(ok) ==
    /\ ttLock = Free
    /\ ttConnected' = (ttConnected /\ ~ok)
    /\ ttIface' = IF ttConnected /\ ok THEN TornDown ELSE ttIface
    /\ ttExcuse' = IF ttConnected /\ ok /\ \E u \in TunnelUsers : TunnelAt(u, "gaugeUp")
                   THEN ttExcuse \cup {"gauge"} ELSE ttExcuse
    /\ ttLock' = ttLock

DisconnectCommand(u, ok) ==
    /\ TunnelAt(u, "disconnect") /\ Disconnect(ok)
    /\ TunnelTo(u, IF ttConnected' THEN "idle" ELSE "gaugeDown")
    /\ UNCHANGED <<ttLife, ttSeen>>

GaugeOf(u) == IF TunnelAt(u, "gaugeUp") THEN 1 ELSE 0

\* The gauge is set when connect or disconnect has returned, without the mutex.
SetGauge(u) ==
    /\ ttUser[u] \in {"gaugeUp", "gaugeDown"}
    /\ ttGauge' = GaugeOf(u)
    /\ TunnelTo(u, "idle")
    /\ UNCHANGED <<ttLife, ttDevice, ttHealthy, ttExcuse>>

\* Mutant: a tunnel that is down leaves the last report as it is.
ProbedLazily(fine) == IF ttConnected THEN fine ELSE ttHealthy
\* update_health_probe: down is unhealthy, else the handshake's age decides.
Probed(fine) == ttConnected /\ fine

\* start: the loop, a first probe, and the first connect on a task of its own.
ModuleStart(fine) ==
    /\ ~ttRunning /\ ttStop = "idle" /\ ttStarts < MaxRuns /\ TunnelAt("worker", "idle") /\ ttLock = Free
    /\ ttRunning' = TRUE /\ ttStarts' = ttStarts + 1 /\ ttGauge' = 0 /\ ttLoop' = "on"
    /\ ttHealthy' = Probed(fine)
    /\ TunnelTo("worker", "establish") /\ ttRotate' = FALSE
    /\ UNCHANGED <<ttEmbedded, ttDeaths, ttDevice, ttStop, ttStopErr, ttExcuse>>

\* A command: connect, rotate or disconnect.
Command(c) ==
    /\ TunnelAt("worker", "idle") /\ ttStarts > 0
    /\ ttRotate' = (c = "rotate")
    /\ TunnelTo("worker", CASE c = "connect" -> "establish" [] c = "rotate" -> "connect" [] OTHER -> c)
    /\ UNCHANGED <<ttRunning, ttStarts, ttLoop, ttEmbedded, ttDeaths, ttStop, ttStopErr, ttDevice, ttSeen, ttExcuse>>

\* monitor_loop's tick.  A loop that was cancelled may still take one that was due.
MonitorTick ==
    /\ ttLoop # "off" /\ TunnelAt("monitor", "idle")
    /\ TunnelTo("monitor", "probe")
    /\ UNCHANGED <<ttLife, ttDevice, ttSeen, ttExcuse>>

MonitorProbes(fine) ==
    /\ TunnelAt("monitor", "probe") /\ ttLock = Free
    /\ ttHealthy' = Probed(fine)
    /\ TunnelTo("monitor", "check")
    /\ UNCHANGED <<ttLife, ttDevice, ttGauge, ttExcuse>>

MonitorReconnects ==
    /\ TunnelAt("monitor", "check") /\ ttLock = Free
    /\ TunnelTo("monitor", IF ttConnected THEN "idle" ELSE "establish")
    /\ UNCHANGED <<ttLife, ttDevice, ttSeen, ttExcuse>>

\* The loop sees its cancellation, between two arms.
MonitorEnds ==
    /\ ttLoop = "cancelled" /\ TunnelAt("monitor", "idle") /\ ttLoop' = "off"
    /\ UNCHANGED <<ttRunning, ttStarts, ttRotate, ttEmbedded, ttDeaths, ttStop, ttStopErr, ttUser, ttDevice, ttSeen,
                   ttExcuse>>

\* A connect that has passed the running check.
UnderWay(u) == ttUser[u] \in {"ensure", "connect", "fetch", "apply", "gaugeUp"}

\* stop: running is cleared and the loop is cancelled ...
StopBegins ==
    /\ ttRunning /\ ttStop = "idle"
    /\ ttRunning' = FALSE /\ ttStop' = "disconnect" /\ ttStopErr' = FALSE /\ ttLoop' = "cancelled"
    /\ ttExcuse' = IF \E u \in TunnelUsers : UnderWay(u) THEN ttExcuse \cup {"overtaken"} ELSE ttExcuse
    /\ UNCHANGED <<ttStarts, ttRotate, ttEmbedded, ttDeaths, ttUser, ttDevice, ttSeen>>

\* ... the tunnel is disconnected (a failure is kept for the end) ...
StopDisconnects(ok) ==
    /\ ttStop = "disconnect" /\ Disconnect(ok)
    /\ ttStopErr' = ttConnected' /\ ttStop' = "revoke"
    /\ UNCHANGED <<ttRunning, ttStarts, ttLoop, ttRotate, ttEmbedded, ttDeaths, ttUser, ttSeen>>

\* ... the token is revoked, whatever became of the tunnel, and the gauge is 0.
StopReturns ==
    /\ ttStop = "revoke"
    /\ ttGauge' = 0 /\ ttStop' = "idle"
    /\ UNCHANGED <<ttRunning, ttStarts, ttLoop, ttRotate, ttEmbedded, ttDeaths, ttStopErr, ttUser, ttDevice,
                   ttHealthy, ttExcuse>>

\* The daemon dies and comes back: a kernel interface outlives it.
DieAndBoot ==
    /\ ttDeaths < MaxDeaths /\ ttStarts > 0
    /\ ttDeaths' = ttDeaths + 1
    /\ ttRunning' = FALSE /\ ttLoop' = "off" /\ ttRotate' = FALSE
    /\ ttUser' = [u \in TunnelUsers |-> "idle"] /\ ttLock' = Free
    /\ ttStop' = "idle" /\ ttStopErr' = TRUE
    /\ ttConnected' = FALSE /\ ttIface' = IF ttEmbedded THEN "absent" ELSE ttIface
    /\ ttGauge' = 0 /\ ttHealthy' = FALSE
    /\ ttExcuse' = IF ttIface' # "absent" THEN {"half"} ELSE {}
    /\ UNCHANGED <<ttStarts, ttEmbedded>>

TunnelStep(u) ==
    \/ Establish(u) \/ Refused(u) \/ FetchConfig(u) \/ FetchFails(u) \/ FetchAnswered(u)
    \/ ApplySucceeds(u) \/ SetGauge(u)
    \/ \E b \in BOOLEAN : EnsureToken(u, b) \/ ApplyFails(u, b) \/ DisconnectCommand(u, b)
    \/ u = "monitor" /\ (MonitorReconnects \/ \E b \in BOOLEAN : MonitorProbes(b))

StopStep == StopReturns \/ \E b \in BOOLEAN : StopDisconnects(b)

TunnelNext ==
    \/ \E u \in TunnelUsers : TunnelStep(u)
    \/ StopStep \/ StopBegins \/ MonitorTick \/ MonitorEnds \/ DeviceCloses \/ DieAndBoot
    \/ \E b \in BOOLEAN : ModuleStart(b)
    \/ \E c \in {"connect", "rotate", "disconnect"} : Command(c)

TunnelSpec == TunnelInit /\ [][TunnelNext]_tunnelVars

----------------------------------------------------------------------------
\* Types; and the mutex is held exactly by the task between its request and the
\* end of the backend's call.
TunnelTypeOK ==
    /\ ttIface \in {"absent", "up", "half", "closing"} /\ ttGauge \in {0, 1}
    /\ ttExcuse \subseteq {"overtaken", "half", "gauge"}
    /\ \A u \in TunnelUsers : ttUser[u] \in {"fetch", "apply"} <=> ttLock = u

\* stop tears the tunnel down: after one that reported no error the interface is
\* gone, unless a connect had passed establish_tunnel's check before it, or an
\* interface was left by an apply that failed half way or by a crash.
TunnelEndsWithStop ==
    /\ ttStarts > 0 /\ ~ttRunning /\ ttStop = "idle" /\ ~ttStopErr
    /\ ttExcuse \cap {"overtaken", "half"} = {}
    => ~ttConnected /\ ttIface \in {"absent", "closing"}

\* A tunnel that is said to be connected is configured, and a userspace device
\* that is open is the connected one, whatever connect, disconnect, rotate, stop
\* and restarts have done to it.
ConnectedIsApplied == /\ ttConnected => ttIface = "up"
                      /\ ttEmbedded /\ ttIface = "up" => ttConnected

\* tunnel_up is 1 with the tunnel down only if a disconnect came between a
\* connect and its setting the gauge.
GaugeLiesOnlyInRace ==
    ttGauge = 1 /\ ~ttConnected /\ "gauge" \notin ttExcuse
    => ttStop = "revoke" \/ \E u \in TunnelUsers : TunnelAt(u, "gaugeDown")

\* A tunnel that is down does not stay healthy: the monitor notices.
DownIsNoticed == ttRunning /\ ~ttConnected ~> ~ttRunning \/ ttConnected \/ ~ttHealthy
=============================================================================
