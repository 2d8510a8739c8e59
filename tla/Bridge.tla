------------------------------- MODULE Bridge -------------------------------
(***************************************************************************)
(* The waddlebot bridge (module.rs start and stop, bridge/mod.rs, http.rs, *)
(* unixsock.rs, token.rs, state.rs, relay.rs): every start of the module   *)
(* builds a new bridge, with its own tokens, TCP and unix listeners and    *)
(* event channel; stop cancels the listeners and waits for them.  What a   *)
(* listener has accepted runs on a task of its own: a unix connection and  *)
(* an event WebSocket are not part of what stop waits for.                 *)
(***************************************************************************)
EXTENDS Integers, FiniteSets

CONSTANTS
    Clients,      \* local programs, one connection each
    Integrations, \* names a client may give
    Allowed,      \* bridge.allowed_integrations
    MaxBridges,   \* bound: starts of the module
    MaxEvents,    \* bound: events published by one bridge
    Capacity      \* EVENT_CHANNEL_CAPACITY (64), small here

ASSUME BridgeAssumption ==
    /\ Allowed \subseteq Integrations /\ Capacity \in Nat \ {0}
    /\ MaxBridges \in Nat /\ MaxEvents \in Nat

VARIABLES
    brLife,    \* the start or stop in progress, or "idle"
    brRunning, \* the module's running flag
    brGen,     \* bridges built so far; a bridge is known by its number
    brTcp,     \* bridges whose TCP listener is bound
    brUnix,    \* bridges whose unix listener is accepting
    brHandle,  \* the bridge whose handle the module holds, 0 for none
    brExec,    \* the bridge whose executor is in the bridge action registry, 0 for none
    brConn,    \* per client: its connection
    brEvents,  \* per bridge: events published
    brLate     \* ghost: a start failed after its TCP listener was up
bridgeVars == <<brLife, brRunning, brGen, brTcp, brUnix, brHandle, brExec, brConn, brEvents, brLate>>

Bridges == 1..MaxBridges
\* A connection: its kind, its bridge, the name it gives and the one its token is for,
\* and, of an event stream, the events read and got.
Conn(kind, b, name, owner, read) ==
    [kind |-> kind, bridge |-> b, name |-> name, owner |-> owner, read |-> read, got |-> 0]
Closed == Conn("none", 0, "", "", 0)

BridgeInit ==
    /\ brLife = "idle" /\ brRunning = FALSE /\ brGen = 0
    /\ brTcp = {} /\ brUnix = {} /\ brHandle = 0 /\ brExec = 0
    /\ brConn = [c \in Clients |-> Closed]
    /\ brEvents = [b \in Bridges |-> 0]
    /\ brLate = FALSE

\* start: the flag is swapped first; a second start is a no-op.
Start ==
    /\ brLife = "idle" /\ ~brRunning /\ brGen < MaxBridges
    /\ brRunning' = TRUE
    /\ brGen' = brGen + 1
    /\ brLife' = "tcp"
    /\ UNCHANGED <<brTcp, brUnix, brHandle, brExec, brConn, brEvents, brLate>>

\* A failed start is followed by the supervisor's stop, which finds no handle.
StartFails ==
    /\ brRunning' = FALSE /\ brExec' = 0 /\ brLife' = "idle"
    /\ UNCHANGED <<brGen, brUnix, brHandle, brConn, brEvents>>

PortFree == brTcp = {}

\* start_tcp: the port must be free; the address may also be refused or in use
\* by another program.
StartTcp ==
    /\ brLife = "tcp"
    /\ \/ /\ PortFree
          /\ brTcp' = brTcp \cup {brGen}
          /\ brLife' = "unix"
          /\ UNCHANGED <<brRunning, brGen, brUnix, brHandle, brExec, brConn, brEvents>>
       \/ StartFails /\ UNCHANGED brTcp
    /\ UNCHANGED brLate

\* The rest of start_bridge, once both transports are up: the executor goes into
\* the registry, then the handle into the module.
Keeps == brExec' = brGen /\ brHandle' = brGen

\* start_unix, the adapters, bridge.started, and what the module keeps.  When the
\* socket cannot be bound the TCP task is left behind: its cancellation
\* token is dropped, not cancelled.
StartUnix ==
    /\ brLife = "unix"
    /\ \/ /\ brUnix' = brUnix \cup {brGen}
          /\ brEvents' = [brEvents EXCEPT ![brGen] = 1]
          /\ Keeps /\ brLife' = "idle"
          /\ UNCHANGED <<brRunning, brGen, brTcp, brConn, brLate>>
       \/ StartFails /\ brLate' = TRUE /\ UNCHANGED brTcp

\* stop: the flag, the handle and the cancellation.
Stop ==
    /\ brLife = "idle" /\ brRunning
    /\ brRunning' = FALSE
    /\ brLife' = "stopping"
    /\ UNCHANGED <<brGen, brTcp, brUnix, brHandle, brExec, brConn, brEvents, brLate>>

Cancelled(b, tcp) == tcp \ {b}

\* axum's graceful shutdown: no new connection, and the requests in progress
\* are served first.
InProgress(b) == \E c \in Clients : brConn[c].kind = "http" /\ brConn[c].bridge = b

\* handle.stop() has both tasks back; then the registry is cleared.
Stopped ==
    /\ brLife = "stopping" /\ ~InProgress(brHandle)
    /\ brTcp' = Cancelled(brHandle, brTcp)
    /\ brUnix' = brUnix \ {brHandle}
    /\ brHandle' = 0 /\ brExec' = 0 /\ brLife' = "idle"
    /\ UNCHANGED <<brRunning, brGen, brConn, brEvents, brLate>>

\* A bridge that has been told to stop accepts nothing more.
Accepts(b) == ~(brLife = "stopping" /\ b = brHandle)

\* rpc_handler and ws_handler: the token is one this bridge minted, and its
\* owner is the integration the request names.
MayCall(b, name, token) == token # Closed /\ token.bridge = b /\ token.name = name

\* POST /rpc: a bad token or name (401) and an unknown operation (403) leave no
\* trace; otherwise the call to the hub is under way.
HttpRequest(c, b, name, token) ==
    /\ brConn[c] = Closed /\ b \in brTcp /\ Accepts(b)
    /\ MayCall(b, name, token)
    /\ brConn' = [brConn EXCEPT ![c] = Conn("http", b, name, token.name, 0)]
    /\ UNCHANGED <<brLife, brRunning, brGen, brTcp, brUnix, brHandle, brExec, brEvents, brLate>>

\* The hub answers, or its 30 s pass, and the connection is done.
HttpAnswered(c) ==
    /\ brConn[c].kind = "http"
    /\ brConn' = [brConn EXCEPT ![c] = Closed]
    /\ UNCHANGED <<brLife, brRunning, brGen, brTcp, brUnix, brHandle, brExec, brEvents, brLate>>

\* GET /ws: forward_events starts with the events published from now on.
WsConnect(c, b, name, token) ==
    /\ brConn[c] = Closed /\ b \in brTcp /\ Accepts(b)
    /\ MayCall(b, name, token)
    /\ brConn' = [brConn EXCEPT ![c] = Conn("ws", b, name, token.name, brEvents[b])]
    /\ UNCHANGED <<brLife, brRunning, brGen, brTcp, brUnix, brHandle, brExec, brEvents, brLate>>

\* An adapter publishes: the OBS task, which stop does not end either.
PublishEvent(b) ==
    /\ b \in 1..brGen /\ brEvents[b] \in 1..(MaxEvents - 1)
    /\ brEvents' = [brEvents EXCEPT ![b] = @ + 1]
    /\ UNCHANGED <<brLife, brRunning, brGen, brTcp, brUnix, brHandle, brExec, brConn, brLate>>

\* Mutant: a subscriber that fell behind goes on with the oldest event kept.
OverrunSkips(w) == [w EXCEPT !.read = brEvents[w.bridge] - Capacity]
\* A subscriber that fell behind is disconnected.
Overrun(w) == Closed

\* forward_events: the next event, unless the channel has overwritten it.
ForwardEvent(c) ==
    LET w == brConn[c] IN
    /\ w.kind = "ws" /\ w.read < brEvents[w.bridge]
    /\ brConn' = [brConn EXCEPT ![c] =
         IF brEvents[w.bridge] - w.read > Capacity THEN Overrun(w)
         ELSE [w EXCEPT !.read = w.read + 1, !.got = w.got + 1]]
    /\ UNCHANGED <<brLife, brRunning, brGen, brTcp, brUnix, brHandle, brExec, brEvents, brLate>>

\* The unix socket: the peer's credentials are checked once, at the connection.
UnixConnect(c, b) ==
    /\ brConn[c] = Closed /\ b \in brUnix /\ Accepts(b)
    /\ brConn' = [brConn EXCEPT ![c] = Conn("unix", b, "", "", 0)]
    /\ UNCHANGED <<brLife, brRunning, brGen, brTcp, brUnix, brHandle, brExec, brEvents, brLate>>

\* One line, one request: the name alone is looked up, then relayed; the
\* operation must be one of the six, and an announcement needs its texts.
UnixRequest(c, name) ==
    /\ brConn[c].kind = "unix" /\ name \in Allowed
    /\ brConn' = [brConn EXCEPT ![c] = [@ EXCEPT !.name = name, !.owner = name]]
    /\ UNCHANGED <<brLife, brRunning, brGen, brTcp, brUnix, brHandle, brExec, brEvents, brLate>>

\* The peer closes a WebSocket or a unix connection.
Disconnects(c) ==
    /\ brConn[c].kind \in {"ws", "unix"}
    /\ brConn' = [brConn EXCEPT ![c] = Closed]
    /\ UNCHANGED <<brLife, brRunning, brGen, brTcp, brUnix, brHandle, brExec, brEvents, brLate>>

Tokens == [bridge : Bridges, name : Allowed] \cup {Closed}

BridgeNext ==
    \/ Start \/ StartTcp \/ StartUnix \/ Stop \/ Stopped
    \/ \E b \in Bridges : PublishEvent(b)
    \/ \E c \in Clients :
        \/ \E b \in Bridges, name \in Integrations, token \in Tokens :
             HttpRequest(c, b, name, token) \/ WsConnect(c, b, name, token)
        \/ HttpAnswered(c) \/ ForwardEvent(c) \/ Disconnects(c)
        \/ \E b \in Bridges : UnixConnect(c, b)
        \/ \E name \in Integrations : UnixRequest(c, name)

(***************************************************************************)
(* Properties.                                                             *)
(***************************************************************************)

\* Types; one bridge at most has the TCP port, and one the unix socket.
BridgeTypeOK ==
    /\ brLife \in {"idle", "tcp", "unix", "stopping"} /\ brRunning \in BOOLEAN
    /\ brTcp \subseteq 1..brGen /\ brUnix \subseteq 1..brGen
    /\ Cardinality(brTcp) <= 1 /\ Cardinality(brUnix) <= 1
    /\ brHandle \in 0..brGen /\ brExec \in 0..brGen

\* When neither start nor stop is under way, the module runs with a bridge that
\* listens on both sockets and serves bridge actions, or is stopped with none of
\* the three: start and stop leave no half of it (stop_bridge, start_bridge).
AllOrNothing ==
    brLife = "idle" =>
        /\ brRunning <=> brHandle # 0
        /\ brExec = brHandle
        /\ brHandle # 0 => brHandle \in brTcp /\ brHandle \in brUnix
        /\ brHandle = 0 => brUnix = {}

\* A listener outlives the bridge's handle only when a start failed after the
\* TCP listener was up (start_unix after start_tcp): stop itself leaves none.
LeakOnlyIfLate ==
    brLife = "idle" /\ ~brLate => brTcp \subseteq {brHandle} \ {0}

\* A client that gives a token acts under the name of the token's owner, on the
\* bridge that minted it: tokens of an earlier start are worth nothing.
SpeaksForItself ==
    \A c \in Clients : brConn[c].kind \in {"http", "ws"} => brConn[c].name = brConn[c].owner

\* The events a WebSocket gets are without a gap: it may end early, it never
\* skips (forward_events returns when the channel overran it).
EventsHaveNoGap ==
    [][\A c \in Clients :
         brConn[c].kind = "ws" /\ brConn'[c].kind = "ws" /\ brConn'[c].read # brConn[c].read
            => brConn'[c].read = brConn[c].read + 1 /\ brConn'[c].got = brConn[c].got + 1]_bridgeVars

\* A stop comes to an end: it waits for requests that the hub's timeout bounds.
StopEnds == (brLife = "stopping") ~> (brLife = "idle")
=============================================================================
