--------------------------- MODULE DaemonProcess ---------------------------
(***************************************************************************)
(* A daemon from launch to exit (daemon_main.rs run_daemon, lock.rs, the   *)
(* listener and the peer check of penguin-ipc) and its clients.  Two       *)
(* processes may be launched, with one state directory or with two; the    *)
(* lock is in the state directory, the control socket is at one path.      *)
(***************************************************************************)
EXTENDS Integers, FiniteSets

CONSTANTS
    Processes,   \* launches of penguind at a time
    Peers,       \* clients: root, the daemon's own user, a user
    MaxKills     \* bound: crashes, kills and early signals

ASSUME ProcessAssumption == Processes \subseteq Nat \ {0} /\ MaxKills \in Nat

NoProcess == 0

VARIABLES
    dpDir,      \* per process: its --state-dir
    dpAt,       \* per process: where run_daemon is
    dpLock,     \* per state directory: the process that holds penguind.lock
    dpSocket,   \* the process whose socket is at the path
    dpModules,  \* processes whose modules have been started and not stopped
    dpConn,     \* per peer: the process it is connected to
    dpStream,   \* per peer: it has an event stream open
    dpInGroup,  \* users in the configured group, as the group database says
    dpGroup,    \* the configured group: none, one that does not exist, or one that does
    dpGid,      \* per peer: its connection's own group is the configured one
    dpKills,
    dpCut       \* history: processes that did not end by themselves after serving
daemonVars == <<dpDir, dpAt, dpLock, dpSocket, dpModules, dpConn, dpStream, dpInGroup, dpGroup, dpGid, dpKills, dpCut>>
clientVars == <<dpConn, dpStream, dpGid>>
groupVars == <<dpInGroup, dpGroup>>

Dirs == {"a", "b"}

DaemonInit ==
    /\ dpDir \in {[i \in Processes |-> "a"], [i \in Processes |-> IF i = 1 THEN "a" ELSE "b"]}
    /\ dpAt = [i \in Processes |-> "down"] /\ dpLock = [d \in Dirs |-> NoProcess] /\ dpSocket = NoProcess
    /\ dpModules = {} /\ dpConn = [p \in Peers |-> NoProcess] /\ dpStream = [p \in Peers |-> FALSE]
    /\ dpInGroup \in {{}, {"user"}} /\ dpGroup \in {"none", "unknown", "known"}
    /\ dpGid = [p \in Peers |-> FALSE] /\ dpKills = 0 /\ dpCut = {}

GoesTo(i, p) == dpAt' = [dpAt EXCEPT ![i] = p]
SameDir == \A i, j \in Processes : dpDir[i] = dpDir[j]

\* The process is gone: its connections with it.
Gone(i) ==
    /\ GoesTo(i, "down")
    /\ dpConn' = [p \in Peers |-> IF dpConn[p] = i THEN NoProcess ELSE dpConn[p]]
    /\ dpStream' = [p \in Peers |-> dpStream[p] /\ dpConn[p] # i]
    /\ UNCHANGED dpGid

\* Drop, or the operating system: the file stays, the lock does not.
Unlocked(i) == [dpLock EXCEPT ![dpDir[i]] = IF @ = i THEN NoProcess ELSE @]

----------------------------------------------------------------------------
\* Configuration falls back to defaults; the state directory is made.
Launch(i) ==
    /\ dpAt[i] = "down" /\ GoesTo(i, "lock")
    /\ UNCHANGED <<dpDir, dpLock, dpSocket, dpModules, clientVars, groupVars, dpKills, dpCut>>

\* try_lock_exclusive
LockFree(i) == dpLock[dpDir[i]] = NoProcess

AcquireLock(i) ==
    /\ dpAt[i] = "lock"
    /\ IF LockFree(i) THEN GoesTo(i, "open") /\ dpLock' = [dpLock EXCEPT ![dpDir[i]] = i]
       ELSE GoesTo(i, "down") /\ UNCHANGED dpLock
    /\ UNCHANGED <<dpDir, dpSocket, dpModules, clientVars, groupVars, dpKills, dpCut>>

\* A log level that is none, or a secret store that does not open.
OpenFails(i) ==
    /\ dpAt[i] = "open" /\ GoesTo(i, "down") /\ dpLock' = Unlocked(i)
    /\ UNCHANGED <<dpDir, dpSocket, dpModules, clientVars, groupVars, dpKills, dpCut>>

\* The licence refresh and the enabled modules start before there is a socket.
StartEnabled(i) ==
    /\ dpAt[i] = "open" /\ GoesTo(i, "stale")
    /\ dpModules' = dpModules \cup {i} /\ dpCut' = dpCut \ {i}
    /\ UNCHANGED <<dpDir, dpLock, dpSocket, clientVars, groupVars, dpKills>>

\* remove_stale_socket asks nobody whose it is.
RemoveStaleSocket(i) ==
    /\ dpAt[i] = "stale" /\ GoesTo(i, "bind") /\ dpSocket' = NoProcess
    /\ UNCHANGED <<dpDir, dpLock, dpModules, clientVars, groupVars, dpKills, dpCut>>

Bind(i) ==
    /\ dpAt[i] = "bind" /\ dpSocket = NoProcess
    /\ GoesTo(i, "serving") /\ dpSocket' = i
    /\ UNCHANGED <<dpDir, dpLock, dpModules, clientVars, groupVars, dpKills, dpCut>>

\* The path is too long or taken, the directory cannot be made or its mode set:
\* run_daemon returns, and the modules it started are not stopped.
ListenFails(i) ==
    /\ dpAt[i] \in {"stale", "bind"}
    /\ GoesTo(i, "down") /\ dpLock' = Unlocked(i) /\ dpCut' = dpCut \cup {i}
    /\ UNCHANGED <<dpDir, dpSocket, dpModules, clientVars, groupVars, dpKills>>

\* SIGTERM or SIGINT; a second one changes nothing.
Signal(i) ==
    /\ dpAt[i] = "serving" /\ GoesTo(i, "draining")
    /\ UNCHANGED <<dpDir, dpLock, dpSocket, dpModules, clientVars, groupVars, dpKills, dpCut>>

Streams(i) == {p \in Peers : dpConn[p] = i /\ dpStream[p]}

\* serve_with_incoming_shutdown returns when no call is in flight.
Drained(i) == Streams(i) = {}

\* Supervisor::shutdown
ModulesAfter(i) == dpModules \ {i}

ShutdownModules(i) ==
    /\ dpAt[i] = "draining" /\ Drained(i)
    /\ GoesTo(i, "refresh") /\ dpModules' = ModulesAfter(i)
    /\ dpConn' = [p \in Peers |-> IF dpConn[p] = i THEN NoProcess ELSE dpConn[p]]
    /\ dpStream' = [p \in Peers |-> dpStream[p] /\ dpConn[p] # i]
    /\ UNCHANGED <<dpDir, dpLock, dpSocket, dpGid, groupVars, dpKills, dpCut>>

\* The guard lives to the end of run_daemon.
LockAfter(i) == dpLock

\* license_refresh.stop
RefreshStops(i) ==
    /\ dpAt[i] = "refresh" /\ GoesTo(i, "remove") /\ dpLock' = LockAfter(i)
    /\ UNCHANGED <<dpDir, dpSocket, dpModules, clientVars, groupVars, dpKills, dpCut>>

\* The file at the path is removed, whosever it is.
RemoveSocket(i) ==
    /\ dpAt[i] = "remove" /\ GoesTo(i, "exit")
    /\ dpSocket' = NoProcess
    /\ UNCHANGED <<dpDir, dpLock, dpModules, clientVars, groupVars, dpKills, dpCut>>

Exit(i) ==
    /\ dpAt[i] = "exit" /\ GoesTo(i, "down") /\ dpLock' = Unlocked(i)
    /\ UNCHANGED <<dpDir, dpSocket, dpModules, clientVars, groupVars, dpKills, dpCut>>

\* A crash or SIGKILL; before serving a signal does the same.
ProcessKilled(i) ==
    /\ dpAt[i] # "down" /\ dpKills < MaxKills /\ dpKills' = dpKills + 1
    /\ Gone(i) /\ dpLock' = Unlocked(i) /\ dpCut' = dpCut \cup {i}
    /\ UNCHANGED <<dpDir, dpSocket, dpModules, groupVars>>

----------------------------------------------------------------------------
\* A client connects to the socket at the path; SO_PEERCRED is taken there.
Connect(p, gid) ==
    /\ dpConn[p] = NoProcess /\ dpSocket # NoProcess /\ dpAt[dpSocket] = "serving"
    /\ gid => p \in dpInGroup /\ dpGroup = "known"
    /\ dpConn' = [dpConn EXCEPT ![p] = dpSocket] /\ dpGid' = [dpGid EXCEPT ![p] = gid]
    /\ UNCHANGED <<dpDir, dpAt, dpLock, dpSocket, dpModules, dpStream, groupVars, dpKills, dpCut>>

\* Mutant: a group that does not exist lets everybody in.
AuthorizedOpen(p) == p \in {"root", "daemon"} \/ dpGroup = "unknown" \/ dpGid[p] \/ p \in dpInGroup
\* is_authorized, for every call: the group database is asked each time, after
\* the group the connection came with.
Authorized(p) == p \in {"root", "daemon"} \/ (dpGroup = "known" /\ (dpGid[p] \/ p \in dpInGroup))

\* WatchEvents or TailLogs; other calls come and go.
OpenStream(p) ==
    /\ dpConn[p] # NoProcess /\ dpAt[dpConn[p]] = "serving" /\ ~dpStream[p] /\ Authorized(p)
    /\ dpStream' = [dpStream EXCEPT ![p] = TRUE]
    /\ UNCHANGED <<dpDir, dpAt, dpLock, dpSocket, dpModules, dpConn, dpGid, groupVars, dpKills, dpCut>>

\* The client goes, with its stream; the daemon never ends one.
Disconnect(p) ==
    /\ dpConn[p] # NoProcess
    /\ dpConn' = [dpConn EXCEPT ![p] = NoProcess] /\ dpStream' = [dpStream EXCEPT ![p] = FALSE]
    /\ dpGid' = [dpGid EXCEPT ![p] = FALSE]
    /\ UNCHANGED <<dpDir, dpAt, dpLock, dpSocket, dpModules, groupVars, dpKills, dpCut>>

\* An administrator changes who is in the group.
Regroup ==
    /\ dpInGroup' = {"user"} \ dpInGroup
    /\ UNCHANGED <<dpDir, dpAt, dpLock, dpSocket, dpModules, clientVars, dpGroup, dpKills, dpCut>>

ProcessStep(i) ==
    \/ AcquireLock(i) \/ OpenFails(i) \/ StartEnabled(i) \/ RemoveStaleSocket(i) \/ Bind(i) \/ ListenFails(i)
    \/ ShutdownModules(i) \/ RefreshStops(i) \/ RemoveSocket(i) \/ Exit(i)

DaemonNext ==
    \/ \E i \in Processes : ProcessStep(i) \/ Launch(i) \/ Signal(i) \/ ProcessKilled(i)
    \/ \E p \in Peers : (\E gid \in BOOLEAN : Connect(p, gid)) \/ OpenStream(p) \/ Disconnect(p)
    \/ Regroup

\* A process goes on with what it is doing; a client need not leave.
DaemonSpec == DaemonInit /\ [][DaemonNext]_daemonVars /\ \A i \in Processes : WF_daemonVars(ProcessStep(i))

----------------------------------------------------------------------------
\* Types; and a process that is past its lock is the one that holds it, so that two
\* daemons never share a state directory.
DaemonTypeOK ==
    /\ \A i \in Processes : dpAt[i] \notin {"down", "lock"} => dpLock[dpDir[i]] = i
    /\ dpSocket \in Processes \cup {NoProcess} /\ dpModules \subseteq Processes

\* The daemon that serves is the one at the path, from its bind to its drain, if
\* the processes have one state directory: none removes another's socket, at its
\* start or as it goes.
ServingIsReachable == SameDir => \A i \in Processes : dpAt[i] \in {"serving", "draining"} => dpSocket = i

\* Modules that run belong to a process that is up, or to one that was killed or
\* could not listen.
ModulesOutliveOnlyIfCut ==
    \A i \in dpModules : dpAt[i] \in {"stale", "bind", "serving", "draining"} \/ i \in dpCut

\* A stream is opened by root, the daemon's user, or one whom the group that exists
\* lets in, now or by the group its connection came with.
StreamIsAuthorized ==
    [][\A p \in Peers : dpStream'[p] /\ ~dpStream[p]
         => p \in {"root", "daemon"} \/ (dpGroup = "known" /\ (p \in dpInGroup \/ dpGid[p]))]_daemonVars

\* A shutdown ends, or waits for a client that keeps a stream open.
ShutdownEndsOrIsHeld == \A i \in Processes : (dpAt[i] = "draining") ~> (dpAt[i] = "down" \/ Streams(i) # {})
=============================================================================
