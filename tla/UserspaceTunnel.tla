-------------------------- MODULE UserspaceTunnel --------------------------
(***************************************************************************)
(* The userspace WireGuard backend: apply opens the device and the socket  *)
(* and spawns an event loop, which the stored instance cancels when it is  *)
(* dropped; peer_stats reads the loop's state.  The loop keeps the state's *)
(* mutex across its sends and writes, and peer_stats keeps the instance's  *)
(* mutex while it waits for the state's.  VpnManager serializes apply and  *)
(* teardown, and not peer_stats.                                           *)
(*                                                                         *)
(* The Noise engine (boringtun) is external: it has a session or not, asks *)
(* for a handshake when it has none, and panics when a packet and its      *)
(* overhead do not fit the buffer it is given.                             *)
(***************************************************************************)
EXTENDS Naturals, FiniteSets

CONSTANTS MaxApplies,  \* bound: calls of apply that open a device
          MaxPackets   \* bound: packets a loop counts, each way

ASSUME UserspaceAssumption == MaxApplies \in Nat /\ MaxPackets \in Nat \ {0}

Loops == 1..MaxApplies
NoLoop == 0

VARIABLES
    usCall,     \* the caller of apply or teardown: the step it is at
    usLast,     \* the loop spawned last
    usInst,     \* the instance: the loop it cancels, or none
    usDevice,   \* the loop, or the apply, that has the device open
    usLoop,     \* per loop: where it is
    usCancel,   \* per loop: its token is cancelled
    usSession,  \* per loop: the engine has a session
    usShook,    \* per loop, history: it ever had one
    usHandshake,\* per loop: last_handshake is set
    usRx, usTx, \* per loop: rx_bytes and tx_bytes, in packets
    usAsk,      \* peer_stats: the instance it has found, or none
    usSpilled   \* history: loops that met a packet too long for their buffer

userspaceVars == <<usCall, usLast, usInst, usDevice, usLoop, usCancel, usSession, usShook, usHandshake, usRx, usTx,
                   usAsk, usSpilled>>
usEngine == <<usSession, usShook, usHandshake, usRx, usTx>>
usTunnel == <<usCall, usLast, usInst, usCancel, usAsk>>

UserspaceInit ==
    /\ usCall = "idle" /\ usLast = NoLoop /\ usInst = NoLoop /\ usDevice = NoLoop
    /\ usLoop = [l \in Loops |-> "none"] /\ usCancel = [l \in Loops |-> FALSE]
    /\ usSession = [l \in Loops |-> FALSE] /\ usShook = usSession /\ usHandshake = usSession
    /\ usRx = [l \in Loops |-> 0] /\ usTx = usRx
    /\ usAsk = NoLoop /\ usSpilled = {}

\* One more, up to the bound.
Counted(n) == IF n < MaxPackets THEN n + 1 ELSE n

At(l, p) == usLoop[l] = p
GoTo(l, p) == usLoop' = [usLoop EXCEPT ![l] = p]

\* The loop has the state's mutex from its lock to the end of the arm.
StateFree(l) == usLoop[l] \notin {"sending", "ticking", "writing"}

(***************************************************************************)
(* apply, teardown and peer_stats.                                         *)
(***************************************************************************)

\* TUNSETIFF refuses a name that another descriptor has.
DeviceFree == usDevice = NoLoop

\* The device is opened; the loop of an earlier apply has it until it ends.
OpenDevice ==
    /\ usCall = "idle" /\ usLast < MaxApplies /\ DeviceFree
    /\ usCall' = "bind" /\ usDevice' = usLast + 1
    /\ UNCHANGED <<usLast, usInst, usLoop, usCancel, usAsk, usEngine, usSpilled>>

\* The socket cannot be bound: apply returns, which closes the device.
BindFails ==
    /\ usCall = "bind" /\ usCall' = "idle" /\ usDevice' = NoLoop
    /\ UNCHANGED <<usLast, usInst, usLoop, usCancel, usAsk, usEngine, usSpilled>>

\* It is bound, a fresh state is made and the loop is spawned.
SpawnLoop ==
    /\ usCall = "bind" /\ usCall' = "store" /\ usLast' = usLast + 1
    /\ GoTo(usLast', "waiting")
    /\ UNCHANGED <<usInst, usDevice, usCancel, usAsk, usEngine, usSpilled>>

\* The instance's mutex, which peer_stats keeps until it has its answer.
InstanceFree == usAsk = NoLoop

\* BackendInstance::drop cancels the loop of the instance that was there.
Dropped == IF usInst = NoLoop THEN usCancel ELSE [usCancel EXCEPT ![usInst] = TRUE]

\* The instance is stored, and the one it replaces dropped.
StoreInstance ==
    /\ usCall = "store" /\ InstanceFree
    /\ usCancel' = Dropped /\ usInst' = usLast /\ usCall' = "idle"
    /\ UNCHANGED <<usLast, usDevice, usLoop, usAsk, usEngine, usSpilled>>

Teardown ==
    /\ usCall = "idle" /\ usInst # NoLoop /\ usCall' = "teardown"
    /\ UNCHANGED <<usLast, usInst, usDevice, usLoop, usCancel, usAsk, usEngine, usSpilled>>

\* teardown drops the instance, and does not wait for the loop.
TeardownDrops ==
    /\ usCall = "teardown" /\ InstanceFree
    /\ usCancel' = Dropped /\ usInst' = NoLoop /\ usCall' = "idle"
    /\ UNCHANGED <<usLast, usDevice, usLoop, usAsk, usEngine, usSpilled>>

\* peer_stats finds an instance and waits for its state ...  The mutex is first come,
\* first served: an apply or a teardown that waits for it goes first.
AskStats ==
    /\ usAsk = NoLoop /\ usInst # NoLoop /\ usAsk' = usInst
    /\ usCall \notin {"store", "teardown"}
    /\ UNCHANGED <<usCall, usLast, usInst, usDevice, usLoop, usCancel, usEngine, usSpilled>>

\* ... and reads it once no arm of the loop has it.
StatsAnswered ==
    /\ usAsk # NoLoop /\ StateFree(usAsk) /\ usAsk' = NoLoop
    /\ UNCHANGED <<usCall, usLast, usInst, usDevice, usLoop, usCancel, usEngine, usSpilled>>

(***************************************************************************)
(* The event loop's arms.                                                  *)
(***************************************************************************)
\* Both the loop's own variables are gone with it: the device is closed.
LoopOver(l) == GoTo(l, "ended") /\ usDevice' = NoLoop

\* The cancelled arm.
LoopCancelled(l) ==
    /\ At(l, "waiting") /\ usCancel[l] /\ LoopOver(l)
    /\ UNCHANGED <<usTunnel, usEngine, usSpilled>>

\* A read or a receive that fails does not match its arm's pattern: the loop goes on
\* with the others, and tries it again after the next of them.
NothingRead(l) == UNCHANGED <<usLoop, usDevice>>

ReadFails(l) ==
    /\ At(l, "waiting") /\ NothingRead(l)
    /\ UNCHANGED <<usTunnel, usEngine, usSpilled>>

\* An arm that has something to do takes the state's mutex, first come, first served:
\* a peer_stats that waits for it goes first.
Takes(l) == At(l, "waiting") /\ usAsk # l

\* A packet from the device.  With a session it is sealed; without one the engine
\* keeps it and asks for a handshake, or is already asking and has nothing to send.
TunRead(l, sends) ==
    /\ Takes(l) /\ (usSession[l] => sends)
    /\ GoTo(l, IF sends THEN "sending" ELSE "waiting")
    /\ UNCHANGED <<usTunnel, usDevice, usEngine, usSpilled>>

\* A packet whose sealed form is longer than the buffer of 1500 bytes: the engine
\* panics and the task ends, with its instance in place.
TunReadTooLong(l) ==
    /\ Takes(l) /\ LoopOver(l)
    /\ usSpilled' = usSpilled \cup {l}
    /\ UNCHANGED <<usTunnel, usEngine>>

\* The send is over, whether or not it failed, and the packet is counted.
SendOver(l) ==
    /\ At(l, "sending")
    /\ usTx' = [usTx EXCEPT ![l] = Counted(@)] /\ GoTo(l, "waiting")
    /\ UNCHANGED <<usTunnel, usDevice, usSession, usShook, usHandshake, usRx, usSpilled>>

\* A handshake message from the peer makes a session, and is answered.
UdpHandshake(l) ==
    /\ Takes(l)
    /\ usSession' = [usSession EXCEPT ![l] = TRUE] /\ usShook' = [usShook EXCEPT ![l] = TRUE]
    /\ GoTo(l, "sending")
    /\ UNCHANGED <<usTunnel, usDevice, usHandshake, usRx, usTx, usSpilled>>

\* Mutant: every datagram counts, opened or not.
OpensAny(l) == TRUE

\* decapsulate opens a packet only within a session.
Opens(l) == usSession[l]

\* Data from the peer is counted and written to the device.
UdpData(l) ==
    /\ Takes(l) /\ Opens(l)
    /\ usRx' = [usRx EXCEPT ![l] = Counted(@)] /\ GoTo(l, "writing")
    /\ UNCHANGED <<usTunnel, usDevice, usSession, usShook, usHandshake, usTx, usSpilled>>

\* The write is over, whether or not it failed, and last_handshake is now.
WriteOver(l) ==
    /\ At(l, "writing")
    /\ usHandshake' = [usHandshake EXCEPT ![l] = TRUE] /\ GoTo(l, "waiting")
    /\ UNCHANGED <<usTunnel, usDevice, usSession, usShook, usRx, usTx, usSpilled>>

\* The timer: a keepalive or a handshake is counted and then sent; or the session
\* has expired.
TimerTick(l) ==
    /\ Takes(l)
    /\ \/ /\ usTx' = [usTx EXCEPT ![l] = Counted(@)] /\ GoTo(l, "ticking")
          /\ UNCHANGED usSession
       \/ /\ usSession[l] /\ usSession' = [usSession EXCEPT ![l] = FALSE]
          /\ UNCHANGED <<usLoop, usTx>>
    /\ UNCHANGED <<usTunnel, usDevice, usShook, usHandshake, usRx, usSpilled>>

TickOver(l) ==
    /\ At(l, "ticking") /\ GoTo(l, "waiting")
    /\ UNCHANGED <<usTunnel, usDevice, usEngine, usSpilled>>

(***************************************************************************)
(* Specification.                                                          *)
(***************************************************************************)
ArmEnds(l) == SendOver(l) \/ WriteOver(l) \/ TickOver(l)
CallGoesOn == SpawnLoop \/ BindFails \/ StoreInstance \/ TeardownDrops

UserspaceNext ==
    \/ OpenDevice \/ CallGoesOn \/ Teardown \/ AskStats \/ StatsAnswered
    \/ \E l \in Loops :
        \/ ArmEnds(l) \/ LoopCancelled(l) \/ ReadFails(l) \/ TunReadTooLong(l)
        \/ UdpHandshake(l) \/ UdpData(l) \/ TimerTick(l)
        \/ \E sends \in BOOLEAN : TunRead(l, sends)

\* A device or a socket becomes writable, the mutexes are fair, and select! picks
\* among its ready arms at random, the cancelled one with the others.
UserspaceSpec ==
    /\ UserspaceInit /\ [][UserspaceNext]_userspaceVars
    /\ WF_userspaceVars(StatsAnswered) /\ WF_userspaceVars(CallGoesOn)
    /\ \A l \in Loops : WF_userspaceVars(ArmEnds(l)) /\ SF_userspaceVars(LoopCancelled(l))

----------------------------------------------------------------------------
\* Types; and one descriptor has the device, of a loop that is alive or of an apply
\* about to spawn one.
UserspaceTypeOK ==
    /\ usCall \in {"idle", "bind", "store", "teardown"}
    /\ usInst \in 0..MaxApplies /\ usLast \in 0..MaxApplies
    /\ \A l \in Loops : usLoop[l] \in {"none", "waiting", "sending", "ticking", "writing", "ended"}
    /\ Cardinality({l \in Loops : usLoop[l] \notin {"none", "ended"}}) <= 1
    /\ \A l \in Loops : usLoop[l] \notin {"none", "ended"} => usDevice = l

\* peer_stats answers of the tunnel that is there: while it waits for the state of
\* an instance no teardown or apply takes that instance away.
AskedIsCurrent == usAsk # NoLoop => usInst = usAsk

\* A loop does not outlive its instance unnoticed, nor end under it: it ends only
\* when its instance was dropped, or on a packet too long for its buffer.  A read or
\* a send that fails ends nothing.
EndsOnlyIfTold ==
    \A l \in Loops : At(l, "ended") => usCancel[l] \/ l \in usSpilled

\* last_handshake, the tunnel's health, tells of a session: it is set only in an
\* instance that has had one, and only once data has come through it.
HandshakeWasMade ==
    \A l \in Loops : usHandshake[l] => usShook[l] /\ usRx[l] > 0

\* teardown returns and the device is closed, so that the next connect can open it:
\* whoever asks for stats gets its answer first, the loop ends the arm it is in, and
\* sees that it is cancelled.
DeviceIsFreed == usCall = "teardown" ~> usDevice = NoLoop
=============================================================================
