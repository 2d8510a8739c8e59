----------------------------- MODULE Forwarder -----------------------------
(***************************************************************************)
(* squawk's DNS forwarder (squawk-client forwarder/): start and stop, as   *)
(* the module and its forward command call them, the serve loops and the   *)
(* queries they spawn, and below them the answer cache.  What a lookup     *)
(* does upstream is DohClient's.                                           *)
(***************************************************************************)
EXTENDS Integers, FiniteSets, Sequences, FiniteSetsExt, SequencesExt

CONSTANTS
    DnsQueries,  \* queries over UDP and connections over TCP at a time
    MaxSessions  \* bound: starts that get as far as a bind

ASSUME ForwarderAssumption == MaxSessions \in Nat

Operators == {"module", "command"}
Protocols == {"udp", "tcp"}

VARIABLES
    fwSession,    \* RunState: the session that is running, 0 if none
    fwBegun,      \* sessions begun
    fwCall,       \* per caller: the step of start or stop it is at, and its session
    fwLoops,      \* serve loops: <<session, protocol>>, each with its socket
    fwCancelled,  \* sessions whose token is cancelled
    fwEphemeral,  \* the addresses have port 0: every bind finds a port
    fwModule,     \* the module's running
    fwGauge,      \* forwarder_up
    fwQuery,      \* per query: its step, session, protocol
    fwLeft,       \* history: sessions whose TCP bind failed after the UDP one
    fwOverlap     \* history: two calls have been under way together
fwRest == <<fwLeft, fwOverlap>>
forwarderVars == <<fwSession, fwBegun, fwCall, fwLoops, fwCancelled, fwEphemeral, fwModule, fwGauge, fwQuery, fwRest>>

NoCall == [at |-> "idle", session |-> 0]
NoQuery == [at |-> "idle", session |-> 0, proto |-> "udp"]

ForwarderInit ==
    /\ fwSession = 0 /\ fwBegun = 0 /\ fwCall = [o \in Operators |-> NoCall]
    /\ fwLoops = {} /\ fwCancelled = {} /\ fwEphemeral \in BOOLEAN
    /\ fwModule = FALSE /\ fwGauge = 0
    /\ fwQuery = [q \in DnsQueries |-> NoQuery] /\ fwLeft = {} /\ fwOverlap = FALSE

CallAt(o, p) == fwCall[o].at = p
CallTo(o, p) == fwCall' = [fwCall EXCEPT ![o].at = p]
CallEnds(o) == fwCall' = [fwCall EXCEPT ![o] = NoCall]
CallBegins(o, p, s) ==
    /\ CallAt(o, "idle")
    /\ fwCall' = [fwCall EXCEPT ![o] = [at |-> p, session |-> s]]
    /\ fwOverlap' = (fwOverlap \/ \E other \in Operators : ~CallAt(other, "idle"))
QueryAt(q, p) == fwQuery[q].at = p

\* Sockets.  A query over UDP has a share of the loop's socket until it is answered.
UdpHeld ==
    \/ \E s \in 1..fwBegun : <<s, "udp">> \in fwLoops
    \/ \E q \in DnsQueries : ~QueryAt(q, "idle") /\ fwQuery[q].proto = "udp"
TcpHeld == \E s \in 1..fwBegun : <<s, "tcp">> \in fwLoops

\* start of the module or of the command: nothing if it is running.
StartForwarder(o) ==
    /\ (o = "module" => ~fwModule) /\ fwSession = 0 /\ fwBegun < MaxSessions
    /\ CallBegins(o, "udp", fwBegun + 1)
    /\ fwBegun' = fwBegun + 1
    /\ fwModule' = (fwModule \/ o = "module")
    /\ UNCHANGED <<fwSession, fwLoops, fwCancelled, fwEphemeral, fwGauge, fwQuery, fwLeft>>

\* A start that fails: the module is not running after all.
StartFailed(o) == CallEnds(o) /\ fwModule' = (fwModule /\ o # "module")

BindUdp(o) ==
    /\ CallAt(o, "udp") /\ (UdpHeld => fwEphemeral)
    /\ fwLoops' = fwLoops \cup {<<fwCall[o].session, "udp">>}
    /\ CallTo(o, "tcp")
    /\ UNCHANGED <<fwSession, fwBegun, fwCancelled, fwEphemeral, fwModule, fwGauge, fwQuery, fwRest>>

\* The port is taken, by this program or by another.
BindUdpFails(o) ==
    /\ CallAt(o, "udp") /\ StartFailed(o)
    /\ UNCHANGED <<fwSession, fwBegun, fwLoops, fwCancelled, fwEphemeral, fwGauge, fwQuery, fwRest>>

BindTcp(o) ==
    /\ CallAt(o, "tcp") /\ (TcpHeld => fwEphemeral)
    /\ fwLoops' = fwLoops \cup {<<fwCall[o].session, "tcp">>}
    /\ CallTo(o, "commit")
    /\ UNCHANGED <<fwSession, fwBegun, fwCancelled, fwEphemeral, fwModule, fwGauge, fwQuery, fwRest>>

\* The UDP loop goes on: dropping its token does not cancel it.
BindTcpFails(o) ==
    /\ CallAt(o, "tcp") /\ StartFailed(o)
    /\ fwLeft' = fwLeft \cup {fwCall[o].session}
    /\ UNCHANGED <<fwSession, fwBegun, fwLoops, fwCancelled, fwEphemeral, fwGauge, fwQuery, fwOverlap>>

MayCommit == fwSession = 0

StartCommits(o) ==
    /\ CallAt(o, "commit") /\ MayCommit
    /\ fwSession' = fwCall[o].session
    /\ CallTo(o, "up")
    /\ UNCHANGED <<fwBegun, fwLoops, fwCancelled, fwEphemeral, fwModule, fwGauge, fwQuery, fwRest>>

\* Another start was first: what this one has made is cancelled.
StartLoses(o) ==
    /\ CallAt(o, "commit") /\ ~MayCommit
    /\ fwCancelled' = fwCancelled \cup {fwCall[o].session}
    /\ StartFailed(o)
    /\ UNCHANGED <<fwSession, fwBegun, fwLoops, fwEphemeral, fwGauge, fwQuery, fwRest>>

GaugeOf(o) == 1

\* start has returned: the gauge is set.
StartReturned(o) ==
    /\ CallAt(o, "up") /\ fwGauge' = GaugeOf(o) /\ CallEnds(o)
    /\ UNCHANGED <<fwSession, fwBegun, fwLoops, fwCancelled, fwEphemeral, fwModule, fwQuery, fwRest>>

\* Mutant: stop takes the state without cancelling the token.
TokenDropped(s) == fwCancelled
TokenCancelled(s) == fwCancelled \cup {s}

StopForwarder(o) ==
    /\ (o = "module" => fwModule) /\ fwSession # 0
    /\ CallBegins(o, "await", fwSession)
    /\ fwSession' = 0 /\ fwCancelled' = TokenCancelled(fwSession)
    /\ fwModule' = (fwModule /\ o # "module")
    /\ UNCHANGED <<fwBegun, fwLoops, fwEphemeral, fwGauge, fwQuery, fwLeft>>

\* The module's stop after the command's: an error, and the gauge all the same.
StopNotRunning ==
    /\ CallAt("module", "idle") /\ fwModule /\ fwSession = 0
    /\ fwModule' = FALSE /\ fwGauge' = 0
    /\ UNCHANGED <<fwSession, fwBegun, fwCall, fwLoops, fwCancelled, fwEphemeral, fwQuery, fwRest>>

ServeLoopEnds(s, p) ==
    /\ <<s, p>> \in fwLoops /\ s \in fwCancelled
    /\ fwLoops' = fwLoops \ {<<s, p>>}
    /\ UNCHANGED <<fwSession, fwBegun, fwCall, fwCancelled, fwEphemeral, fwModule, fwGauge, fwQuery, fwRest>>

LoopsGone(s) == \A p \in Protocols : <<s, p>> \notin fwLoops

StopReturned(o) ==
    /\ CallAt(o, "await") /\ LoopsGone(fwCall[o].session)
    /\ fwGauge' = 0 /\ CallEnds(o)
    /\ UNCHANGED <<fwSession, fwBegun, fwLoops, fwCancelled, fwEphemeral, fwModule, fwQuery, fwRest>>

----------------------------------------------------------------------------
Lifecycle == <<fwSession, fwBegun, fwCall, fwLoops, fwCancelled, fwEphemeral, fwModule, fwGauge, fwRest>>

FirstStep(p) == IF p = "udp" THEN "lookup" ELSE "read"

\* A datagram, or a connection; a cancelled loop may still take one.
QueryArrives(q, s, p) ==
    /\ QueryAt(q, "idle") /\ <<s, p>> \in fwLoops
    /\ fwQuery' = [fwQuery EXCEPT ![q] = [at |-> FirstStep(p), session |-> s, proto |-> p]]
    /\ UNCHANGED Lifecycle

\* A connection: the next message, or its end (the client's, or the token's).
ConnectionReads(q) ==
    /\ QueryAt(q, "read") /\ fwQuery' = [fwQuery EXCEPT ![q].at = "lookup"]
    /\ UNCHANGED Lifecycle

ConnectionEnds(q) ==
    /\ QueryAt(q, "read") /\ fwQuery' = [fwQuery EXCEPT ![q] = NoQuery]
    /\ UNCHANGED Lifecycle

\* The lookup has ended, at the latest after UPSTREAM_TIMEOUT: over UDP the task
\* ends with it; over TCP the connection reads on, unless the message could not be
\* decoded or the answer could not be written.
QueryDone(q, ok) ==
    /\ QueryAt(q, "lookup")
    /\ fwQuery' = [fwQuery EXCEPT ![q] = IF fwQuery[q].proto = "tcp" /\ ok THEN [@ EXCEPT !.at = "read"] ELSE NoQuery]
    /\ UNCHANGED Lifecycle

OperatorStep(o) ==
    \/ BindUdp(o) \/ BindUdpFails(o) \/ BindTcp(o) \/ BindTcpFails(o) \/ StartCommits(o) \/ StartLoses(o)
    \/ StartReturned(o) \/ StopReturned(o)

SessionLoopEnds == \E s \in 1..fwBegun, p \in Protocols : ServeLoopEnds(s, p)

ForwarderNext ==
    \/ \E o \in Operators : StartForwarder(o) \/ StopForwarder(o) \/ OperatorStep(o)
    \/ StopNotRunning \/ SessionLoopEnds
    \/ \E q \in DnsQueries :
          \/ \E s \in 1..fwBegun, p \in Protocols : QueryArrives(q, s, p)
          \/ ConnectionReads(q) \/ ConnectionEnds(q) \/ \E ok \in BOOLEAN : QueryDone(q, ok)

ForwarderSpec == ForwarderInit /\ [][ForwarderNext]_forwarderVars

----------------------------------------------------------------------------
NobodyCalls == \A o \in Operators : CallAt(o, "idle")

\* Types; and a session has begun before it runs, is cancelled or has a loop.
ForwarderTypeOK ==
    /\ fwSession \in 0..fwBegun /\ fwCancelled \subseteq 1..fwBegun /\ fwLeft \subseteq 1..fwBegun
    /\ fwLoops \subseteq (1..fwBegun) \X Protocols
    /\ \A q \in DnsQueries : fwQuery[q].at \in {"idle", "read", "lookup"} /\ (QueryAt(q, "read") => fwQuery[q].proto = "tcp")

\* The session that is running is served on both protocols and not cancelled; and
\* every other loop is of a start under way, of a session that is cancelled (and so
\* ends), or of a start whose second bind failed.
RunningIsServed ==
    /\ fwSession # 0 => fwSession \notin fwCancelled /\ \A p \in Protocols : <<fwSession, p>> \in fwLoops
    /\ \A l \in fwLoops : \/ l[1] \in {fwSession} \cup fwCancelled \cup fwLeft
                          \/ \E o \in Operators : fwCall[o].session = l[1]

\* When stop has returned the ports are free: the TCP port without exception, the
\* UDP port but for a query that is not answered yet.  (A start whose TCP bind
\* failed keeps the UDP port; with port 0 a start that lost may still be ending.)
StoppedIsReleased ==
    NobodyCalls /\ fwSession = 0 /\ fwLeft = {} /\ ~fwEphemeral =>
        /\ fwLoops = {}
        /\ UdpHeld => \E q \in DnsQueries : QueryAt(q, "lookup") /\ fwQuery[q].session \in fwCancelled

\* forwarder_up tells whether the forwarder runs, unless two calls have met.
GaugeLiesOnlyIfOverlapped == NobodyCalls /\ ~fwOverlap => (fwGauge = 1) = (fwSession # 0)

\* stop returns: it waits for its two loops, not for the queries.
ForwarderStopEnds == \A o \in Operators : CallAt(o, "await") ~> ~CallAt(o, "await")

(***************************************************************************)
(* The answer cache of squawk's forwarder (forwarder/cache.rs): entries by *)
(* name and type, each with its end, and the order in which the keys went  *)
(* in, from which eviction takes.  Each operation is one critical section. *)
(***************************************************************************)

CONSTANTS
    CacheKeys,   \* names with their types
    MaxEntries,  \* max_entries
    MaxClock,    \* bound: seconds
    MaxOrder     \* bound: keys in the order

ASSUME CacheAssumption == MaxEntries \in Nat \ {0} /\ MaxClock \in Nat /\ MaxOrder \in Nat

\* The TTLs of an answer's records, as the server sent them.
TtlLists == {<<0>>, <<3, 1>>, <<-1, 2>>}

VARIABLES
    dcEntries,  \* a function on the keys that are in: the TTLs, and when they went in
    dcOrder,    \* the keys in order of insertion
    dcClock,
    dcHit,      \* the last hit: the age of its answer and its TTLs
    dcExpired   \* history: a get has removed an expired entry
cacheVars == <<dcEntries, dcOrder, dcClock, dcHit, dcExpired>>

NoHit == [age |-> 0, ttls |-> <<1>>]

CacheInit ==
    /\ dcEntries = << >> /\ dcOrder = << >>
    /\ dcClock = 0 /\ dcHit = NoHit /\ dcExpired = FALSE

\* The least TTL of the answer, each at least a second.
MinPositiveTtl(ttls) == Min({Max({ttls[i], 1}) : i \in DOMAIN ttls})

In(k) == k \in DOMAIN dcEntries
ExpiresAt(k) == dcEntries[k].at + MinPositiveTtl(dcEntries[k].ttls)
Without(keys) == [k \in DOMAIN dcEntries \ keys |-> dcEntries[k]]

\* get: a hit ...
CacheHit(k) ==
    /\ In(k) /\ dcClock < ExpiresAt(k)
    /\ dcHit' = [age |-> dcClock - dcEntries[k].at, ttls |-> dcEntries[k].ttls]
    /\ UNCHANGED <<dcEntries, dcOrder, dcClock, dcExpired>>

\* ... or a miss that removes what has expired, from the entries only.
CacheExpires(k) ==
    /\ In(k) /\ dcClock >= ExpiresAt(k)
    /\ dcEntries' = Without({k}) /\ dcExpired' = TRUE
    /\ UNCHANGED <<dcOrder, dcClock, dcHit>>

\* Mutant: an answer that is renewed evicts too.
EvictsAlways(k) == Cardinality(DOMAIN dcEntries) >= MaxEntries
Evicts(k) == ~In(k) /\ Cardinality(DOMAIN dcEntries) >= MaxEntries

Queued(k) == ~In(k)

\* insert of an answer with records and NOERROR, when a lookup has ended; at
\* capacity the first key of the order goes.
CacheInsert(k, ttls) ==
    LET evicted == IF Evicts(k) /\ dcOrder # << >> THEN {Head(dcOrder)} ELSE {}
        kept == IF evicted = {} THEN dcOrder ELSE Tail(dcOrder)
    IN /\ Len(kept) < MaxOrder
       /\ dcEntries' = [j \in (DOMAIN dcEntries \ evicted) \cup {k} |->
                          IF j = k THEN [ttls |-> ttls, at |-> dcClock] ELSE dcEntries[j]]
       /\ dcOrder' = IF Queued(k) THEN Append(kept, k) ELSE kept
       /\ UNCHANGED <<dcClock, dcHit, dcExpired>>

CacheFlush ==
    /\ dcEntries' = << >> /\ dcOrder' = << >> /\ dcExpired' = FALSE
    /\ UNCHANGED <<dcClock, dcHit>>

SecondPasses ==
    /\ dcClock < MaxClock /\ dcClock' = dcClock + 1
    /\ UNCHANGED <<dcEntries, dcOrder, dcHit, dcExpired>>

CacheNext ==
    \/ \E k \in CacheKeys : CacheHit(k) \/ CacheExpires(k) \/ \E ttls \in TtlLists : CacheInsert(k, ttls)
    \/ CacheFlush \/ SecondPasses

CacheSpec == CacheInit /\ [][CacheNext]_cacheVars

----------------------------------------------------------------------------
\* Types; and every entry is in the order, where eviction can find it.
CacheTypeOK ==
    /\ DOMAIN dcEntries \subseteq CacheKeys
    /\ \A k \in DOMAIN dcEntries : dcEntries[k].ttls \in TtlLists /\ dcEntries[k].at \in 0..dcClock
    /\ DOMAIN dcEntries \subseteq Range(dcOrder)

\* No answer outlives a record of it: what a hit returns is younger than each of
\* its TTLs, of which none counts for less than a second.
NoStaleAnswer == \A i \in DOMAIN dcHit.ttls : dcHit.age < Max({dcHit.ttls[i], 1})

\* Until a get has found an entry expired, the order lists the entries, each
\* once, and the cache is within max_entries.
OrderedUntilExpiry ==
    ~dcExpired =>
        /\ Range(dcOrder) = DOMAIN dcEntries /\ IsInjective(dcOrder)
        /\ Cardinality(DOMAIN dcEntries) <= MaxEntries

\* An answer that has not expired is pushed out only by another key at capacity,
\* or by a flush.
FreshStays ==
    [][\A k \in DOMAIN dcEntries \ DOMAIN dcEntries' :
         \/ dcClock >= ExpiresAt(k) \/ dcEntries' = << >>
         \/ Cardinality(DOMAIN dcEntries) >= MaxEntries /\ DOMAIN dcEntries' \ DOMAIN dcEntries # {}]_cacheVars
=============================================================================
