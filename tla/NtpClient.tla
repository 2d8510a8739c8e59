----------------------------- MODULE NtpClient -----------------------------
(***************************************************************************)
(* The SNTP client behind `squawk time` (squawk-client ntp.rs): a query    *)
(* over a pool of servers with failover, the four timestamps of an         *)
(* exchange, and the offset and round trip made of them.  Seconds on the   *)
(* wire are counted modulo NtpEra (2^32 in the protocol).                  *)
(***************************************************************************)
EXTENDS Integers, FiniteSetsExt

CONSTANTS
    NtpServers,  \* how many servers
    NtpEra,      \* seconds of an era
    MaxSkew,     \* bound: how far the server's clock is off
    MaxDelay     \* bound: how long a packet takes

ASSUME NtpAssumption == {NtpServers, NtpEra} \subseteq Nat \ {0} /\ {MaxSkew, MaxDelay} \subseteq Nat

MaxAttempts == 2 * NtpServers

VARIABLES
    ntAt,        \* query: "idle", "exchange", "wait"
    ntAttempt,   \* attempts begun
    ntIndex,     \* current_index, modulo the servers
    ntState,     \* SyncState: synchronized, the last offset and round trip
    ntExchange,  \* the exchange that was answered: when it began, the skew, its delays
    ntOutcome,   \* of the query before
    ntAsked      \* history: how often the query has asked each server
ntpVars == <<ntAt, ntAttempt, ntIndex, ntState, ntExchange, ntOutcome, ntAsked>>

Pool == 0..(NtpServers - 1)

NtpInit ==
    /\ ntAt = "idle" /\ ntAttempt = 0 /\ ntIndex = 0
    /\ ntState = [sync |-> FALSE, offset |-> 0, trip |-> 0]
    /\ ntExchange = [t1 |-> 0, skew |-> 0, out |-> 0, back |-> 0]
    /\ ntOutcome = "none" /\ ntAsked = [s \in Pool |-> 0]

\* Division truncates.
Half(n) == IF n >= 0 THEN n \div 2 ELSE -((-n) \div 2)

Offset(t1, t2, t3, t4) == Half((t2 - t1) + (t3 - t4))
RoundTrip(t1, t2, t3, t4) == (t4 - t1) - (t3 - t2)

\* The server's clock as it comes over the wire.
OnWire(t) == t % NtpEra

Query ==
    /\ ntAt = "idle" /\ ntAt' = "exchange" /\ ntAttempt' = 1
    /\ ntAsked' = [s \in Pool |-> IF s = ntIndex THEN 1 ELSE 0]
    /\ UNCHANGED <<ntIndex, ntState, ntExchange, ntOutcome>>

\* The server has it for a second and answers.
ServerResponds(x) ==
    LET t2 == x.t1 + x.out + x.skew
        t4 == x.t1 + x.out + 1 + x.back
    IN /\ ntAt = "exchange" /\ t2 >= 0
       /\ ntState' = [sync |-> TRUE, offset |-> Offset(x.t1, OnWire(t2), OnWire(t2 + 1), t4),
                      trip |-> RoundTrip(x.t1, OnWire(t2), OnWire(t2 + 1), t4)]
       /\ ntExchange' = x /\ ntAt' = "idle" /\ ntAttempt' = 0 /\ ntOutcome' = "ok"
       /\ UNCHANGED <<ntIndex, ntAsked>>

MoreAttempts == ntAttempt < MaxAttempts

Unsynced == [ntState EXCEPT !.sync = FALSE]

NextServer == (ntIndex + 1) % NtpServers

\* A timeout, a short packet or an error of the socket: the next server.
ExchangeFails ==
    /\ ntAt = "exchange" /\ ntIndex' = NextServer
    /\ IF MoreAttempts
         THEN ntAt' = "wait" /\ UNCHANGED <<ntAttempt, ntState, ntOutcome>>
         ELSE ntAt' = "idle" /\ ntAttempt' = 0 /\ ntState' = Unsynced /\ ntOutcome' = "failed"
    /\ UNCHANGED <<ntExchange, ntAsked>>

DelayElapses ==
    /\ ntAt = "wait" /\ ntAt' = "exchange" /\ ntAttempt' = ntAttempt + 1
    /\ ntAsked' = [ntAsked EXCEPT ![ntIndex] = @ + 1]
    /\ UNCHANGED <<ntIndex, ntState, ntExchange, ntOutcome>>

\* The caller cancels: the flag stays.
DelayCancelled ==
    /\ ntAt = "wait" /\ ntAt' = "idle" /\ ntAttempt' = 0
    /\ UNCHANGED <<ntIndex, ntState, ntExchange, ntOutcome, ntAsked>>

Exchanges == [t1 : {0, NtpEra - 2}, skew : -MaxSkew..MaxSkew, out : 0..MaxDelay, back : 0..MaxDelay]

NtpNext == Query \/ ExchangeFails \/ DelayElapses \/ DelayCancelled \/ \E x \in Exchanges : ServerResponds(x)

NtpSpec == NtpInit /\ [][NtpNext]_ntpVars

----------------------------------------------------------------------------
\* The server's clock has not passed the era's end (in 2036).
WithinEra == ntExchange.t1 + ntExchange.out + ntExchange.skew + 1 < NtpEra

\* Types.
NtpTypeOK == ntIndex \in Pool /\ ntAttempt \in 0..MaxAttempts /\ ntAt \in {"idle", "exchange", "wait"}

\* The synchronized flag tells how the last query ended that was not cancelled.
SyncTellsOutcome == ntState.sync = (ntOutcome = "ok")

\* The offset is the skew up to half the difference of the two delays, and the round
\* trip is the two delays.
OffsetIsSkew ==
    ntState.sync /\ WithinEra =>
        LET error == 2 * (ntState.offset - ntExchange.skew)
            asymmetry == ntExchange.out - ntExchange.back
        IN /\ Max({error, -error}) <= Max({asymmetry, -asymmetry}) + 1
           /\ ntState.trip = ntExchange.out + ntExchange.back

\* A query fails only when every server was asked twice.
FailureAsksAll == [][ntState.sync # ntState'.sync /\ ~ntState'.sync => \A s \in Pool : ntAsked[s] = 2]_ntpVars
=============================================================================
