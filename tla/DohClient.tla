----------------------------- MODULE DohClient -----------------------------
(***************************************************************************)
(* A lookup of squawk (forwarder/mod.rs resolve_one and doh.rs): the type, *)
(* the name, the cache, and attempts against servers whose current index   *)
(* all lookups share, under one limit for all attempts.  The callers are   *)
(* the forwarder's queries, the query command and the health probe; only   *)
(* the forwarder's token is ever cancelled.                                *)
(***************************************************************************)
EXTENDS Integers, FiniteSets

CONSTANTS
    Lookups,     \* lookups at a time
    NUpstreams,  \* DoH servers
    MaxRetries   \* max_retries: by default twice NUpstreams

ASSUME DohAssumption == {NUpstreams, MaxRetries} \subseteq Nat \ {0}

VARIABLES
    dhLookup,     \* per lookup: its step, attempts, the server of the last one, the
                  \* outcome; and whether another has moved the index meanwhile
    dhIndex,      \* current_index, modulo the servers
    dhCancelled,  \* the forwarder's token
    dhDead        \* servers that fail every attempt
dohVars == <<dhLookup, dhIndex, dhCancelled, dhDead>>

Server == 0..(NUpstreams - 1)
NoLookup == [at |-> "idle", attempt |-> 0, server |-> 0, mixed |-> FALSE, outcome |-> ""]

DohInit ==
    /\ dhLookup = [l \in Lookups |-> NoLookup] /\ dhIndex = 0
    /\ dhCancelled = FALSE /\ dhDead \in SUBSET Server

LookupAt(l, p) == dhLookup[l].at = p

\* resolve_one's answer: NoError, NXDomain, NotImp, or ServFail for the rest.
Answered(l, outcome) == dhLookup' = [dhLookup EXCEPT ![l].at = "done", ![l].outcome = outcome]

LookupBegins(l) ==
    /\ LookupAt(l, "idle") /\ dhLookup' = [dhLookup EXCEPT ![l].at = "resolve"]
    /\ UNCHANGED <<dhIndex, dhCancelled, dhDead>>

\* No server is asked: a type that is not supported, a cached answer, a name that
\* is not valid.
AnsweredAtOnce(l, outcome) ==
    /\ LookupAt(l, "resolve") /\ Answered(l, outcome)
    /\ UNCHANGED <<dhIndex, dhCancelled, dhDead>>

\* An attempt against the server that is current now.
Try(l) == [dhLookup[l] EXCEPT !.at = "try", !.attempt = @ + 1, !.server = dhIndex]

Attempt(l) ==
    /\ dhLookup[l].at \in {"resolve", "wait"} /\ dhLookup' = [dhLookup EXCEPT ![l] = Try(l)]
    /\ UNCHANGED <<dhIndex, dhCancelled, dhDead>>

\* The server answers, whatever its status says.
TryAnswered(l, outcome) ==
    /\ LookupAt(l, "try") /\ dhLookup[l].server \notin dhDead /\ Answered(l, outcome)
    /\ UNCHANGED <<dhIndex, dhCancelled, dhDead>>

NextIndex == (dhIndex + 1) % NUpstreams

MayRetry(l) == dhLookup[l].attempt < MaxRetries

\* It fails: on to the next server, for everybody, and the delay.
TryFailed(l) ==
    /\ LookupAt(l, "try") /\ dhLookup[l].server \in dhDead
    /\ dhIndex' = NextIndex
    /\ dhLookup' = [k \in Lookups |->
           IF k # l THEN [dhLookup[k] EXCEPT !.mixed = @ \/ dhLookup[k].attempt > 0]
           ELSE IF MayRetry(l) THEN [dhLookup[l] EXCEPT !.at = "wait"]
           ELSE [dhLookup[l] EXCEPT !.at = "done", !.outcome = "exhausted"]]
    /\ UNCHANGED <<dhCancelled, dhDead>>

\* The token ends a wait, not an attempt.
WaitCancelled(l) ==
    /\ LookupAt(l, "wait") /\ dhCancelled
    /\ Answered(l, "cancelled")
    /\ UNCHANGED <<dhIndex, dhCancelled, dhDead>>

TimesOut(l) == dhLookup[l].at \in {"try", "wait"}

\* The caller's limit over all attempts: the one under way is dropped, and does not
\* move the index.
LimitReached(l) ==
    /\ TimesOut(l) /\ Answered(l, "timeout")
    /\ UNCHANGED <<dhIndex, dhCancelled, dhDead>>

\* query_with_json asks the current server once: a failure, of which the request's
\* own time limit is one, neither moves the index nor is tried again.
JsonAsks(l) ==
    /\ LookupAt(l, "resolve")
    /\ dhLookup' = [dhLookup EXCEPT ![l] = [Try(l) EXCEPT !.at = "json"]]
    /\ UNCHANGED <<dhIndex, dhCancelled, dhDead>>

JsonReturns(l, outcome) ==
    /\ LookupAt(l, "json") /\ (outcome # "failed" => dhLookup[l].server \notin dhDead)
    /\ Answered(l, outcome)
    /\ UNCHANGED <<dhIndex, dhCancelled, dhDead>>

LookupEnds(l) ==
    /\ LookupAt(l, "done") /\ dhLookup' = [dhLookup EXCEPT ![l] = NoLookup]
    /\ UNCHANGED <<dhIndex, dhCancelled, dhDead>>

CancelToken ==
    /\ ~dhCancelled /\ dhCancelled' = TRUE
    /\ UNCHANGED <<dhLookup, dhIndex, dhDead>>

\* What time alone brings.
LookupProceeds(l) ==
    \/ LimitReached(l) \/ JsonReturns(l, "failed") \/ LookupEnds(l)
    \/ LookupAt(l, "resolve") /\ Attempt(l)

LookupStep(l) ==
    \/ Attempt(l) \/ TryFailed(l) \/ WaitCancelled(l)
    \/ \E outcome \in {"unsupported", "hit", "invalid"} : AnsweredAtOnce(l, outcome)
    \/ \E outcome \in {"noerror", "nxdomain", "refused"} : TryAnswered(l, outcome)
    \/ JsonAsks(l) \/ \E outcome \in {"noerror", "nxdomain", "refused", "failed"} : JsonReturns(l, outcome)
    \/ LimitReached(l) \/ LookupEnds(l)

DohNext == CancelToken \/ \E l \in Lookups : LookupBegins(l) \/ LookupStep(l)

DohSpec == DohInit /\ [][DohNext]_dohVars

----------------------------------------------------------------------------
\* Types; and no lookup makes more attempts than max_retries.
DohTypeOK ==
    /\ dhIndex \in Server
    /\ \A l \in Lookups : dhLookup[l].attempt \in 0..MaxRetries /\ dhLookup[l].server \in Server

\* A lookup gives up for want of a server only if all of them are dead: although
\* the failures of all lookups move one index, a live server is passed over only if
\* another lookup moved it meanwhile.
GivesUpOnlyIfAllDead ==
    \A l \in Lookups :
        dhLookup[l].outcome = "exhausted" /\ ~dhLookup[l].mixed /\ MaxRetries >= NUpstreams => dhDead = Server

\* Every lookup ends: a server that neither answers nor fails is left to the limit.
LookupsEnd == \A l \in Lookups : ~LookupAt(l, "idle") ~> LookupAt(l, "idle")
=============================================================================
