--------------------------- MODULE KeyValueStore ---------------------------
(***************************************************************************)
(* What penguin-secrets promises of a store: every call takes effect at    *)
(* one point between its beginning and its end, or fails without effect.   *)
(* A crash of the program loses calls, not values.  An outage of the host  *)
(* may bring earlier values back that were not yet settled on disk, and,   *)
(* before the store as a whole was settled for the first time, make        *)
(* values unreadable; so does damage to a value from outside.              *)
(***************************************************************************)
CONSTANTS
    KvCallers,
    KvNames,     \* names with their namespace
    KvValues,
    NoSecret,     \* the name is not in the store
    Unreadable   \* there is something that can be replaced or deleted, not read

VARIABLES
    kvStore,    \* per name: a value, NoSecret or Unreadable
    kvEarlier,  \* per name: what an outage may bring back
    kvSettled,  \* the store has been settled once
    kvCall      \* per caller: the call under way
kvVars == <<kvStore, kvEarlier, kvSettled, kvCall>>

Contents == KvValues \cup {NoSecret, Unreadable}
KvIdle == [at |-> "idle", op |-> "none", name |-> "none", value |-> NoSecret, result |-> "none"]

KvInit ==
    /\ kvStore = [n \in KvNames |-> NoSecret] /\ kvEarlier = [n \in KvNames |-> {}]
    /\ kvSettled = FALSE /\ kvCall = [c \in KvCallers |-> KvIdle]

Invoke(c, op, n, v) ==
    /\ kvCall[c].at = "idle"
    /\ kvCall' = [kvCall EXCEPT ![c] = [at |-> "pending", op |-> op, name |-> n, value |-> v, result |-> "none"]]
    /\ UNCHANGED <<kvStore, kvEarlier, kvSettled>>

\* What an operation answers that finds `held` under its name.
Reply(op, held) ==
    CASE op = "set" -> "ok"
      [] op = "delete" -> IF held = NoSecret THEN "not found" ELSE "ok"
      [] OTHER -> IF held = NoSecret THEN "not found" ELSE IF held = Unreadable THEN "error" ELSE held

\* What it leaves there.
Left(op, held, v) == CASE op = "set" -> v [] op = "delete" -> NoSecret [] OTHER -> held

TakesEffect(c) ==
    LET n == kvCall[c].name
        left == Left(kvCall[c].op, kvStore[n], kvCall[c].value)
    IN /\ kvCall[c].at = "pending"
       /\ kvStore' = [kvStore EXCEPT ![n] = left]
       /\ kvEarlier' = [kvEarlier EXCEPT ![n] = IF kvCall[c].op = "get" THEN @ ELSE @ \cup {kvStore[n]}]
       /\ kvCall' = [kvCall EXCEPT ![c].at = "done", ![c].result = Reply(kvCall[c].op, kvStore[n])]
       /\ UNCHANGED kvSettled

FailsWithoutEffect(c) ==
    /\ kvCall[c].at = "pending"
    /\ kvCall' = [kvCall EXCEPT ![c].at = "done", ![c].result = "error"]
    /\ UNCHANGED <<kvStore, kvEarlier, kvSettled>>

Respond(c) ==
    /\ kvCall[c].at = "done" /\ kvCall' = [kvCall EXCEPT ![c] = KvIdle]
    /\ UNCHANGED <<kvStore, kvEarlier, kvSettled>>

Settle ==
    /\ kvSettled' = TRUE /\ kvEarlier' = [n \in KvNames |-> {}]
    /\ UNCHANGED <<kvStore, kvCall>>

\* Every call is gone.
ProgramCrash ==
    /\ kvCall' = [c \in KvCallers |-> KvIdle]
    /\ UNCHANGED <<kvStore, kvEarlier, kvSettled>>

MayReturn(n) == {kvStore[n]} \cup kvEarlier[n] \cup (IF kvSettled THEN {} ELSE {Unreadable})

Outage ==
    /\ kvCall' = [c \in KvCallers |-> KvIdle]
    /\ kvStore' \in [KvNames -> Contents] /\ \A n \in KvNames : kvStore'[n] \in MayReturn(n)
    /\ kvEarlier' = [n \in KvNames |-> {}]
    /\ UNCHANGED kvSettled

\* From outside.
Damage(n) ==
    /\ kvStore' = [kvStore EXCEPT ![n] = Unreadable]
    /\ UNCHANGED <<kvEarlier, kvSettled, kvCall>>

KvNext ==
    \/ \E c \in KvCallers :
          \/ \E op \in {"get", "set", "delete"}, n \in KvNames, v \in KvValues \cup {NoSecret} : Invoke(c, op, n, v)
          \/ TakesEffect(c) \/ FailsWithoutEffect(c) \/ Respond(c)
    \/ Settle \/ ProgramCrash \/ Outage
    \/ \E n \in KvNames : Damage(n)

KvSpec == KvInit /\ [][KvNext]_kvVars
=============================================================================
