---------------------------- MODULE SecretFiles ----------------------------
(***************************************************************************)
(* The encrypted files of penguin-secrets (file_backend.rs, master_key.rs, *)
(* store.rs), as the daemon opens them under its lock: the master key,     *)
(* made on the first open, a record per name, encrypted under the key and  *)
(* bound to its name, and writes by way of a temporary file.  Calls run on *)
(* several threads.  They implement KeyValueStore.                         *)
(***************************************************************************)
EXTENDS Integers

CONSTANTS
    Callers,        \* calls at a time
    SecretNames,    \* names with their namespace
    SecretValues,
    NoSecret, Unreadable,
    MaxKeys,        \* bound: master keys ever generated
    MaxOutages,     \* bound: crashes and outages
    MaxCalls        \* bound: calls

ASSUME SecretAssumption ==
    /\ {MaxKeys, MaxOutages, MaxCalls} \subseteq Nat
    /\ NoSecret \notin SecretValues /\ Unreadable \notin SecretValues /\ NoSecret # Unreadable
    /\ "none" \notin SecretNames

NoKeyFile == 0   \* master.key is not there ...
Empty == -1   \* ... or created and not written, or not wholly; else the number of the key in it

VARIABLES
    sfPhase,    \* "down", "generate" (master.key is created), "open"
    sfKeyFile,  \* master.key
    sfKey,      \* the key in memory
    sfMade,     \* keys generated
    sfRecord,   \* per name: its record file
    sfEarlier,  \* per name: records that the disk may still have instead
    sfSettled,  \* the host has written everything back since there is a key
    sfCall,     \* per caller: its step, operation, name, value, result
    sfTemps,    \* callers whose temporary file exists
    sfCount,    \* calls, crashes and outages so far
    sfEarlyLoss \* history: a crash, an outage or a failed write before sfSettled
masterVars == <<sfKeyFile, sfKey, sfMade>>
diskVars == <<sfRecord, sfEarlier, sfSettled>>
secretVars == <<sfPhase, masterVars, diskVars, sfCall, sfTemps, sfCount, sfEarlyLoss>>

NoRecord == [key |-> NoKeyFile, bound |-> "none", value |-> NoSecret]
NoCall == [at |-> "idle", op |-> "none", name |-> "none", value |-> NoSecret, result |-> "none"]

SecretInit ==
    /\ sfPhase = "down" /\ sfKeyFile = NoKeyFile /\ sfKey = NoKeyFile /\ sfMade = 0
    /\ sfRecord = [n \in SecretNames |-> NoRecord] /\ sfEarlier = [n \in SecretNames |-> {}]
    /\ sfSettled = FALSE /\ sfCall = [c \in Callers |-> NoCall] /\ sfTemps = {}
    /\ sfCount = [calls |-> 0, outages |-> 0] /\ sfEarlyLoss = FALSE

----------------------------------------------------------------------------
\* ensure_master_key: only if there is none.
MustGenerate == sfKeyFile = NoKeyFile

\* A key of the right size is read; one of any other size, or a directory that
\* everybody may write to, refuses the store and with it the daemon's start.
OpenExisting ==
    /\ sfPhase = "down" /\ ~MustGenerate /\ sfKeyFile # Empty
    /\ sfPhase' = "open" /\ sfKey' = sfKeyFile
    /\ UNCHANGED <<sfKeyFile, sfMade, diskVars, sfCall, sfTemps, sfCount, sfEarlyLoss>>

CreateKeyFile ==
    /\ sfPhase = "down" /\ MustGenerate /\ sfMade < MaxKeys
    /\ sfPhase' = "generate" /\ sfKeyFile' = Empty
    /\ UNCHANGED <<sfKey, sfMade, diskVars, sfCall, sfTemps, sfCount, sfEarlyLoss>>

WriteKeyFile ==
    /\ sfPhase = "generate" /\ sfPhase' = "open"
    /\ sfMade' = sfMade + 1 /\ sfKeyFile' = sfMade + 1 /\ sfKey' = sfMade + 1
    /\ UNCHANGED <<diskVars, sfCall, sfTemps, sfCount, sfEarlyLoss>>

\* The file stays as it is.
WriteKeyFails ==
    /\ sfPhase = "generate" /\ sfPhase' = "down" /\ sfEarlyLoss' = (sfEarlyLoss \/ ~sfSettled)
    /\ UNCHANGED <<masterVars, diskVars, sfCall, sfTemps, sfCount>>

----------------------------------------------------------------------------
Ends(c, result) == sfCall' = [sfCall EXCEPT ![c].at = "done", ![c].result = result]

\* Mutant: a record is good under any name.
DecryptsAnywhere(r, n) == r.key = sfKey
\* decrypt_record: the key and the name are those it was encrypted with.
Decrypts(r, n) == r.key = sfKey /\ r.bound = n

Call(c, op, n, v) ==
    /\ sfPhase = "open" /\ sfCall[c].at = "idle"
    /\ sfCount.calls < MaxCalls /\ sfCount' = [sfCount EXCEPT !.calls = @ + 1]
    /\ (op = "set") = (v # NoSecret)
    /\ sfCall' = [sfCall EXCEPT ![c] = [at |-> "begun", op |-> op, name |-> n, value |-> v, result |-> "none"]]
    /\ UNCHANGED <<sfPhase, masterVars, diskVars, sfTemps, sfEarlyLoss>>

Get(c) ==
    LET n == sfCall[c].name
        r == sfRecord[n]
    IN /\ sfCall[c].at = "begun" /\ sfCall[c].op = "get"
       /\ Ends(c, IF r = NoRecord THEN "not found" ELSE IF Decrypts(r, n) THEN r.value ELSE "error")
       /\ UNCHANGED <<sfPhase, masterVars, diskVars, sfTemps, sfCount, sfEarlyLoss>>

\* A record comes in the place of another; the directory is not flushed.
Replaces(n, r) ==
    /\ sfRecord' = [sfRecord EXCEPT ![n] = r]
    /\ sfEarlier' = [sfEarlier EXCEPT ![n] = @ \cup {sfRecord[n]}]
    /\ UNCHANGED sfSettled

Delete(c) ==
    LET n == sfCall[c].name
    IN /\ sfCall[c].at = "begun" /\ sfCall[c].op = "delete"
       /\ Replaces(n, NoRecord) /\ Ends(c, IF sfRecord[n] = NoRecord THEN "not found" ELSE "ok")
       /\ UNCHANGED <<sfPhase, masterVars, sfTemps, sfCount, sfEarlyLoss>>

\* set: a temporary file, which is written and flushed ...
CreateTemp(c) ==
    /\ sfCall[c].at = "begun" /\ sfCall[c].op = "set"
    /\ sfCall' = [sfCall EXCEPT ![c].at = "temp"] /\ sfTemps' = sfTemps \cup {c}
    /\ UNCHANGED <<sfPhase, masterVars, diskVars, sfCount, sfEarlyLoss>>

WriteTemp(c) ==
    /\ sfCall[c].at = "temp" /\ sfCall' = [sfCall EXCEPT ![c].at = "written"]
    /\ UNCHANGED <<sfPhase, masterVars, diskVars, sfTemps, sfCount, sfEarlyLoss>>

Encrypted(c) == [key |-> sfKey, bound |-> sfCall[c].name, value |-> sfCall[c].value]

\* ... and renamed.
RenameTemp(c) ==
    /\ sfCall[c].at = "written" /\ Replaces(sfCall[c].name, Encrypted(c))
    /\ Ends(c, "ok") /\ sfTemps' = sfTemps \ {c}
    /\ UNCHANGED <<sfPhase, masterVars, sfCount, sfEarlyLoss>>

TempRemoved(c) == sfTemps \ {c}

\* Any step may fail, and takes its temporary file with it.
CallFails(c) ==
    /\ sfCall[c].at \in {"begun", "temp", "written"} /\ Ends(c, "error")
    /\ sfTemps' = TempRemoved(c)
    /\ UNCHANGED <<sfPhase, masterVars, diskVars, sfCount, sfEarlyLoss>>

CallReturns(c) ==
    /\ sfCall[c].at = "done" /\ sfCall' = [sfCall EXCEPT ![c] = NoCall]
    /\ UNCHANGED <<sfPhase, masterVars, diskVars, sfTemps, sfCount, sfEarlyLoss>>

----------------------------------------------------------------------------
Lost ==
    /\ sfPhase # "down" /\ sfCount.outages < MaxOutages /\ sfCount' = [sfCount EXCEPT !.outages = @ + 1]
    /\ sfPhase' = "down" /\ sfKey' = NoKeyFile /\ sfTemps' = {}
    /\ sfCall' = [c \in Callers |-> NoCall]
    /\ sfEarlyLoss' = (sfEarlyLoss \/ ~sfSettled)
    /\ UNCHANGED <<sfMade, sfSettled>>

\* Of the process: the files are as they were, temporary ones too.
SecretCrash == Lost /\ UNCHANGED <<sfKeyFile, sfRecord, sfEarlier>>

\* Of the host: what was not written back may be missing.  The master key is never
\* flushed, a record is before its rename.
HostOutage ==
    /\ Lost
    /\ sfKeyFile' \in IF sfSettled THEN {sfKeyFile} ELSE {NoKeyFile, Empty, sfKeyFile}
    /\ sfRecord' \in [SecretNames -> {NoRecord} \cup UNION {{sfRecord[n]} \cup sfEarlier[n] : n \in SecretNames}]
    /\ \A n \in SecretNames : sfRecord'[n] \in {sfRecord[n]} \cup sfEarlier[n]
    /\ sfEarlier' = [n \in SecretNames |-> {}]

\* The host writes back what it has.
WriteBack ==
    /\ sfKeyFile > 0 /\ sfSettled' = TRUE /\ sfEarlier' = [n \in SecretNames |-> {}]
    /\ UNCHANGED <<sfPhase, masterVars, sfRecord, sfCall, sfTemps, sfCount, sfEarlyLoss>>

\* By hand: a record is copied to another name.
Misplace(n, m) ==
    /\ n # m /\ sfRecord[n].bound = n
    /\ sfRecord' = [sfRecord EXCEPT ![m] = sfRecord[n]]
    /\ UNCHANGED <<sfPhase, masterVars, sfEarlier, sfSettled, sfCall, sfTemps, sfCount, sfEarlyLoss>>

CallerStep(c) ==
    \/ \E op \in {"get", "set", "delete"}, n \in SecretNames, v \in SecretValues \cup {NoSecret} :
          Call(c, op, n, v)
    \/ Get(c) \/ Delete(c) \/ CreateTemp(c) \/ WriteTemp(c) \/ RenameTemp(c) \/ CallFails(c) \/ CallReturns(c)

SecretNext ==
    \/ OpenExisting \/ CreateKeyFile \/ WriteKeyFile \/ WriteKeyFails
    \/ \E c \in Callers : CallerStep(c)
    \/ SecretCrash \/ HostOutage \/ WriteBack
    \/ \E n, m \in SecretNames : Misplace(n, m)

SecretSpec == SecretInit /\ [][SecretNext]_secretVars

----------------------------------------------------------------------------
\* What a record is worth under a name, given the master key on disk.
Worth(key, r, n) ==
    IF r = NoRecord THEN NoSecret
    ELSE IF r.key = key /\ r.bound = n THEN r.value ELSE Unreadable

AbstractCall(call) ==
    [call EXCEPT !.at = IF @ \in {"begun", "temp", "written"} THEN "pending" ELSE @]

\* The state of the store that the files stand for.
HeldStore == [n \in SecretNames |-> Worth(sfKeyFile, sfRecord[n], n)]
HeldEarlier == [n \in SecretNames |-> {Worth(sfKeyFile, r, n) : r \in sfEarlier[n]}]
AbstractCalls == [c \in Callers |-> AbstractCall(sfCall[c])]

FileStore == INSTANCE KeyValueStore WITH
    KvCallers <- Callers, KvNames <- SecretNames, KvValues <- SecretValues,
    kvStore <- HeldStore, kvEarlier <- HeldEarlier, kvSettled <- sfSettled, kvCall <- AbstractCalls

\* The files are the store KeyValueStore describes: concurrent calls on one name,
\* failures half way, crashes and misplaced records included.
FilesAreAStore == FileStore!KvSpec

\* Types; and a temporary file belongs to a set under way.
SecretTypeOK ==
    /\ sfKeyFile \in {Empty} \cup 0..sfMade /\ (sfPhase = "open" => sfKey = sfKeyFile /\ sfKey > 0)
    /\ \A n \in SecretNames : sfRecord[n].key \in 0..sfMade /\ \A r \in sfEarlier[n] : r.key \in 0..sfMade
    /\ sfTemps = {c \in Callers : sfCall[c].at \in {"temp", "written"}}

\* The store cannot be opened any more, and what is in it cannot be read, only
\* after a loss before the host has written the key back: a later one never does it.
LockedOutOnlyByEarlyLoss ==
    (sfKeyFile = Empty /\ sfPhase # "generate") \/ (\E n \in SecretNames : sfRecord[n].key \notin {NoKeyFile, sfKeyFile})
        => sfEarlyLoss
=============================================================================
