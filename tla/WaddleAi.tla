------------------------------ MODULE WaddleAi ------------------------------
(***************************************************************************)
(* waddleai's Tier-1 denylist (module.rs, cache.rs): the background task   *)
(* and the denylist sync command fetch it, save it to disk and publish it  *)
(* in memory, with no lock across the three; a hook event (commands.rs     *)
(* hook_command) is decided by the server or, without an answer, by it.    *)
(***************************************************************************)
EXTENDS Integers

CONSTANTS
    MaxVersion,  \* bound: versions of the server's list
    MaxBoots     \* bound: starts of the module and of the daemon

ASSUME DenylistAssumption == MaxVersion \in Nat /\ MaxBoots \in Nat

\* The background task and the command.
Syncers == {"task", "cli"}
\* The server's list denies the subject in its odd versions, in this model.
Lists(v) == v % 2 = 1

VARIABLES
    dlRunning,  \* running
    dlTask,     \* the background task: off, alive or cancelled
    dlStop,     \* stop is waiting for the task
    dlSync,     \* per syncer: the step it is at and the version it was given
    dlServer,   \* the version the server has
    dlMem,      \* the version in memory, 0 before the first
    dlDisk,     \* and in denylist.json
    dlHook,     \* the hook event being evaluated, or the last one's outcome
    dlBoots,
    dlExcuse    \* history: a save has failed, or two syncs have overlapped
denylistVars == <<dlRunning, dlTask, dlStop, dlSync, dlServer, dlMem, dlDisk, dlHook, dlBoots, dlExcuse>>
dlLife == <<dlRunning, dlTask, dlStop, dlBoots>>

AtRest == [at |-> "idle", version |-> 0]
NoHook == [at |-> "idle", said |-> "", listed |-> FALSE, exit |-> 0]
AskedHook == [at |-> "asked", said |-> "", listed |-> FALSE, exit |-> 0]

DenylistInit ==
    /\ dlRunning = FALSE /\ dlTask = "off" /\ dlStop = FALSE
    /\ dlSync = [s \in Syncers |-> AtRest]
    /\ dlServer = 1 /\ dlMem = 0 /\ dlDisk = 0
    /\ dlHook = NoHook /\ dlBoots = 0 /\ dlExcuse = {}

SyncAt(s, p) == dlSync[s].at = p

\* start: the task's first sync begins at once.
DenylistStart ==
    /\ ~dlRunning /\ dlTask = "off" /\ ~dlStop /\ dlBoots < MaxBoots
    /\ dlRunning' = TRUE /\ dlTask' = "alive" /\ dlBoots' = dlBoots + 1
    /\ dlSync' = [dlSync EXCEPT !["task"].at = "fetch"]
    /\ UNCHANGED <<dlStop, dlServer, dlMem, dlDisk, dlHook, dlExcuse>>

SyncBegins(s) ==
    /\ SyncAt(s, "idle") /\ dlSync' = [dlSync EXCEPT ![s].at = "fetch"]
    /\ UNCHANGED <<dlLife, dlServer, dlMem, dlDisk, dlHook, dlExcuse>>

\* The ticker of the task.
TaskSyncs == dlTask # "off" /\ SyncBegins("task")

\* waddleai denylist sync, of a module that is initialised, running or not.
CommandSyncs == dlBoots > 0 /\ SyncBegins("cli")

Kept == dlMem

SyncFails(s) ==
    /\ SyncAt(s, "fetch")
    /\ dlSync' = [dlSync EXCEPT ![s] = AtRest]
    /\ dlMem' = Kept
    /\ UNCHANGED <<dlLife, dlServer, dlDisk, dlHook, dlExcuse>>

\* The answer is the server's list of the moment.
SyncAnswered(s) ==
    /\ SyncAt(s, "fetch")
    /\ dlSync' = [dlSync EXCEPT ![s] = [at |-> "save", version |-> dlServer]]
    /\ dlExcuse' = IF \E r \in Syncers \ {s} : dlSync[r].at \in {"save", "publish"}
                   THEN dlExcuse \cup {"overlap"} ELSE dlExcuse
    /\ UNCHANGED <<dlLife, dlServer, dlMem, dlDisk, dlHook>>

\* It is saved; a failure is a warning.
SyncSaves(s, ok) ==
    /\ SyncAt(s, "save")
    /\ dlDisk' = IF ok THEN dlSync[s].version ELSE dlDisk
    /\ dlExcuse' = IF ok THEN dlExcuse ELSE dlExcuse \cup {"unsaved"}
    /\ dlSync' = [dlSync EXCEPT ![s].at = "publish"]
    /\ UNCHANGED <<dlLife, dlServer, dlMem, dlHook>>

Published(s) == dlSync[s].version

SyncPublishes(s) ==
    /\ SyncAt(s, "publish")
    /\ dlMem' = Published(s)
    /\ dlSync' = [dlSync EXCEPT ![s] = AtRest]
    /\ UNCHANGED <<dlLife, dlServer, dlDisk, dlHook, dlExcuse>>

StopWaits == TRUE

\* stop: running is cleared, the task is cancelled and waited for.
DenylistStops ==
    /\ dlRunning
    /\ dlRunning' = FALSE /\ dlTask' = "cancelled" /\ dlStop' = StopWaits
    /\ UNCHANGED <<dlBoots, dlSync, dlServer, dlMem, dlDisk, dlHook, dlExcuse>>

\* The task sees the cancellation between two syncs, and stop goes on.
SyncTaskEnds ==
    /\ dlTask = "cancelled" /\ SyncAt("task", "idle")
    /\ dlTask' = "off" /\ dlStop' = FALSE
    /\ UNCHANGED <<dlRunning, dlBoots, dlSync, dlServer, dlMem, dlDisk, dlHook, dlExcuse>>

\* The daemon dies; init loads what was saved.
DenylistReloads ==
    /\ dlBoots \in 1..(MaxBoots - 1) /\ dlBoots' = dlBoots + 1
    /\ dlRunning' = FALSE /\ dlTask' = "off" /\ dlStop' = FALSE
    /\ dlSync' = [s \in Syncers |-> AtRest] /\ dlHook' = NoHook
    /\ dlMem' = dlDisk /\ dlExcuse' = dlExcuse \ {"unsaved"}
    /\ UNCHANGED <<dlServer, dlDisk>>

ServerChangesList ==
    /\ dlServer < MaxVersion /\ dlServer' = dlServer + 1
    /\ UNCHANGED <<dlLife, dlSync, dlMem, dlDisk, dlHook, dlExcuse>>

HookArrives ==
    /\ dlHook.at = "idle" /\ dlBoots > 0
    /\ dlHook' = AskedHook
    /\ UNCHANGED <<dlLife, dlSync, dlServer, dlMem, dlDisk, dlExcuse>>

\* evaluate_hook_event: what is not allow is deny, and without an answer only the
\* cached list speaks.
Outcome(said, listed) ==
    CASE said = "allow" -> "allow" [] said \in {"deny", "other"} -> "deny"
      [] OTHER -> IF listed THEN "deny" ELSE "unavailable"

\* hook_command's exit code: the editor goes on only at 0.
ExitCode(outcome) == CASE outcome = "allow" -> 0 [] outcome = "deny" -> 1 [] OTHER -> 2

\* The server says allow, deny, a word the client does not know, or nothing.
HookAnswered(said) ==
    /\ dlHook.at = "asked"
    /\ dlHook' = [at |-> "done", said |-> said, listed |-> Lists(dlMem),
                  exit |-> ExitCode(Outcome(said, Lists(dlMem)))]
    /\ UNCHANGED <<dlLife, dlSync, dlServer, dlMem, dlDisk, dlExcuse>>

HookLeaves ==
    /\ dlHook.at = "done" /\ dlHook' = NoHook
    /\ UNCHANGED <<dlLife, dlSync, dlServer, dlMem, dlDisk, dlExcuse>>

SyncStep(s) == SyncFails(s) \/ SyncAnswered(s) \/ SyncPublishes(s) \/ \E b \in BOOLEAN : SyncSaves(s, b)

DenylistNext ==
    \/ DenylistStart \/ DenylistStops \/ SyncTaskEnds \/ DenylistReloads \/ ServerChangesList
    \/ TaskSyncs \/ CommandSyncs \/ \E s \in Syncers : SyncStep(s)
    \/ HookArrives \/ HookLeaves \/ \E said \in {"allow", "deny", "other", "nothing"} : HookAnswered(said)

DenylistSpec == DenylistInit /\ [][DenylistNext]_denylistVars

----------------------------------------------------------------------------
\* Types; a list is one the server had.
DenylistTypeOK == dlMem \in 0..dlServer /\ dlDisk \in 0..dlServer /\ dlHook.exit \in 0..2

\* An editor goes on only if the server itself allowed it: no answer, an answer
\* that is not understood, and a cached denial all stop it.
GoesOnOnlyIfAllowed == dlHook.at = "done" /\ dlHook.exit = 0 => dlHook.said = "allow"

\* With no sync under way a restart would load the list that is in use, unless a
\* save failed or two syncs overlapped.
ReloadKeepsList ==
    (\A s \in Syncers : dlSync[s].at \in {"idle", "fetch"}) /\ dlExcuse = {} => dlDisk = dlMem

\* The list in use goes back to an older version only if two syncs overlapped, or
\* a restart after a failed save.
ListMovesForward ==
    [][dlMem' < dlMem => "overlap" \in dlExcuse \/ dlBoots' # dlBoots]_denylistVars

\* stop waits for the task: when it has returned no sync of the task is under way.
StoppedIsQuiet == dlBoots > 0 /\ ~dlRunning /\ ~dlStop => SyncAt("task", "idle")

(***************************************************************************)
(* waddleai's virtual key (module.rs set_virtual_key, probe_auth): the key *)
(* is stored, then the client is rebuilt with it, then it is shown, then   *)
(* the cached probe is dropped, each under a lock of its own; a probe uses *)
(* the client it found, and stores its result when it is answered.         *)
(***************************************************************************)

CONSTANTS
    Setters,   \* concurrent key set commands
    VirtualKeys \* the keys they set

NoKey == "no key"

\* No key has the name of its absence.
ASSUME KeyAssumption == NoKey \notin VirtualKeys

VARIABLES
    vkStored,  \* the secret
    vkClient,  \* the key the client sends
    vkShown,   \* the key status and key status hint at
    vkProbe,   \* the key the cached probe is about, or none
    vkSetter,  \* per key set: the step it is at and its key
    vkAsking,  \* the key a probe under way was sent with, or none
    vkExcuse   \* history: two key sets, or a key set and a probe, overlapped
keyVars == <<vkStored, vkClient, vkShown, vkProbe, vkSetter, vkAsking, vkExcuse>>

NoSetter == [at |-> "idle", key |-> NoKey]

\* init builds the client with the stored key.
KeyInit ==
    /\ vkStored \in VirtualKeys \cup {NoKey}
    /\ vkClient = vkStored /\ vkShown = vkStored /\ vkProbe = "none" /\ vkAsking = "none"
    /\ vkSetter = [s \in Setters |-> NoSetter] /\ vkExcuse = {}

SetterTo(s, p) == vkSetter' = [vkSetter EXCEPT ![s].at = p]
OthersRest(s) == \A t \in Setters \ {s} : vkSetter[t].at = "idle"

Stored(k) == k

\* key set: the value is stored, or the command fails with nothing changed.
KeyStores(s, k) ==
    /\ vkSetter[s].at = "idle"
    /\ vkStored' = Stored(k)
    /\ vkSetter' = [vkSetter EXCEPT ![s] = [at |-> "client", key |-> k]]
    /\ vkExcuse' = IF OthersRest(s) THEN vkExcuse ELSE vkExcuse \cup {"two sets"}
    /\ UNCHANGED <<vkClient, vkShown, vkProbe, vkAsking>>

Rebuilt(s) == vkSetter[s].key

ClientSwaps(s) ==
    /\ vkSetter[s].at = "client"
    /\ vkClient' = Rebuilt(s) /\ SetterTo(s, "show")
    /\ UNCHANGED <<vkStored, vkShown, vkProbe, vkAsking, vkExcuse>>

\* The client cannot be built: the command fails with the key already stored.
RebuildFails(s) ==
    /\ vkSetter[s].at = "client"
    /\ vkSetter' = [vkSetter EXCEPT ![s] = NoSetter]
    /\ vkExcuse' = vkExcuse \cup {"not rebuilt"}
    /\ UNCHANGED <<vkStored, vkClient, vkShown, vkProbe, vkAsking>>

KeyShows(s) ==
    /\ vkSetter[s].at = "show"
    /\ vkShown' = vkSetter[s].key /\ SetterTo(s, "probe")
    /\ UNCHANGED <<vkStored, vkClient, vkProbe, vkAsking, vkExcuse>>

ProbeDropped == "none"

ProbeForgets(s) ==
    /\ vkSetter[s].at = "probe"
    /\ vkProbe' = ProbeDropped
    /\ vkExcuse' = IF vkAsking # "none" THEN vkExcuse \cup {"late probe"} ELSE vkExcuse
    /\ vkSetter' = [vkSetter EXCEPT ![s] = NoSetter]
    /\ UNCHANGED <<vkStored, vkClient, vkShown, vkAsking>>

\* status or health finds no fresh probe and asks with the client of the moment.
ProbeAsks ==
    /\ vkAsking = "none" /\ vkAsking' = vkClient
    /\ UNCHANGED <<vkStored, vkClient, vkShown, vkProbe, vkSetter, vkExcuse>>

ProbeStores ==
    /\ vkAsking # "none"
    /\ vkProbe' = vkAsking /\ vkAsking' = "none"
    /\ UNCHANGED <<vkStored, vkClient, vkShown, vkSetter, vkExcuse>>

KeyNext ==
    \/ \E s \in Setters : (\E k \in VirtualKeys : KeyStores(s, k)) \/ ClientSwaps(s) \/ RebuildFails(s) \/ KeyShows(s) \/ ProbeForgets(s)
    \/ ProbeAsks \/ ProbeStores

KeySpec == KeyInit /\ [][KeyNext]_keyVars

AllRest == \A s \in Setters : vkSetter[s].at = "idle"

\* Types; and no key is sent or shown before there is one in the store.
KeyTypeOK ==
    /\ vkStored = NoKey => vkClient = NoKey /\ vkShown = NoKey
    /\ {vkStored, vkClient, vkShown} \subseteq VirtualKeys \cup {NoKey}
    /\ vkProbe \in VirtualKeys \cup {NoKey, "none"}

\* With no key set under way the stored key, the one the client sends and the one
\* status hints at are one, unless two key sets overlapped or the client could not
\* be rebuilt.
OneKey == AllRest /\ vkExcuse \subseteq {"late probe"} => vkStored = vkClient /\ vkClient = vkShown

\* A cached probe is about the key in use, unless it was under way when the key
\* changed, or two key sets overlapped.
ProbeIsOfKey == AllRest /\ vkExcuse = {} => vkProbe \in {"none", vkClient}
=============================================================================
