--------------------------- MODULE DaemonService ---------------------------
(***************************************************************************)
(* The daemon's control API (service.rs) as a client of it meets it: one   *)
(* call at a time, answered by a handler that reads the table of modules   *)
(* once or several times, while the table changes.  What a load or an      *)
(* unload goes through is Supervisor's subject; here it is one change of   *)
(* the table.  The command line and the tray are clients of this module.   *)
(***************************************************************************)
EXTENDS Integers, FiniteSets

CONSTANTS
    Builtin,    \* registered modules
    External,   \* plugins: listed only while they are loaded
    Silent,     \* modules without commands
    MaxChanges  \* bound: changes of the table and of the daemon

Names == Builtin \cup External
Ghost == "ghost"    \* a name nobody registered
AllModules == ""    \* GetStatus without a name

ASSUME ServiceAssumption == Silent \subseteq Names /\ Ghost \notin Names /\ MaxChanges \in Nat

VARIABLES
    dsUp,      \* the daemon answers
    dsMods,    \* the supervisor's table
    dsCall,    \* the client's call
    dsSeen,    \* history: modules loaded at some time since the client's present task began
    dsAlways,  \* history: modules loaded all that time
    dsRan,     \* history: dispatches that reached a module in that time
    dsChanges

serviceApiVars == <<dsUp, dsMods, dsCall, dsSeen, dsAlways, dsRan, dsChanges>>
tableVars == <<dsUp, dsMods, dsSeen, dsAlways, dsChanges>>

Loaded == {n \in Names : dsMods[n] # "disabled"}
NoRows == [n \in {} |-> "disabled"]
NoRpc == [rpc |-> "none", name |-> AllModules, at |-> "none", todo |-> {}, half |-> Ghost, got |-> {},
           mute |-> {}, rows |-> NoRows, code |-> 0]

ServiceApiInit ==
    /\ dsUp \in BOOLEAN /\ dsMods \in [Names -> {"disabled", "running"}]
    /\ (~dsUp) => dsMods = [n \in Names |-> "disabled"]
    /\ dsCall = NoRpc /\ dsSeen = Loaded /\ dsAlways = Loaded /\ dsRan = 0 /\ dsChanges \in 0..MaxChanges

\* A client's task begins or ends: a command, or a render.
Watched == dsSeen' = Loaded /\ dsAlways' = Loaded /\ dsRan' = 0 /\ UNCHANGED <<dsUp, dsMods, dsChanges>>

\* The table changes, and the history with it.
TableBecomes(mods) ==
    LET loaded == {n \in Names : mods[n] # "disabled"}
    IN  dsMods' = mods /\ dsSeen' = dsSeen \cup loaded /\ dsAlways' = dsAlways \cap loaded

SetModule(n, s) == TableBecomes([dsMods EXCEPT ![n] = s])

\* Other clients, and the supervisor itself.
OthersChange(n, s) ==
    /\ dsUp /\ dsChanges < MaxChanges /\ dsMods[n] # s /\ dsChanges' = dsChanges + 1
    /\ SetModule(n, s) /\ UNCHANGED <<dsUp, dsCall, dsRan>>

DaemonStops ==
    /\ dsUp /\ dsChanges < MaxChanges /\ dsChanges' = dsChanges + 1 /\ dsUp' = FALSE
    /\ TableBecomes([n \in Names |-> "disabled"])
    /\ dsCall' = IF dsCall.at = "none" THEN NoRpc ELSE [dsCall EXCEPT !.at = "failed"]
    /\ UNCHANGED dsRan

DaemonStarts(enabled) ==
    /\ ~dsUp /\ dsChanges < MaxChanges /\ dsChanges' = dsChanges + 1 /\ dsUp' = TRUE
    /\ TableBecomes([n \in Names |-> IF n \in enabled THEN "running" ELSE "disabled"])
    /\ UNCHANGED <<dsCall, dsRan>>

-----------------------------------------------------------------------------
\* A call.

Request(rpc, name) == dsCall' = [NoRpc EXCEPT !.rpc = rpc, !.name = name, !.at = IF dsUp THEN "sent" ELSE "failed"]

\* The client's timeout, or the end of its interest: the request is dropped.
HangUp == dsCall.at # "none" /\ dsCall' = NoRpc

Sent(rpc) == dsCall.rpc = rpc /\ dsCall.at = "sent"
Replies(fields) == dsCall' = [f \in DOMAIN dsCall |-> IF f \in DOMAIN fields THEN fields[f] ELSE dsCall[f]]
Answered == dsCall.at = "done"
Failed == dsCall.at = "failed"

\* Supervisor::list: the registered modules, loaded or not, and the loaded plugins,
\* under one read lock.
Listed == [n \in Builtin \cup Loaded |-> dsMods[n]]

HandlesVersion ==
    /\ Sent("version") /\ Replies([at |-> "done"])
    /\ UNCHANGED <<tableVars, dsRan>>

HandlesListModules ==
    /\ Sent("modules") /\ Replies([at |-> "done", rows |-> Listed])
    /\ UNCHANGED <<tableVars, dsRan>>

\* load: a module that is loaded stays as it is.
HandlesLoad ==
    /\ Sent("load") /\ UNCHANGED <<dsUp, dsChanges, dsRan>>
    /\ \/ dsCall.name \in Loaded /\ Replies([at |-> "done"]) /\ UNCHANGED <<dsMods, dsSeen, dsAlways>>
       \/ dsCall.name \in Names \ Loaded /\ Replies([at |-> "done"]) /\ SetModule(dsCall.name, "running")
       \/ dsCall.name \notin Loaded /\ Replies([at |-> "failed"]) /\ UNCHANGED <<dsMods, dsSeen, dsAlways>>

\* unload: a name that is not loaded, or that nobody knows, is a success.
HandlesUnload ==
    /\ Sent("unload") /\ UNCHANGED <<dsUp, dsChanges, dsRan>>
    /\ \/ dsCall.name \in Loaded /\ Replies([at |-> "done"]) /\ SetModule(dsCall.name, "disabled")
       \/ dsCall.name \in Loaded /\ Replies([at |-> "failed"]) /\ SetModule(dsCall.name, "disabled")
       \/ dsCall.name \notin Loaded /\ Replies([at |-> "done"]) /\ UNCHANGED <<dsMods, dsSeen, dsAlways>>

\* get_status and list_commands: the names first, each module's answer later.
ListsNames ==
    /\ dsCall.at = "sent" /\ dsCall.rpc \in {"status", "commands"}
    /\ Replies([at |-> "each", todo |-> IF dsCall.name = AllModules THEN DOMAIN Listed ELSE {dsCall.name}])
    /\ UNCHANGED <<tableVars, dsRan>>

\* Mutant: the first module that is gone ends the listing.
SkippedEnds(n) == {}
\* A module that is no longer loaded is passed over.
Skipped(n) == dsCall.todo \ {n}

AsksCommands(n) ==
    /\ dsCall.rpc = "commands" /\ dsCall.at = "each" /\ n \in dsCall.todo
    /\ IF n \in Loaded
       THEN Replies([todo |-> dsCall.todo \ {n}, got |-> dsCall.got \cup {n}])
       ELSE Replies([todo |-> Skipped(n)])
    /\ UNCHANGED <<tableVars, dsRan>>

\* module_status_proto: its status, then its health, with the table read for each.
AsksStatus(n) ==
    /\ dsCall.rpc = "status" /\ dsCall.at = "each" /\ n \in dsCall.todo /\ dsCall.half = Ghost
    /\ \/ n \in Loaded /\ Replies([half |-> n])
       \/ n \in Loaded /\ Replies([todo |-> Skipped(n), mute |-> dsCall.mute \cup {n}])
       \/ n \notin Loaded /\ Replies([todo |-> Skipped(n)])
    /\ UNCHANGED <<tableVars, dsRan>>

AsksHealth(n) ==
    /\ dsCall.rpc = "status" /\ dsCall.at = "each" /\ dsCall.half = n
    /\ IF n \in Loaded
       THEN Replies([todo |-> dsCall.todo \ {n}, half |-> Ghost, got |-> dsCall.got \cup {n}])
       ELSE Replies([todo |-> Skipped(n), half |-> Ghost])
    /\ UNCHANGED <<tableVars, dsRan>>

\* A status that was asked for by name and has no answer is NOT_FOUND.
ListingReturns ==
    /\ dsCall.at = "each" /\ dsCall.todo = {}
    /\ Replies([at |-> IF dsCall.name # AllModules /\ dsCall.got = {} THEN "failed" ELSE "done"])
    /\ UNCHANGED <<tableVars, dsRan>>

\* dispatch: the module is looked up, and awaited without the lock.
HandlesDispatch ==
    /\ Sent("dispatch")
    /\ IF dsCall.name \in Loaded
       THEN Replies([at |-> "running"]) /\ dsRan' = dsRan + 1
       ELSE Replies([at |-> "failed"]) /\ UNCHANGED dsRan
    /\ UNCHANGED tableVars

\* The exit codes that a module may answer: what an i32 holds and a u8 does not, too.
ModuleCodes == {-1, 0, 1, 256}

DispatchReturns(code) ==
    /\ dsCall.at = "running" /\ Replies([at |-> "done", code |-> code])
    /\ UNCHANGED <<tableVars, dsRan>>

DispatchFails ==
    /\ dsCall.at = "running" /\ Replies([at |-> "failed"])
    /\ UNCHANGED <<tableVars, dsRan>>

\* tail_logs: the stream is established, and ends or goes on.
HandlesTailLogs ==
    /\ Sent("logs") /\ Replies([at |-> "done"])
    /\ UNCHANGED <<tableVars, dsRan>>

\* check_update: code 1 is an update that is available; without a client there is
\* none, and the check itself may fail.  apply_update: code 0 is applied; it never
\* fails as a call, its failure is in the answer.
HandlesUpdate ==
    /\ \/ Sent("check") /\ \E c \in {0, 1} : Replies([at |-> "done", code |-> c])
       \/ Sent("check") /\ Replies([at |-> "failed"])
       \/ Sent("apply") /\ \E c \in {0, 1} : Replies([at |-> "done", code |-> c])
    /\ UNCHANGED <<tableVars, dsRan>>

HandlerStep ==
    \/ HandlesVersion \/ HandlesListModules \/ HandlesLoad \/ HandlesUnload \/ ListsNames \/ ListingReturns
    \/ \E n \in Names \cup {Ghost} : AsksCommands(n) \/ AsksStatus(n)
    \/ \E n \in Names : AsksHealth(n)
    \/ HandlesDispatch \/ DispatchFails \/ HandlesTailLogs \/ HandlesUpdate
    \/ \E c \in ModuleCodes : DispatchReturns(c)

ServiceApiStep ==
    \/ HandlerStep \/ DaemonStops
    \/ \E n \in Names, s \in {"disabled", "running"} : OthersChange(n, s)
    \/ \E enabled \in {{}, Builtin} : DaemonStarts(enabled)
=============================================================================
