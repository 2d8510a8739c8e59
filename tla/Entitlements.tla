---------------------------- MODULE Entitlements ----------------------------
(***************************************************************************)
(* The daemon's licence (penguin-licensing): what modules read is memory,  *)
(* loaded from disk when the daemon comes up, replaced by a background     *)
(* refresh, and written to disk after it, with failures of either only     *)
(* logged.  The server's answers are numbered; 0 is no entitlement.        *)
(***************************************************************************)
EXTENDS Integers

CONSTANT MaxGrants   \* bound: answers the server goes through

ASSUME EntAssumption == MaxGrants \in Nat \ {0}

NoGrant == 0
Torn == -1           \* a cache file that does not parse

VARIABLES
    enKeyed,   \* LICENSE_KEY is set for this run of the daemon
    enServer,  \* the server's present answer
    enMem,     \* State: the answer in memory
    enDisk,    \* license-cache.json
    enAt,      \* the refresh task, or that the daemon is down
    enStop,    \* RefreshHandle::stop has been called
    enFailed,  \* history: the last persist failed or was cut short
    enSaved    \* history: some persist succeeded
entVars == <<enKeyed, enServer, enMem, enDisk, enAt, enStop, enFailed, enSaved>>

EntInit ==
    /\ enKeyed \in BOOLEAN /\ enServer = 1 /\ enMem = NoGrant /\ enDisk = NoGrant
    /\ enAt = "down" /\ enStop = FALSE /\ enFailed = FALSE /\ enSaved = FALSE

\* load: a file that is missing or does not parse is no cache.
Cached == IF enDisk = Torn THEN NoGrant ELSE enDisk

\* LicenseClient::new, then spawn_background_refresh, whose task has not run yet.
EntBoot(keyed) ==
    /\ enAt = "down"
    /\ enKeyed' = keyed /\ enMem' = Cached /\ enAt' = "spawned" /\ enStop' = FALSE
    /\ UNCHANGED <<enServer, enDisk, enFailed, enSaved>>

\* A failed fetch (no connection, a status, a body that does not parse).
AfterFailure == enMem

MayRefresh == enAt = "spawned" \/ enAt = "idle"

Unkeyed == NoGrant

\* Without a key the task clears memory and asks nobody; the file stays.
ClearUnkeyed ==
    /\ MayRefresh /\ ~enKeyed
    /\ enMem' = Unkeyed /\ enAt' = "idle"
    /\ UNCHANGED <<enKeyed, enServer, enDisk, enStop, enFailed, enSaved>>

Fetch ==
    /\ MayRefresh /\ enKeyed
    /\ enAt' = "fetching"
    /\ UNCHANGED <<enKeyed, enServer, enMem, enDisk, enStop, enFailed, enSaved>>

\* DEFAULT_TIMEOUT bounds the request and its body.
FetchFails ==
    /\ enAt = "fetching"
    /\ enMem' = AfterFailure /\ enAt' = "idle"
    /\ UNCHANGED <<enKeyed, enServer, enDisk, enStop, enFailed, enSaved>>

\* update_cache: tier and features change in memory under one lock.
UpdateMemory ==
    /\ enAt = "fetching"
    /\ enMem' = enServer /\ enAt' = "persist"
    /\ UNCHANGED <<enKeyed, enServer, enDisk, enStop, enFailed, enSaved>>

\* persist writes and syncs a temporary file; the cache file is as it was.
DiskWhileWriting == enDisk

WriteCacheTemp ==
    /\ enAt = "persist"
    /\ enDisk' = DiskWhileWriting /\ enAt' = "rename"
    /\ UNCHANGED <<enKeyed, enServer, enMem, enStop, enFailed, enSaved>>

Renamed == enMem

RenameCache ==
    /\ enAt = "rename"
    /\ enDisk' = Renamed /\ enAt' = "idle"
    /\ enFailed' = FALSE /\ enSaved' = TRUE
    /\ UNCHANGED <<enKeyed, enServer, enMem, enStop>>

\* Any step of it fails: it is logged, and the fetched answer is used.
PersistFails ==
    /\ enAt \in {"persist", "rename"}
    /\ enAt' = "idle" /\ enFailed' = TRUE
    /\ UNCHANGED <<enKeyed, enServer, enMem, enDisk, enStop, enSaved>>

StopRefresh ==
    /\ enAt # "down" /\ ~enStop /\ enStop' = TRUE
    /\ UNCHANGED <<enKeyed, enServer, enMem, enDisk, enAt, enFailed, enSaved>>

\* The loop looks at the stop only between two refreshes.
StopSeen == enStop /\ enAt = "idle"

RefreshLoopEnds ==
    /\ StopSeen /\ enAt' = "down"
    /\ UNCHANGED <<enKeyed, enServer, enMem, enDisk, enStop, enFailed, enSaved>>

EntCrash ==
    /\ enAt # "down" /\ enAt' = "down"
    /\ enFailed' = (enFailed \/ enAt \in {"persist", "rename"})
    /\ UNCHANGED <<enKeyed, enServer, enMem, enDisk, enStop, enSaved>>

\* The licence changes at the server.
GrantChanges ==
    /\ enServer < MaxGrants /\ enServer' = enServer + 1
    /\ UNCHANGED <<enKeyed, enMem, enDisk, enAt, enStop, enFailed, enSaved>>

RefreshStep == Fetch \/ ClearUnkeyed \/ FetchFails \/ UpdateMemory \/ WriteCacheTemp \/ RenameCache \/ PersistFails

EntNext ==
    \/ RefreshStep \/ RefreshLoopEnds \/ StopRefresh \/ EntCrash \/ GrantChanges
    \/ \E k \in BOOLEAN : EntBoot(k)

\* A refresh goes on with its steps, and the loop starts.
RefreshGoesOn ==
    \/ FetchFails \/ UpdateMemory \/ WriteCacheTemp \/ RenameCache \/ PersistFails
    \/ enAt = "spawned" /\ RefreshStep

\* A stop is seen at the first time the loop waits: a tick and the stop can both
\* be ready, and which is taken is left open, but the tick is minutes away.
EntFairness == WF_entVars(RefreshGoesOn) /\ SF_entVars(RefreshLoopEnds)

EntSpec == EntInit /\ [][EntNext]_entVars /\ EntFairness

----------------------------------------------------------------------------
FeatureEnabled == enKeyed /\ enMem # NoGrant
Tier == enMem

\* Types; in particular a crash in the middle of a persist leaves a cache file
\* that parses.
EntTypeOK ==
    /\ enKeyed \in BOOLEAN /\ enServer \in 1..MaxGrants /\ enMem \in 0..MaxGrants /\ enDisk \in 0..MaxGrants
    /\ enAt \in {"down", "spawned", "idle", "fetching", "persist", "rename"} /\ enStop \in BOOLEAN

\* What the next start would load is what a keyed daemon answers now, unless a
\* persist is under way, failed, or was cut short.
NextStartAgrees == enKeyed /\ enAt \notin {"down", "persist", "rename"} /\ ~enFailed => enDisk = enMem

\* An answer that was once saved is never lost: a keyed daemon that is up has
\* entitlements, whatever the server, failed persists and crashes do.
OnceLicensedStays == enSaved /\ enKeyed /\ enAt # "down" => FeatureEnabled

\* Without a key the tier of an earlier, keyed run is answered only until the
\* refresh task first runs.
OldTierOnlyAtStart == ~enKeyed /\ enAt \notin {"down", "spawned"} => Tier = NoGrant

\* RefreshHandle::stop returns, with a refresh in flight too.
RefreshStopEnds == (enStop /\ enAt # "down") ~> (enAt = "down")
=============================================================================
