-------------------------- MODULE TobogganingAuth --------------------------
(***************************************************************************)
(* The tobogganing module's token (auth.rs): ensure_valid_token, which     *)
(* keeps the state's mutex across its requests and its saves, and          *)
(* revoke_token, which does not; with the refresh loop of module.rs and    *)
(* the start and stop that run and end it.                                 *)
(***************************************************************************)
EXTENDS Integers

CONSTANTS
    MaxTokens,   \* bound: tokens the manager issues
    MaxLogins,   \* bound: calls of start
    MaxCrashes   \* bound: crashes of the daemon

ASSUME AuthAssumption == {MaxTokens, MaxLogins, MaxCrashes} \subseteq Nat

\* The refresh loop's tick, and establish_tunnel.
TokenUsers == {"refresher", "connector"}
Unlocked == "unlocked"
NoToken == 0
Tokens == 1..MaxTokens
Blank == [access |-> NoToken, refresh |-> NoToken]

VARIABLES
    taRunning,   \* running
    taStarts,    \* calls of start so far
    taLoop,      \* the refresh loop: off, on, or cancelled and not yet ended
    taUser,      \* per caller of ensure_valid_token: the step it is at
    taStop,      \* the step stop is at
    taStopToken, \* the token revoke_token read
    taStopErr,   \* stop returns an error
    taLock,      \* AuthManager.state's holder
    taMem,       \* TokenState: access and refresh token
    taStore,     \* the secret store's copy
    taAge,       \* per token: fresh, expiring soon, past
    taIssued,    \* tokens issued so far
    taRevoked,   \* tokens revoked at the manager
    taCrashes,
    taExcuse     \* history: what has happened that explains a leftover
authVars == <<taRunning, taStarts, taLoop, taUser, taStop, taStopToken, taStopErr, taLock, taMem, taStore, taAge,
              taIssued, taRevoked, taCrashes, taExcuse>>
taLife == <<taRunning, taStarts, taLoop, taCrashes>>
taRevoking == <<taStop, taStopToken, taStopErr>>
taManager == <<taAge, taIssued, taRevoked>>

AuthInit ==
    /\ taRunning = FALSE /\ taStarts = 0 /\ taLoop = "off"
    /\ taUser = [u \in TokenUsers |-> "idle"] /\ taLock = Unlocked
    /\ taStop = "idle" /\ taStopToken = NoToken /\ taStopErr = FALSE
    /\ taMem = Blank /\ taStore = Blank /\ taIssued = 0 /\ taRevoked = {}
    /\ taAge = [k \in Tokens |-> "fresh"]
    /\ taCrashes = 0 /\ taExcuse = {}

UserAt(u, p) == taUser[u] = p
UserTo(u, p) == taUser' = [taUser EXCEPT ![u] = p]

\* A token is cached, and is_expired_at with no threshold says it has not expired.
ValidToken == taMem.access # NoToken /\ taAge[taMem.access] # "past"

\* A valid token is enough, at once.
EnsureCached(u) ==
    /\ UserAt(u, "ensure") /\ taLock = Unlocked /\ ValidToken
    /\ UserTo(u, "idle")
    /\ UNCHANGED <<taLife, taRevoking, taLock, taMem, taStore, taManager, taExcuse>>

\* Otherwise the lock is kept: refresh if there is a refresh token, else obtain.
EnsureAsks(u) ==
    /\ UserAt(u, "ensure") /\ taLock = Unlocked /\ ~ValidToken
    /\ taLock' = u
    /\ UserTo(u, IF taMem.refresh # NoToken THEN "refreshing" ELSE "obtaining")
    /\ UNCHANGED <<taLife, taRevoking, taMem, taStore, taManager, taExcuse>>

\* Mutant: an answer without a refresh token clears the one there is.
AppliedUnconditionally(k, carries, obtained) == [access |-> k, refresh |-> IF carries THEN k ELSE NoToken]
\* apply_response in memory: a refresh token replaces the old one if the answer
\* carries one, or if the answer is obtain's.
Applied(k, carries, obtained) ==
    [access |-> k, refresh |-> IF carries THEN k ELSE IF obtained THEN NoToken ELSE taMem.refresh]

\* The manager answers post_token: memory is set, and the saves begin.
TokenAnswered(u, carries) ==
    /\ taUser[u] \in {"refreshing", "obtaining"} /\ taIssued < MaxTokens
    /\ taIssued' = taIssued + 1
    /\ taMem' = Applied(taIssued + 1, carries, UserAt(u, "obtaining"))
    /\ UserTo(u, "saveAccess")
    /\ UNCHANGED <<taLife, taRevoking, taLock, taStore, taAge, taRevoked, taExcuse>>

\* A refresh that fails falls back to the API key.
RefreshFails(u) ==
    /\ UserAt(u, "refreshing") /\ UserTo(u, "obtaining")
    /\ UNCHANGED <<taLife, taRevoking, taLock, taMem, taStore, taManager, taExcuse>>

\* Mutant: an early return that keeps the mutex.
UnlockNever == taLock
Unlock == Unlocked

\* No API key, or obtain fails: the caller gets the error.
ObtainFails(u) ==
    /\ UserAt(u, "obtaining")
    /\ taLock' = Unlock /\ UserTo(u, "idle")
    /\ UNCHANGED <<taLife, taRevoking, taMem, taStore, taManager, taExcuse>>

\* The answer carried a refresh token: it has the access token's number.
AnswerCarried == taMem.refresh = taMem.access

Saved(key) == taMem[key]

\* A write of the secret store, best effort.
StoreWrite(key, k, ok) ==
    /\ taStore' = IF ok THEN [taStore EXCEPT ![key] = k] ELSE taStore
    /\ taExcuse' = IF ok THEN taExcuse ELSE taExcuse \cup {"unsaved"}

\* apply_response saves the access token ...
SaveAccess(u, ok) ==
    /\ UserAt(u, "saveAccess")
    /\ StoreWrite("access", Saved("access"), ok)
    /\ IF AnswerCarried THEN UserTo(u, "saveRefresh") /\ taLock' = u
                        ELSE UserTo(u, "idle") /\ taLock' = Unlocked
    /\ UNCHANGED <<taLife, taRevoking, taMem, taManager>>

\* ... then the refresh token.
SaveRefresh(u, ok) ==
    /\ UserAt(u, "saveRefresh")
    /\ StoreWrite("refresh", Saved("refresh"), ok)
    /\ UserTo(u, "idle") /\ taLock' = Unlocked
    /\ UNCHANGED <<taLife, taRevoking, taMem, taManager>>

\* Time passes: a token nears its end, then is past it.
Ages(k) ==
    /\ k \in {taMem.access, taStore.access} \ {NoToken} /\ taAge[k] # "past"
    /\ taAge' = [taAge EXCEPT ![k] = IF @ = "fresh" THEN "soon" ELSE "past"]
    /\ UNCHANGED <<taLife, taRevoking, taUser, taLock, taMem, taStore, taIssued, taRevoked, taExcuse>>

\* start, with the loop.
Login ==
    /\ ~taRunning /\ taStop = "idle" /\ taStarts < MaxLogins
    /\ taRunning' = TRUE /\ taStarts' = taStarts + 1 /\ taLoop' = "on"
    /\ UNCHANGED <<taCrashes, taRevoking, taUser, taLock, taMem, taStore, taManager, taExcuse>>

\* establish_tunnel (the first connect, the monitor or the command): only when running.
ConnectorEnsures ==
    /\ UserAt("connector", "idle") /\ taRunning
    /\ UserTo("connector", "ensure")
    /\ UNCHANGED <<taLife, taRevoking, taLock, taMem, taStore, taManager, taExcuse>>

\* auth_refresh_loop's tick: a token that expires within the threshold is ensured.
\* A loop that was cancelled may still take a tick that was due.
RefresherTick ==
    /\ taLoop # "off" /\ UserAt("refresher", "idle") /\ taLock = Unlocked
    /\ taMem.access # NoToken => taAge[taMem.access] # "fresh"
    /\ UserTo("refresher", "ensure")
    /\ taExcuse' = IF taLoop = "cancelled" THEN taExcuse \cup {"overtaken"} ELSE taExcuse
    /\ UNCHANGED <<taLife, taRevoking, taLock, taMem, taStore, taManager>>

\* The loop sees its cancellation, between two arms.
LoopEnds ==
    /\ taLoop = "cancelled" /\ UserAt("refresher", "idle") /\ taLoop' = "off"
    /\ UNCHANGED <<taRunning, taStarts, taCrashes, taRevoking, taUser, taLock, taMem, taStore, taManager,
                   taExcuse>>

\* stop: running is cleared and the loop is cancelled.
LogoutBegins ==
    /\ taRunning /\ taStop = "idle"
    /\ taRunning' = FALSE /\ taLoop' = "cancelled"
    /\ taStop' = "revoke" /\ taStopErr' = FALSE
    /\ taExcuse' = IF \E u \in TokenUsers : ~UserAt(u, "idle") THEN taExcuse \cup {"overtaken"} ELSE taExcuse
    /\ UNCHANGED <<taStarts, taCrashes, taUser, taLock, taMem, taStore, taManager, taStopToken>>

\* revoke_token reads the token under the lock, and lets go of it.
RevokeReads ==
    /\ taStop = "revoke" /\ taLock = Unlocked
    /\ taStopToken' = taMem.access
    /\ taStop' = IF taMem.access = NoToken THEN "idle" ELSE "post"
    /\ UNCHANGED <<taLife, taStopErr, taUser, taLock, taMem, taStore, taManager, taExcuse>>

RevokeAnswered ==
    /\ taStop = "post"
    /\ taRevoked' = taRevoked \cup {taStopToken} /\ taStop' = "clear"
    /\ UNCHANGED <<taLife, taStopToken, taStopErr, taUser, taLock, taMem, taStore, taAge, taIssued, taExcuse>>

RevokeFails ==
    /\ taStop = "post"
    /\ taStop' = "idle" /\ taStopErr' = TRUE
    /\ UNCHANGED <<taLife, taStopToken, taUser, taLock, taMem, taStore, taManager, taExcuse>>

\* Whatever is in memory by now is cleared.
RevokeClears ==
    /\ taStop = "clear" /\ taLock = Unlocked
    /\ taMem' = Blank /\ taStop' = "access"
    /\ UNCHANGED <<taLife, taStopToken, taStopErr, taUser, taLock, taStore, taManager, taExcuse>>

Deleted(key) == NoToken

\* The access token is deleted from the store, then the refresh token.
RevokeDeletes(key, ok) ==
    /\ taStop = key
    /\ StoreWrite(key, Deleted(key), ok)
    /\ taStop' = IF key = "access" THEN "refresh" ELSE "idle"
    /\ UNCHANGED <<taLife, taStopToken, taStopErr, taUser, taLock, taMem, taManager>>

\* load_cached_token: nothing, without an access token.
Loaded == IF taStore.access = NoToken THEN Blank ELSE taStore

\* The daemon dies and comes back with what the store has.
CrashAndLoad ==
    /\ taCrashes < MaxCrashes /\ taStarts > 0
    /\ taCrashes' = taCrashes + 1
    /\ taRunning' = FALSE /\ taLoop' = "off"
    /\ taUser' = [u \in TokenUsers |-> "idle"] /\ taLock' = Unlocked
    /\ taStop' = "idle" /\ taStopToken' = NoToken /\ taStopErr' = TRUE
    /\ taMem' = Loaded
    /\ taExcuse' = IF taStore # taMem THEN taExcuse \cup {"unsaved"} ELSE taExcuse
    /\ UNCHANGED <<taStarts, taStore, taManager>>

TokenStep(u) ==
    \/ EnsureCached(u) \/ EnsureAsks(u) \/ RefreshFails(u) \/ ObtainFails(u)
    \/ \E b \in BOOLEAN : TokenAnswered(u, b) \/ SaveAccess(u, b) \/ SaveRefresh(u, b)

RevokeStep ==
    \/ RevokeReads \/ RevokeAnswered \/ RevokeFails \/ RevokeClears
    \/ \E key \in {"access", "refresh"}, b \in BOOLEAN : RevokeDeletes(key, b)

AuthNext ==
    \/ \E u \in TokenUsers : TokenStep(u)
    \/ RevokeStep \/ Login \/ LogoutBegins \/ ConnectorEnsures \/ RefresherTick \/ LoopEnds \/ CrashAndLoad
    \/ \E k \in Tokens : Ages(k)

AuthSpec == AuthInit /\ [][AuthNext]_authVars

----------------------------------------------------------------------------
\* Types; and there is no refresh token in memory without an access token.
AuthTypeOK ==
    /\ taMem.access \in 0..taIssued /\ taMem.refresh \in 0..taIssued
    /\ taMem.access = NoToken => taMem = Blank
    /\ taStore.access \in 0..taIssued /\ taStore.refresh \in 0..taIssued
    /\ taRevoked \subseteq 1..taIssued
    /\ taLock # Unlocked => taUser[taLock] \in {"refreshing", "obtaining", "saveAccess", "saveRefresh"}

\* stop ends the login: after one that reported no error no token is left in
\* memory or in the store, and the manager has revoked the last it issued, unless
\* ensure_valid_token overtook it or the store failed.
TokenEndsWithStop ==
    /\ taStarts > 0 /\ ~taRunning /\ taStop = "idle" /\ ~taStopErr
    /\ taExcuse = {}
    => taMem = Blank /\ taStore = Blank /\ (taIssued # 0 => taIssued \in taRevoked)

\* A refresh token is not lost by a refresh whose answer has none: only obtain, a
\* revocation or a restart leaves memory without the one it had.
RefreshTokenKept ==
    [][taMem.refresh # NoToken /\ taMem'.refresh = NoToken
         => \/ \E u \in TokenUsers : UserAt(u, "obtaining")
            \/ taStop = "clear" \/ taCrashes' # taCrashes]_authVars

\* The store is not behind memory when nobody is writing it and no write failed:
\* a restart resumes the login that was there.
StoreResumesLogin ==
    /\ taExcuse = {} /\ taLock = Unlocked /\ taStop = "idle" /\ taMem.access # NoToken
    => taStore.access = taMem.access /\ (taMem.refresh # NoToken => taStore.refresh = taMem.refresh)
=============================================================================
