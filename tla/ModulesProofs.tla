--------------------------- MODULE ModulesProofs ---------------------------
(***************************************************************************)
(* The safety of the tobogganing and waddleai modules (MCModules), for any *)
(* number of tokens, restarts, list versions, edits, concurrent hooks      *)
(* commands and concurrent key sets.  Each part has an inductive invariant *)
(* of its own; most of it says what is known at each step of an operation  *)
(* as long as nothing has happened that the part's history would excuse.   *)
(***************************************************************************)
EXTENDS MCModules, TLAPS

-----------------------------------------------------------------------------
(* The token.                                                              *)

Busy == {"refreshing", "obtaining", "saveAccess", "saveRefresh"}
UserSteps == {"idle", "ensure"} \cup Busy

AuthShape ==
    /\ taRunning \in BOOLEAN /\ taStopErr \in BOOLEAN
    /\ taStarts \in Nat /\ taCrashes \in Nat
    /\ taLoop \in {"off", "on", "cancelled"}
    /\ taUser \in [TokenUsers -> UserSteps]
    /\ taStop \in {"idle", "revoke", "post", "clear", "access", "refresh"}
    /\ taIssued \in Nat /\ taStopToken \in 0..taIssued
    /\ taMem \in [access : 0..taIssued, refresh : 0..taIssued]
    /\ taStore \in [access : 0..taIssued, refresh : 0..taIssued]
    /\ taRevoked \subseteq 1..taIssued

\* The mutex is held exactly by the caller that is asking or saving.
TokenMutex == taLock \in TokenUsers \cup {Unlocked} /\ \A u \in TokenUsers : taUser[u] \in Busy <=> taLock = u

\* What holds whatever has happened.
AuthOrder ==
    /\ taMem.access = NoToken => taMem = Blank
    /\ taLoop = "on" => taRunning
    /\ taStop # "idle" => ~taRunning
    /\ taStop \in {"post", "clear"} => taStopToken # NoToken
    /\ \A u \in TokenUsers : taUser[u] \in {"saveAccess", "saveRefresh"} => taMem.access # NoToken

NobodySaves == \A u \in TokenUsers : taUser[u] \notin {"saveAccess", "saveRefresh"}

\* The store has what memory has.
InStore(key) == taMem[key] = NoToken \/ taStore[key] = taMem[key]

\* What holds while nothing has overtaken a stop and no write has failed: only a
\* running module asks for tokens, and memory and store are one login, but for the
\* writes that are still to come.
CleanLogin ==
    /\ ~taRunning => \A u \in TokenUsers : taUser[u] = "idle"
    /\ taMem.access \in {NoToken, taIssued}
    /\ taMem.access = NoToken /\ taIssued # 0 => taIssued \in taRevoked
    /\ NobodySaves /\ taStop \in {"idle", "revoke", "post", "clear"}
         => /\ InStore("access") /\ InStore("refresh")
            /\ taMem.access = NoToken => taStore = Blank
    /\ \A u \in TokenUsers :
         /\ taUser[u] = "saveAccess" => taMem.refresh = taMem.access \/ InStore("refresh")
         /\ taUser[u] = "saveRefresh" => InStore("access") /\ taMem.refresh = taMem.access

\* The steps of a stop that nothing has overtaken.
CleanLogout ==
    /\ taStop \in {"post", "clear"} => taMem.access = taStopToken
    /\ taStop = "clear" => taStopToken \in taRevoked
    /\ taStop \in {"access", "refresh"} => taMem = Blank
    /\ taStop = "refresh" => taStore.access = NoToken
    /\ taStop = "idle" /\ ~taRunning /\ ~taStopErr => taMem = Blank

AuthInv == AuthShape /\ TokenMutex /\ AuthOrder /\ (taExcuse = {} => CleanLogin /\ CleanLogout)

LEMMA AuthInitInv == AuthInit => AuthInv
<1> SUFFICES ASSUME AuthInit PROVE AuthInv
  OBVIOUS
<1> USE DEF AuthInit, NoToken
<1>1. AuthShape
  <2>1. Blank \in [access : 0..0, refresh : 0..0]
    BY DEF Blank
  <2>2. taUser \in [TokenUsers -> UserSteps]
    BY DEF UserSteps
  <2>3. taRunning \in BOOLEAN /\ taStopErr \in BOOLEAN
    OBVIOUS
  <2>4. taLoop \in {"off", "on", "cancelled"} /\ taStop \in {"idle", "revoke", "post", "clear", "access", "refresh"}
    OBVIOUS
  <2>5. taStarts \in Nat /\ taCrashes \in Nat /\ taIssued \in Nat /\ taStopToken \in 0..taIssued
    OBVIOUS
  <2> QED
    BY <2>1, <2>2, <2>3, <2>4, <2>5 DEF AuthShape
<1>2. TokenMutex
  BY DEF TokenMutex, Busy, TokenUsers, Unlocked
<1>3. AuthOrder
  BY DEF AuthOrder
<1>4. CleanLogin /\ CleanLogout
  BY DEF CleanLogin, CleanLogout, NobodySaves, InStore, Blank
<1> QED
  BY <1>1, <1>2, <1>3, <1>4 DEF AuthInv

\* What a step of one caller does to the steps the callers are at.
LEMMA TokenUserMoves ==
    ASSUME NEW u \in TokenUsers, NEW q \in UserSteps, taUser \in [TokenUsers -> UserSteps], UserTo(u, q)
    PROVE  /\ taUser' \in [TokenUsers -> UserSteps] /\ taUser'[u] = q
           /\ \A v \in TokenUsers : v # u => taUser'[v] = taUser[v]
BY DEF UserTo

\* There is one holder of the mutex; and, unless it was overtaken, a caller is of a
\* running module, with no stop under way.
LEMMA OneAsks ==
    ASSUME AuthInv, NEW u \in TokenUsers, taUser[u] \in Busy
    PROVE  /\ taLock = u /\ \A v \in TokenUsers : v # u => taUser[v] \notin Busy
           /\ taExcuse = {} => taRunning /\ taStop = "idle"
<1>1. taLock = u /\ \A v \in TokenUsers : v # u => taUser[v] \notin Busy
  BY DEF AuthInv, TokenMutex
<1>2. taUser[u] # "idle"
  BY DEF Busy
<1> QED
  BY <1>1, <1>2 DEF AuthInv, AuthOrder, CleanLogin

\* The steps of a caller that touch nothing else.
LEMMA CallerStepInv ==
    ASSUME AuthInv, NEW u \in TokenUsers, NEW q \in UserSteps \ {"saveAccess", "saveRefresh"}, UserTo(u, q),
           UNCHANGED <<taLife, taRevoking, taLock, taMem, taStore, taManager>>,
           taExcuse' = {} => taExcuse = {} /\ (taRunning \/ q = "idle"),
           taUser[u] \notin {"saveAccess", "saveRefresh"}, taUser[u] \in Busy <=> q \in Busy
    PROVE  AuthInv'
<1> USE DEF AuthInv, taLife, taRevoking, taManager, NoToken
<1>1. /\ taUser' \in [TokenUsers -> UserSteps] /\ taUser'[u] = q
      /\ \A v \in TokenUsers : v # u => taUser'[v] = taUser[v]
  BY TokenUserMoves DEF AuthShape, UserSteps, Busy, TokenUsers
<1>2. AuthShape'
  BY <1>1 DEF AuthShape
<1>3. TokenMutex'
  BY <1>1 DEF TokenMutex, Busy, TokenUsers, Unlocked
<1>4. AuthOrder'
  BY <1>1 DEF AuthOrder, Busy
<1>5. taExcuse' = {} => CleanLogin'
  BY <1>1 DEF CleanLogin, NobodySaves, InStore, AuthShape, Busy
<1>6. taExcuse' = {} => CleanLogout'
  BY <1>1 DEF CleanLogout, CleanLogin
<1> QED
  BY <1>2, <1>3, <1>4, <1>5, <1>6

LEMMA EnsureAsksInv ==
    ASSUME AuthInv, NEW u \in TokenUsers, EnsureAsks(u)
    PROVE  AuthInv'
<1> USE DEF AuthInv, EnsureAsks, UserAt, taLife, taRevoking, taManager, NoToken
<1>1. /\ taUser' \in [TokenUsers -> UserSteps] /\ taUser'[u] = (IF taMem.refresh # NoToken THEN "refreshing" ELSE "obtaining")
      /\ \A v \in TokenUsers : v # u => taUser'[v] = taUser[v]
  BY TokenUserMoves DEF AuthShape, UserSteps, Busy, TokenUsers
<1>2. AuthShape'
  BY <1>1 DEF AuthShape
<1>3. TokenMutex'
  BY <1>1 DEF TokenMutex, Busy, TokenUsers, Unlocked
<1>4. AuthOrder'
  BY <1>1 DEF AuthOrder, Busy
<1>5. taExcuse' = {} => CleanLogin'
  BY <1>1 DEF CleanLogin, NobodySaves, InStore, AuthShape, Busy
<1>6. taExcuse' = {} => CleanLogout'
  BY <1>1 DEF CleanLogout, CleanLogin
<1> QED
  BY <1>2, <1>3, <1>4, <1>5, <1>6

LEMMA TokenAnsweredInv ==
    ASSUME AuthInv, NEW u \in TokenUsers, NEW carries \in BOOLEAN, TokenAnswered(u, carries)
    PROVE  AuthInv'
<1> USE DEF AuthInv, TokenAnswered, taLife, taRevoking, NoToken
<1>1. /\ taUser' \in [TokenUsers -> UserSteps] /\ taUser'[u] = "saveAccess"
      /\ \A v \in TokenUsers : v # u => taUser'[v] = taUser[v]
  BY TokenUserMoves DEF AuthShape, UserSteps, Busy, TokenUsers
<1>2. taUser[u] \in Busy /\ (taExcuse = {} => taRunning /\ taStop = "idle") /\ \A v \in TokenUsers : v # u => taUser[v] \notin Busy
  BY OneAsks DEF Busy
<1>3. taIssued \in Nat /\ taIssued' = taIssued + 1 /\ 0..taIssued \subseteq 0..taIssued' /\ 1..taIssued \subseteq 1..taIssued'
  BY DEF AuthShape
<1>4. /\ taMem' \in [access : 0..taIssued', refresh : 0..taIssued'] /\ taMem'.access = taIssued'
      /\ taMem'.refresh \in {taIssued', NoToken, taMem.refresh}
  BY <1>3 DEF Applied, AuthShape
<1>5. AuthShape'
  BY <1>1, <1>2, <1>3, <1>4 DEF AuthShape
<1>6. TokenMutex'
  BY <1>1, <1>2, <1>3, <1>4 DEF TokenMutex, Busy, TokenUsers, Unlocked
<1>7. AuthOrder'
  BY <1>1, <1>2, <1>3, <1>4 DEF AuthOrder, Busy
<1>8. taExcuse' = {} => CleanLogin'
  BY <1>1, <1>2, <1>3, <1>4 DEF CleanLogin, NobodySaves, InStore, AuthShape, Busy
<1>9. taExcuse' = {} => CleanLogout'
  BY <1>1, <1>2, <1>3, <1>4 DEF CleanLogout, CleanLogin
<1> QED
  BY <1>5, <1>6, <1>7, <1>8, <1>9

LEMMA ObtainFailsInv ==
    ASSUME AuthInv, NEW u \in TokenUsers, ObtainFails(u)
    PROVE  AuthInv'
<1> USE DEF AuthInv, ObtainFails, UserAt, Unlock, taLife, taRevoking, taManager, NoToken
<1>1. /\ taUser' \in [TokenUsers -> UserSteps] /\ taUser'[u] = "idle"
      /\ \A v \in TokenUsers : v # u => taUser'[v] = taUser[v]
  BY TokenUserMoves DEF AuthShape, UserSteps, Busy, TokenUsers
<1>2. taUser[u] \in Busy /\ (taExcuse = {} => taRunning /\ taStop = "idle") /\ \A v \in TokenUsers : v # u => taUser[v] \notin Busy
  BY OneAsks DEF Busy
<1>3. AuthShape'
  BY <1>1, <1>2 DEF AuthShape
<1>4. TokenMutex'
  BY <1>1, <1>2 DEF TokenMutex, Busy, TokenUsers, Unlocked
<1>5. AuthOrder'
  BY <1>1, <1>2 DEF AuthOrder, Busy
<1>6. taExcuse' = {} => CleanLogin'
  BY <1>1, <1>2 DEF CleanLogin, NobodySaves, InStore, AuthShape, Busy
<1>7. taExcuse' = {} => CleanLogout'
  BY <1>1, <1>2 DEF CleanLogout, CleanLogin
<1> QED
  BY <1>3, <1>4, <1>5, <1>6, <1>7

LEMMA SaveAccessInv ==
    ASSUME AuthInv, NEW u \in TokenUsers, NEW ok \in BOOLEAN, SaveAccess(u, ok)
    PROVE  AuthInv'
<1> USE DEF AuthInv, SaveAccess, UserAt, AnswerCarried, taLife, taRevoking, taManager, NoToken
<1>1. /\ taUser' \in [TokenUsers -> UserSteps] /\ taUser'[u] = (IF AnswerCarried THEN "saveRefresh" ELSE "idle")
      /\ \A v \in TokenUsers : v # u => taUser'[v] = taUser[v]
  BY TokenUserMoves DEF AuthShape, UserSteps, Busy, TokenUsers
<1>2. taUser[u] \in Busy /\ (taExcuse = {} => taRunning /\ taStop = "idle") /\ \A v \in TokenUsers : v # u => taUser[v] \notin Busy
  BY OneAsks DEF Busy
<1>3. /\ taStore' \in [access : 0..taIssued, refresh : 0..taIssued] /\ taStore'.refresh = taStore.refresh
      /\ taExcuse' = {} => taExcuse = {} /\ taStore'.access = taMem.access
  BY DEF StoreWrite, Saved, AuthShape
<1>4. /\ taMem.access # NoToken
      /\ taExcuse' = {} => CleanLogin /\ taStop = "idle" /\ taRunning /\ (taMem.refresh = taMem.access \/ InStore("refresh"))
  BY <1>2, <1>3 DEF AuthOrder, CleanLogin
<1>5. taExcuse' = {} => InStore("access")' /\ (~AnswerCarried => InStore("refresh")')
  BY <1>3, <1>4 DEF InStore
<1>6. AuthShape'
  BY <1>1, <1>2, <1>3, <1>4, <1>5 DEF AuthShape
<1>7. TokenMutex'
  BY <1>1, <1>2, <1>3, <1>4, <1>5 DEF TokenMutex, Busy, TokenUsers, Unlocked
<1>8. AuthOrder'
  BY <1>1, <1>2, <1>3, <1>4, <1>5 DEF AuthOrder, Busy
<1>9. taExcuse' = {} => CleanLogin'
  BY <1>1, <1>2, <1>3, <1>4, <1>5 DEF CleanLogin, NobodySaves, Busy
<1>10. taExcuse' = {} => CleanLogout'
  BY <1>1, <1>2, <1>3, <1>4, <1>5 DEF CleanLogout, CleanLogin
<1> QED
  BY <1>6, <1>7, <1>8, <1>9, <1>10

LEMMA SaveRefreshInv ==
    ASSUME AuthInv, NEW u \in TokenUsers, NEW ok \in BOOLEAN, SaveRefresh(u, ok)
    PROVE  AuthInv'
<1> USE DEF AuthInv, SaveRefresh, UserAt, taLife, taRevoking, taManager, NoToken
<1>1. /\ taUser' \in [TokenUsers -> UserSteps] /\ taUser'[u] = "idle"
      /\ \A v \in TokenUsers : v # u => taUser'[v] = taUser[v]
  BY TokenUserMoves DEF AuthShape, UserSteps, Busy, TokenUsers
<1>2. taUser[u] \in Busy /\ (taExcuse = {} => taRunning /\ taStop = "idle") /\ \A v \in TokenUsers : v # u => taUser[v] \notin Busy
  BY OneAsks DEF Busy
<1>3. /\ taStore' \in [access : 0..taIssued, refresh : 0..taIssued] /\ taStore'.access = taStore.access
      /\ taExcuse' = {} => taExcuse = {} /\ taStore'.refresh = taMem.refresh
  BY DEF StoreWrite, Saved, AuthShape
<1>4. /\ taMem.access # NoToken
      /\ taExcuse' = {} => CleanLogin /\ taStop = "idle" /\ taRunning /\ InStore("access")
  BY <1>2, <1>3 DEF AuthOrder, CleanLogin
<1>5. taExcuse' = {} => InStore("access")' /\ InStore("refresh")'
  BY <1>3, <1>4 DEF InStore
<1>6. AuthShape'
  BY <1>1, <1>2, <1>3, <1>4, <1>5 DEF AuthShape
<1>7. TokenMutex'
  BY <1>1, <1>2, <1>3, <1>4, <1>5 DEF TokenMutex, Busy, TokenUsers, Unlocked
<1>8. AuthOrder'
  BY <1>1, <1>2, <1>3, <1>4, <1>5 DEF AuthOrder, Busy
<1>9. taExcuse' = {} => CleanLogin'
  BY <1>1, <1>2, <1>3, <1>4, <1>5 DEF CleanLogin, NobodySaves, Busy
<1>10. taExcuse' = {} => CleanLogout'
  BY <1>1, <1>2, <1>3, <1>4, <1>5 DEF CleanLogout, CleanLogin
<1> QED
  BY <1>6, <1>7, <1>8, <1>9, <1>10

LEMMA LogoutBeginsInv ==
    ASSUME AuthInv, LogoutBegins
    PROVE  AuthInv'
<1> USE DEF AuthInv, LogoutBegins, UserAt, taManager, NoToken
<1>1. AuthShape'
  BY DEF AuthShape
<1>2. TokenMutex'
  BY DEF TokenMutex, Busy, TokenUsers, Unlocked
<1>3. AuthOrder'
  BY DEF AuthOrder, Busy
<1>4. taExcuse' = {} => CleanLogin'
  BY DEF CleanLogin, NobodySaves, InStore, AuthShape, Busy
<1>5. taExcuse' = {} => CleanLogout'
  BY DEF CleanLogout, CleanLogin
<1> QED
  BY <1>1, <1>2, <1>3, <1>4, <1>5

LEMMA RevokeReadsInv ==
    ASSUME AuthInv, RevokeReads
    PROVE  AuthInv'
<1> USE DEF AuthInv, RevokeReads, taLife, taManager, NoToken
<1>1. AuthShape'
  BY DEF AuthShape
<1>2. TokenMutex'
  BY DEF TokenMutex, Busy, TokenUsers, Unlocked
<1>3. AuthOrder'
  BY DEF AuthOrder, Busy
<1>4. taExcuse' = {} => CleanLogin'
  BY DEF CleanLogin, NobodySaves, InStore, AuthShape, Busy
<1>5. taExcuse' = {} => CleanLogout'
  BY DEF CleanLogout, AuthOrder
<1> QED
  BY <1>1, <1>2, <1>3, <1>4, <1>5

LEMMA RevokeAnsweredInv ==
    ASSUME AuthInv, RevokeAnswered
    PROVE  AuthInv'
<1> USE DEF AuthInv, RevokeAnswered, taLife, NoToken
<1>1. AuthShape'
  BY DEF AuthShape, AuthOrder
<1>2. TokenMutex'
  BY DEF TokenMutex, Busy, TokenUsers, Unlocked
<1>3. AuthOrder'
  BY DEF AuthOrder, Busy
<1>4. taExcuse' = {} => CleanLogin'
  BY DEF CleanLogin, NobodySaves, InStore, AuthShape, Busy
<1>5. taExcuse' = {} => CleanLogout'
  BY DEF CleanLogout, CleanLogin
<1> QED
  BY <1>1, <1>2, <1>3, <1>4, <1>5

LEMMA RevokeFailsInv ==
    ASSUME AuthInv, RevokeFails
    PROVE  AuthInv'
<1> USE DEF AuthInv, RevokeFails, taLife, taManager, NoToken
<1>1. AuthShape'
  BY DEF AuthShape
<1>2. TokenMutex'
  BY DEF TokenMutex, Busy, TokenUsers, Unlocked
<1>3. AuthOrder'
  BY DEF AuthOrder, Busy
<1>4. taExcuse' = {} => CleanLogin'
  BY DEF CleanLogin, NobodySaves, InStore, AuthShape, Busy
<1>5. taExcuse' = {} => CleanLogout'
  BY DEF CleanLogout, CleanLogin
<1> QED
  BY <1>1, <1>2, <1>3, <1>4, <1>5

LEMMA RevokeClearsInv ==
    ASSUME AuthInv, RevokeClears
    PROVE  AuthInv'
<1> USE DEF AuthInv, RevokeClears, taLife, taManager, Blank, NoToken
<1>1. AuthShape'
  BY DEF AuthShape
<1>2. TokenMutex'
  BY DEF TokenMutex, Busy, TokenUsers, Unlocked
<1>3. AuthOrder'
  BY DEF AuthOrder, TokenMutex, Busy, TokenUsers, Unlocked
<1>4. taExcuse' = {} => CleanLogin'
  BY DEF CleanLogin, CleanLogout, AuthOrder, NobodySaves, InStore
<1>5. taExcuse' = {} => CleanLogout'
  BY DEF CleanLogout, CleanLogin
<1> QED
  BY <1>1, <1>2, <1>3, <1>4, <1>5

LEMMA RevokeDeletesInv ==
    ASSUME AuthInv, NEW key \in {"access", "refresh"}, NEW ok \in BOOLEAN, RevokeDeletes(key, ok)
    PROVE  AuthInv'
<1> USE DEF AuthInv, RevokeDeletes, taLife, taManager, NoToken
<1>1. /\ taStore' \in [access : 0..taIssued, refresh : 0..taIssued]
      /\ taExcuse' = {} => taExcuse = {} /\ taStore'[key] = NoToken
      /\ key = "refresh" => taStore'.access = taStore.access
  BY DEF StoreWrite, Deleted, AuthShape
<1>2. taExcuse = {} => \A u \in TokenUsers : taUser[u] = "idle"
  BY DEF AuthOrder, CleanLogin
<1>3. taExcuse' = {} => taMem = Blank /\ (key = "refresh" => taStore' = Blank)
  BY <1>1 DEF CleanLogout, Blank
<1>4. AuthShape'
  BY <1>1, <1>2, <1>3 DEF AuthShape
<1>5. TokenMutex'
  BY <1>1, <1>2, <1>3 DEF TokenMutex, Busy, TokenUsers, Unlocked
<1>6. AuthOrder'
  BY <1>1, <1>2, <1>3 DEF AuthOrder, Busy
<1>7. taExcuse' = {} => CleanLogin'
  BY <1>1, <1>2, <1>3 DEF CleanLogin, NobodySaves, InStore, Blank
<1>8. taExcuse' = {} => CleanLogout'
  BY <1>1, <1>2, <1>3 DEF CleanLogout, CleanLogin
<1> QED
  BY <1>4, <1>5, <1>6, <1>7, <1>8

LEMMA CrashAndLoadInv ==
    ASSUME AuthInv, CrashAndLoad
    PROVE  AuthInv'
<1> USE DEF AuthInv, CrashAndLoad, taManager, NoToken
<1>1. taMem' \in [access : 0..taIssued, refresh : 0..taIssued] /\ (taMem'.access = NoToken => taMem' = Blank)
  BY DEF Loaded, Blank, AuthShape
<1>2. taExcuse' = {} => taExcuse = {} /\ taStore = taMem /\ taMem' = taMem
  BY DEF Loaded, AuthOrder
<1>3. taUser' \in [TokenUsers -> UserSteps]
  BY DEF UserSteps
<1>4. AuthShape'
  <2>1. taRunning' \in BOOLEAN /\ taStopErr' \in BOOLEAN
    OBVIOUS
  <2>2. taLoop' \in {"off", "on", "cancelled"} /\ taStop' \in {"idle", "revoke", "post", "clear", "access", "refresh"}
    OBVIOUS
  <2>3. taStarts' \in Nat /\ taCrashes' \in Nat /\ taIssued' \in Nat /\ taStopToken' \in 0..taIssued'
    BY DEF AuthShape
  <2> QED
    BY <1>1, <1>3, <2>1, <2>2, <2>3 DEF AuthShape
<1>5. TokenMutex'
  BY <1>1, <1>2, <1>3 DEF TokenMutex, Busy, TokenUsers, Unlocked
<1>6. AuthOrder'
  BY <1>1, <1>2, <1>3 DEF AuthOrder, Busy
<1>7. taExcuse' = {} => CleanLogin'
  BY <1>1, <1>2, <1>3 DEF CleanLogin, NobodySaves, InStore, AuthShape, Busy
<1>8. taExcuse' = {} => CleanLogout'
  BY <1>1, <1>2, <1>3 DEF CleanLogout, CleanLogin
<1> QED
  BY <1>4, <1>5, <1>6, <1>7, <1>8

LEMMA AuthNextInv == AuthInv /\ [AuthNext]_authVars => AuthInv'
<1> SUFFICES ASSUME AuthInv, [AuthNext]_authVars PROVE AuthInv'
  OBVIOUS
<1>1. ASSUME NEW u \in TokenUsers, EnsureCached(u) PROVE AuthInv'
  BY <1>1, CallerStepInv DEF EnsureCached, UserAt, UserSteps, Busy
<1>2. ASSUME NEW u \in TokenUsers, RefreshFails(u) PROVE AuthInv'
  <2>1. taUser[u] = "refreshing" /\ (taExcuse = {} => taRunning)
    BY <1>2, OneAsks DEF RefreshFails, UserAt, Busy
  <2> QED
    BY <1>2, <2>1, CallerStepInv DEF RefreshFails, UserSteps, Busy
<1>3. CASE ConnectorEnsures
  BY <1>3, CallerStepInv DEF ConnectorEnsures, UserAt, UserSteps, Busy, TokenUsers
<1>4. CASE RefresherTick
  <2>1. taExcuse' = {} => taExcuse = {} /\ taRunning
    BY <1>4 DEF RefresherTick, AuthInv, AuthShape, AuthOrder
  <2> QED
    BY <1>4, <2>1, CallerStepInv DEF RefresherTick, UserAt, UserSteps, Busy, TokenUsers
<1>5. CASE \E u \in TokenUsers : TokenStep(u)
  BY <1>1, <1>2, <1>5, EnsureAsksInv, ObtainFailsInv, TokenAnsweredInv, SaveAccessInv, SaveRefreshInv DEF TokenStep
<1>6. CASE RevokeStep
  BY <1>6, RevokeReadsInv, RevokeAnsweredInv, RevokeFailsInv, RevokeClearsInv, RevokeDeletesInv DEF RevokeStep
<1> USE DEF AuthInv, AuthShape, TokenMutex, AuthOrder, CleanLogin, CleanLogout, NobodySaves, InStore
<1>7. CASE Login
  BY <1>7 DEF Login, taRevoking, taManager
<1>8. CASE LoopEnds
  BY <1>8 DEF LoopEnds, taRevoking, taManager
<1>9. CASE \E k \in Tokens : Ages(k)
  BY <1>9 DEF Ages, taLife, taRevoking
<1>10. CASE UNCHANGED authVars
  BY <1>10 DEF authVars
<1> HIDE DEF AuthInv
<1> QED
  BY <1>3, <1>4, <1>5, <1>6, <1>7, <1>8, <1>9, <1>10, LogoutBeginsInv, CrashAndLoadInv DEF AuthNext

\* What the invariant says of the token and the store.
LEMMA AuthIsSound == AuthInv => AuthTypeOK /\ TokenEndsWithStop /\ StoreResumesLogin
<1> SUFFICES ASSUME AuthInv PROVE AuthTypeOK /\ TokenEndsWithStop /\ StoreResumesLogin
  OBVIOUS
<1>1. AuthTypeOK
  BY DEF AuthInv, AuthShape, TokenMutex, AuthOrder, AuthTypeOK, Busy
<1>2. taLock = Unlocked => NobodySaves
  BY DEF AuthInv, TokenMutex, NobodySaves, Busy, TokenUsers, Unlocked
<1>3. TokenEndsWithStop
  BY DEF AuthInv, CleanLogin, CleanLogout, NobodySaves, TokenEndsWithStop, Blank, NoToken
<1>4. StoreResumesLogin
  BY <1>2 DEF AuthInv, CleanLogin, InStore, StoreResumesLogin, NoToken
<1> QED
  BY <1>1, <1>3, <1>4

\* Memory changes in an answer, a revocation and a crash; an answer to a refresh keeps
\* the refresh token or brings a new one.
LEMMA RefreshTokenKeptStep ==
    ASSUME AuthInv, [AuthNext]_authVars, taMem.refresh # NoToken, taMem'.refresh = NoToken
    PROVE  \/ \E u \in TokenUsers : UserAt(u, "obtaining")
           \/ taStop = "clear" \/ taCrashes' # taCrashes
<1>1. ASSUME NEW u \in TokenUsers, NEW carries \in BOOLEAN, TokenAnswered(u, carries) PROVE UserAt(u, "obtaining")
  <2>1. CASE taUser[u] = "refreshing"
    <3>1. ~UserAt(u, "obtaining") /\ taIssued + 1 # NoToken
      BY <2>1 DEF UserAt, AuthInv, AuthShape, NoToken
    <3>2. taMem'.refresh = IF carries THEN taIssued + 1 ELSE taMem.refresh
      BY <1>1, <3>1 DEF TokenAnswered, Applied
    <3> QED
      BY <3>1, <3>2
  <2> QED
    BY <1>1, <2>1 DEF TokenAnswered, UserAt
<1>2. CASE RevokeClears
  BY <1>2 DEF RevokeClears
<1>3. CASE CrashAndLoad
  BY <1>3 DEF CrashAndLoad, AuthInv, AuthShape
<1>4. taMem' # taMem
  OBVIOUS
<1> QED
  BY <1>1, <1>2, <1>3, <1>4
  DEF AuthNext, authVars, TokenStep, EnsureCached, EnsureAsks, RefreshFails, ObtainFails, SaveAccess, SaveRefresh,
      RevokeStep, RevokeReads, RevokeAnswered, RevokeFails, RevokeDeletes, Login, LogoutBegins, ConnectorEnsures,
      RefresherTick, LoopEnds, Ages

-----------------------------------------------------------------------------
(* The tunnel.                                                             *)

TunnelSteps == {"idle", "establish", "ensure", "connect", "fetch", "apply", "gaugeUp", "disconnect", "gaugeDown",
                "probe", "check"}

TunnelShape ==
    /\ ttRotate \in BOOLEAN /\ ttConnected \in BOOLEAN
    /\ ttUser \in [TunnelUsers -> TunnelSteps]
    /\ ttStop \in {"idle", "disconnect", "revoke"}
    /\ ttLock \in TunnelUsers \cup {Free}
    /\ TunnelTypeOK

\* A connect under way is of a tunnel that is down, a rotate of one that is up.
MutexKeepsConnected == \A u \in TunnelUsers : ttUser[u] \in {"fetch", "apply"} => (ttConnected <=> Rotates(u))

\* An interface that nobody connected was left by a failed apply or by a crash.
IfaceIsExplained == "half" \notin ttExcuse => ttIface # "half" /\ (ttIface = "up" => ttConnected)

\* Unless a connect was overtaken, what a stopped module has under way is a rotate,
\* and a stop that has disconnected leaves nothing up.
StopIsClean ==
    ttExcuse \cap {"overtaken", "half"} = {} /\ ~ttRunning
      => /\ \A u \in TunnelUsers : UnderWay(u) => Rotates(u)
         /\ ttStop \in {"revoke", "idle"} /\ ~ttStopErr => ~ttConnected

\* A gauge about to be set to 1 is set so for a tunnel that is up, but for the race.
GaugeUpIsUp == "gauge" \notin ttExcuse /\ (\E u \in TunnelUsers : TunnelAt(u, "gaugeUp")) => ttConnected

TunnelInv ==
    /\ TunnelShape /\ MutexKeepsConnected /\ ConnectedIsApplied
    /\ IfaceIsExplained /\ StopIsClean /\ GaugeUpIsUp /\ GaugeLiesOnlyInRace

LEMMA TunnelInitInv == TunnelInit => TunnelInv
<1> SUFFICES ASSUME TunnelInit PROVE TunnelInv
  OBVIOUS
<1> USE DEF TunnelInit
<1>1. TunnelShape
  BY DEF TunnelShape, TunnelTypeOK, TunnelUsers, TunnelSteps, Free
<1>2. MutexKeepsConnected /\ ConnectedIsApplied /\ IfaceIsExplained
  BY DEF MutexKeepsConnected, ConnectedIsApplied, IfaceIsExplained
<1>3. StopIsClean
  BY DEF StopIsClean, UnderWay
<1>4. GaugeUpIsUp /\ GaugeLiesOnlyInRace
  BY DEF GaugeUpIsUp, GaugeLiesOnlyInRace, TunnelAt
<1> QED
  BY <1>1, <1>2, <1>3, <1>4 DEF TunnelInv

\* What a step of one task does to the steps the tasks are at.
LEMMA TunnelUserMoves ==
    ASSUME NEW u \in TunnelUsers, NEW q \in TunnelSteps, ttUser \in [TunnelUsers -> TunnelSteps],
           ttUser' = [ttUser EXCEPT ![u] = q]
    PROVE  /\ ttUser' \in [TunnelUsers -> TunnelSteps] /\ ttUser'[u] = q
           /\ \A v \in TunnelUsers : v # u => ttUser'[v] = ttUser[v]
OBVIOUS

\* The steps of a task that touch neither the mutex nor the device nor the gauge: all
\* they may not do is pass the running check, or skip the setting of the gauge.
LEMMA TaskStepInv ==
    ASSUME TunnelInv, NEW u \in TunnelUsers, NEW q \in TunnelSteps, TunnelTo(u, q),
           UNCHANGED <<ttLife, ttDevice, ttGauge, ttExcuse>>,
           ttUser[u] \in {"fetch", "apply"} <=> q \in {"fetch", "apply"},
           q \in {"ensure", "connect", "fetch", "apply", "gaugeUp"} => ttRunning \/ UnderWay(u),
           q # "gaugeUp", ttUser[u] # "gaugeDown"
    PROVE  TunnelInv'
<1> USE DEF TunnelInv, ttLife, ttDevice, Rotates, TunnelAt, UnderWay
<1>1. /\ ttUser' \in [TunnelUsers -> TunnelSteps] /\ ttUser'[u] = q
      /\ \A v \in TunnelUsers : v # u => ttUser'[v] = ttUser[v]
  BY TunnelUserMoves DEF TunnelTo, TunnelShape, TunnelUsers, TunnelSteps
<1>2. TunnelShape'
  BY <1>1 DEF TunnelShape, TunnelTypeOK
<1>3. MutexKeepsConnected'
  BY <1>1 DEF MutexKeepsConnected, TunnelShape, TunnelTypeOK
<1>4. ConnectedIsApplied'
  BY <1>1 DEF ConnectedIsApplied
<1>5. IfaceIsExplained'
  BY <1>1 DEF IfaceIsExplained, ConnectedIsApplied
<1>6. StopIsClean'
  BY <1>1 DEF StopIsClean, MutexKeepsConnected
<1>7. GaugeUpIsUp'
  BY <1>1 DEF GaugeUpIsUp
<1>8. GaugeLiesOnlyInRace'
  BY <1>1 DEF GaugeLiesOnlyInRace, GaugeUpIsUp
<1> QED
  BY <1>2, <1>3, <1>4, <1>5, <1>6, <1>7, <1>8

\* The mutex is free, so nobody else has a request under way.
LEMMA FetchConfigInv ==
    ASSUME TunnelInv, NEW u \in TunnelUsers, FetchConfig(u)
    PROVE  TunnelInv'
<1> USE DEF TunnelInv, FetchConfig, TakeLock, ttLife, ttSeen, Rotates, TunnelAt, UnderWay
<1>1. /\ ttUser' \in [TunnelUsers -> TunnelSteps] /\ ttUser'[u] = "fetch"
      /\ \A v \in TunnelUsers : v # u => ttUser'[v] = ttUser[v]
  BY TunnelUserMoves DEF TunnelTo, TunnelShape, TunnelUsers, TunnelSteps
<1>2. TunnelShape'
  BY <1>1 DEF TunnelShape, TunnelTypeOK, TunnelUsers, Free
<1>3. MutexKeepsConnected'
  BY <1>1 DEF MutexKeepsConnected, TunnelShape, TunnelTypeOK, TunnelUsers, Free
<1>4. ConnectedIsApplied'
  BY <1>1 DEF ConnectedIsApplied
<1>5. IfaceIsExplained'
  BY <1>1 DEF IfaceIsExplained, ConnectedIsApplied
<1>6. StopIsClean'
  BY <1>1 DEF StopIsClean, MutexKeepsConnected
<1>7. GaugeUpIsUp'
  BY <1>1 DEF GaugeUpIsUp
<1>8. GaugeLiesOnlyInRace'
  BY <1>1 DEF GaugeLiesOnlyInRace, GaugeUpIsUp
<1> QED
  BY <1>2, <1>3, <1>4, <1>5, <1>6, <1>7, <1>8

LEMMA FetchFailsInv ==
    ASSUME TunnelInv, NEW u \in TunnelUsers, FetchFails(u)
    PROVE  TunnelInv'
<1> USE DEF TunnelInv, FetchFails, ttLife, ttSeen, Rotates, TunnelAt, UnderWay
<1>1. /\ ttUser' \in [TunnelUsers -> TunnelSteps] /\ ttUser'[u] = "idle"
      /\ \A v \in TunnelUsers : v # u => ttUser'[v] = ttUser[v]
  BY TunnelUserMoves DEF TunnelTo, TunnelShape, TunnelUsers, TunnelSteps
<1>2. TunnelShape'
  BY <1>1 DEF TunnelShape, TunnelTypeOK, TunnelUsers, Free
<1>3. MutexKeepsConnected'
  BY <1>1 DEF MutexKeepsConnected, TunnelShape, TunnelTypeOK
<1>4. ConnectedIsApplied'
  BY <1>1 DEF ConnectedIsApplied
<1>5. IfaceIsExplained'
  BY <1>1 DEF IfaceIsExplained, ConnectedIsApplied
<1>6. StopIsClean'
  BY <1>1 DEF StopIsClean, MutexKeepsConnected
<1>7. GaugeUpIsUp'
  BY <1>1 DEF GaugeUpIsUp
<1>8. GaugeLiesOnlyInRace'
  BY <1>1 DEF GaugeLiesOnlyInRace, GaugeUpIsUp
<1> QED
  BY <1>2, <1>3, <1>4, <1>5, <1>6, <1>7, <1>8

\* The holder of the mutex ends its call: of a stopped module it can only be a rotate.
LEMMA ApplySucceedsInv ==
    ASSUME TunnelInv, NEW u \in TunnelUsers, ApplySucceeds(u)
    PROVE  TunnelInv'
<1> USE DEF TunnelInv, ApplySucceeds, ttLife, ttSeen, Rotates, TunnelAt, UnderWay
<1>1. /\ ttUser' \in [TunnelUsers -> TunnelSteps] /\ ttUser'[u] = (IF Rotates(u) THEN "idle" ELSE "gaugeUp")
      /\ \A v \in TunnelUsers : v # u => ttUser'[v] = ttUser[v]
  BY TunnelUserMoves DEF TunnelTo, TunnelShape, TunnelUsers, TunnelSteps
<1>2. TunnelShape'
  BY <1>1 DEF TunnelShape, TunnelTypeOK, TunnelUsers, Free
<1>3. MutexKeepsConnected'
  BY <1>1 DEF MutexKeepsConnected, TunnelShape, TunnelTypeOK, TunnelUsers, Free
<1>4. ConnectedIsApplied'
  BY <1>1 DEF ConnectedIsApplied
<1>5. IfaceIsExplained'
  BY <1>1 DEF IfaceIsExplained, ConnectedIsApplied
<1>6. StopIsClean'
  BY <1>1 DEF StopIsClean, MutexKeepsConnected
<1>7. GaugeUpIsUp'
  BY <1>1 DEF GaugeUpIsUp
<1>8. GaugeLiesOnlyInRace'
  BY <1>1 DEF GaugeLiesOnlyInRace, GaugeUpIsUp
<1> QED
  BY <1>2, <1>3, <1>4, <1>5, <1>6, <1>7, <1>8

LEMMA ApplyFailsInv ==
    ASSUME TunnelInv, NEW u \in TunnelUsers, NEW half \in BOOLEAN, ApplyFails(u, half)
    PROVE  TunnelInv'
<1> USE DEF TunnelInv, ApplyFails, ttLife, ttSeen, Rotates, TunnelAt, UnderWay
<1>1. /\ ttUser' \in [TunnelUsers -> TunnelSteps] /\ ttUser'[u] = "idle"
      /\ \A v \in TunnelUsers : v # u => ttUser'[v] = ttUser[v]
  BY TunnelUserMoves DEF TunnelTo, TunnelShape, TunnelUsers, TunnelSteps
<1>2. TunnelShape'
  BY <1>1 DEF TunnelShape, TunnelTypeOK, TunnelUsers, Free
<1>3. MutexKeepsConnected'
  BY <1>1 DEF MutexKeepsConnected, TunnelShape, TunnelTypeOK
<1>4. ConnectedIsApplied'
  BY <1>1 DEF ConnectedIsApplied
<1>5. IfaceIsExplained'
  BY <1>1 DEF IfaceIsExplained, ConnectedIsApplied
<1>6. StopIsClean'
  BY <1>1 DEF StopIsClean, MutexKeepsConnected
<1>7. GaugeUpIsUp'
  BY <1>1 DEF GaugeUpIsUp
<1>8. GaugeLiesOnlyInRace'
  BY <1>1 DEF GaugeLiesOnlyInRace, GaugeUpIsUp
<1> QED
  BY <1>2, <1>3, <1>4, <1>5, <1>6, <1>7, <1>8

\* The mutex is free: no connect or rotate is between its check and its end.
LEMMA DisconnectCommandInv ==
    ASSUME TunnelInv, NEW u \in TunnelUsers, NEW ok \in BOOLEAN, DisconnectCommand(u, ok)
    PROVE  TunnelInv'
<1> USE DEF TunnelInv, DisconnectCommand, Disconnect, TornDown, ttLife, ttSeen, Rotates, TunnelAt, UnderWay
<1>1. /\ ttUser' \in [TunnelUsers -> TunnelSteps] /\ ttUser'[u] = (IF ttConnected' THEN "idle" ELSE "gaugeDown")
      /\ \A v \in TunnelUsers : v # u => ttUser'[v] = ttUser[v]
  BY TunnelUserMoves DEF TunnelTo, TunnelShape, TunnelUsers, TunnelSteps
<1>2. TunnelShape'
  BY <1>1 DEF TunnelShape, TunnelTypeOK, TunnelUsers, Free
<1>3. MutexKeepsConnected'
  BY <1>1 DEF MutexKeepsConnected, TunnelShape, TunnelTypeOK, TunnelUsers, Free
<1>4. ConnectedIsApplied'
  BY <1>1 DEF ConnectedIsApplied
<1>5. IfaceIsExplained'
  BY <1>1 DEF IfaceIsExplained, ConnectedIsApplied
<1>6. StopIsClean'
  BY <1>1 DEF StopIsClean, MutexKeepsConnected
<1>7. GaugeUpIsUp'
  BY <1>1 DEF GaugeUpIsUp
<1>8. GaugeLiesOnlyInRace'
  BY <1>1 DEF GaugeLiesOnlyInRace, GaugeUpIsUp
<1> QED
  BY <1>2, <1>3, <1>4, <1>5, <1>6, <1>7, <1>8

LEMMA SetGaugeInv ==
    ASSUME TunnelInv, NEW u \in TunnelUsers, SetGauge(u)
    PROVE  TunnelInv'
<1> USE DEF TunnelInv, SetGauge, GaugeOf, ttLife, ttDevice, Rotates, TunnelAt, UnderWay
<1>1. /\ ttUser' \in [TunnelUsers -> TunnelSteps] /\ ttUser'[u] = "idle"
      /\ \A v \in TunnelUsers : v # u => ttUser'[v] = ttUser[v]
  BY TunnelUserMoves DEF TunnelTo, TunnelShape, TunnelUsers, TunnelSteps
<1>2. TunnelShape'
  BY <1>1 DEF TunnelShape, TunnelTypeOK
<1>3. MutexKeepsConnected'
  BY <1>1 DEF MutexKeepsConnected, TunnelShape, TunnelTypeOK
<1>4. ConnectedIsApplied'
  BY <1>1 DEF ConnectedIsApplied
<1>5. IfaceIsExplained'
  BY <1>1 DEF IfaceIsExplained, ConnectedIsApplied
<1>6. StopIsClean'
  BY <1>1 DEF StopIsClean, MutexKeepsConnected
<1>7. GaugeUpIsUp'
  BY <1>1 DEF GaugeUpIsUp
<1>8. GaugeLiesOnlyInRace'
  BY <1>1 DEF GaugeLiesOnlyInRace, GaugeUpIsUp
<1> QED
  BY <1>2, <1>3, <1>4, <1>5, <1>6, <1>7, <1>8

LEMMA ModuleStartInv ==
    ASSUME TunnelInv, NEW fine \in BOOLEAN, ModuleStart(fine)
    PROVE  TunnelInv'
<1> USE DEF TunnelInv, ModuleStart, ttDevice, Rotates, TunnelAt, UnderWay
<1>1. /\ ttUser' \in [TunnelUsers -> TunnelSteps] /\ ttUser'["worker"] = "establish"
      /\ \A v \in TunnelUsers : v # "worker" => ttUser'[v] = ttUser[v]
  BY TunnelUserMoves DEF TunnelTo, TunnelShape, TunnelUsers, TunnelSteps
<1>2. TunnelShape'
  BY <1>1 DEF TunnelShape, TunnelTypeOK, TunnelUsers
<1>3. MutexKeepsConnected'
  BY <1>1 DEF MutexKeepsConnected, TunnelUsers
<1>4. ConnectedIsApplied'
  BY <1>1 DEF ConnectedIsApplied
<1>5. IfaceIsExplained'
  BY <1>1 DEF IfaceIsExplained, ConnectedIsApplied
<1>6. StopIsClean'
  BY <1>1 DEF StopIsClean, MutexKeepsConnected
<1>7. GaugeUpIsUp'
  BY <1>1 DEF GaugeUpIsUp, TunnelUsers
<1>8. GaugeLiesOnlyInRace'
  BY <1>1 DEF GaugeLiesOnlyInRace, GaugeUpIsUp
<1> QED
  BY <1>2, <1>3, <1>4, <1>5, <1>6, <1>7, <1>8

LEMMA CommandInv ==
    ASSUME TunnelInv, NEW c \in {"connect", "rotate", "disconnect"}, Command(c)
    PROVE  TunnelInv'
<1> USE DEF TunnelInv, Command, ttDevice, ttSeen, Rotates, TunnelAt, UnderWay
<1>1. /\ ttUser' \in [TunnelUsers -> TunnelSteps] /\ ttUser'["worker"] = (CASE c = "connect" -> "establish" [] c = "rotate" -> "connect" [] OTHER -> c)
      /\ \A v \in TunnelUsers : v # "worker" => ttUser'[v] = ttUser[v]
  BY TunnelUserMoves DEF TunnelTo, TunnelShape, TunnelUsers, TunnelSteps
<1>2. TunnelShape'
  BY <1>1 DEF TunnelShape, TunnelTypeOK, TunnelUsers
<1>3. MutexKeepsConnected'
  BY <1>1 DEF MutexKeepsConnected, TunnelUsers
<1>4. ConnectedIsApplied'
  BY <1>1 DEF ConnectedIsApplied
<1>5. IfaceIsExplained'
  BY <1>1 DEF IfaceIsExplained, ConnectedIsApplied
<1>6. StopIsClean'
  BY <1>1 DEF StopIsClean, MutexKeepsConnected
<1>7. GaugeUpIsUp'
  BY <1>1 DEF GaugeUpIsUp, TunnelUsers
<1>8. GaugeLiesOnlyInRace'
  BY <1>1 DEF GaugeLiesOnlyInRace, TunnelUsers
<1> QED
  BY <1>2, <1>3, <1>4, <1>5, <1>6, <1>7, <1>8

LEMMA StopDisconnectsInv ==
    ASSUME TunnelInv, NEW ok \in BOOLEAN, StopDisconnects(ok)
    PROVE  TunnelInv'
<1> USE DEF TunnelInv, StopDisconnects, Disconnect, TornDown, ttSeen, Rotates, TunnelAt, UnderWay
<1>1. TunnelShape'
  BY DEF TunnelShape, TunnelTypeOK, TunnelUsers, Free
<1>2. MutexKeepsConnected'
  BY DEF MutexKeepsConnected, TunnelShape, TunnelTypeOK, TunnelUsers, Free
<1>3. ConnectedIsApplied'
  BY DEF ConnectedIsApplied
<1>4. IfaceIsExplained'
  BY DEF IfaceIsExplained, ConnectedIsApplied
<1>5. StopIsClean'
  BY DEF StopIsClean, MutexKeepsConnected
<1>6. GaugeUpIsUp'
  BY DEF GaugeUpIsUp
<1>7. GaugeLiesOnlyInRace'
  BY DEF GaugeLiesOnlyInRace, GaugeUpIsUp
<1> QED
  BY <1>1, <1>2, <1>3, <1>4, <1>5, <1>6, <1>7

LEMMA StopBeginsInv ==
    ASSUME TunnelInv, StopBegins
    PROVE  TunnelInv'
<1> USE DEF TunnelInv, StopBegins, ttDevice, ttSeen, Rotates, TunnelAt, UnderWay
<1>1. TunnelShape'
  BY DEF TunnelShape, TunnelTypeOK
<1>2. MutexKeepsConnected'
  BY DEF MutexKeepsConnected, TunnelShape, TunnelTypeOK
<1>3. ConnectedIsApplied'
  BY DEF ConnectedIsApplied
<1>4. IfaceIsExplained'
  BY DEF IfaceIsExplained, ConnectedIsApplied
<1>5. StopIsClean'
  BY DEF StopIsClean, MutexKeepsConnected
<1>6. GaugeUpIsUp'
  BY DEF GaugeUpIsUp
<1>7. GaugeLiesOnlyInRace'
  BY DEF GaugeLiesOnlyInRace, GaugeUpIsUp
<1> QED
  BY <1>1, <1>2, <1>3, <1>4, <1>5, <1>6, <1>7

LEMMA DieAndBootInv ==
    ASSUME TunnelInv, DieAndBoot
    PROVE  TunnelInv'
<1> USE DEF TunnelInv, DieAndBoot, Rotates, TunnelAt, UnderWay
<1>1. TunnelShape'
  BY DEF TunnelShape, TunnelTypeOK, TunnelUsers, TunnelSteps, Free
<1>2. MutexKeepsConnected'
  BY DEF MutexKeepsConnected, TunnelShape, TunnelTypeOK
<1>3. ConnectedIsApplied'
  BY DEF ConnectedIsApplied
<1>4. IfaceIsExplained'
  BY DEF IfaceIsExplained, ConnectedIsApplied
<1>5. StopIsClean'
  BY DEF StopIsClean, MutexKeepsConnected
<1>6. GaugeUpIsUp'
  BY DEF GaugeUpIsUp
<1>7. GaugeLiesOnlyInRace'
  BY DEF GaugeLiesOnlyInRace, GaugeUpIsUp
<1> QED
  BY <1>1, <1>2, <1>3, <1>4, <1>5, <1>6, <1>7

LEMMA TunnelNextInv == TunnelInv /\ [TunnelNext]_tunnelVars => TunnelInv'
<1> SUFFICES ASSUME TunnelInv, [TunnelNext]_tunnelVars PROVE TunnelInv'
  OBVIOUS
<1>1. ASSUME NEW u \in TunnelUsers, TunnelStep(u) PROVE TunnelInv'
  <2>1. CASE Establish(u)
    <3> DEFINE q == IF MayEstablish THEN "ensure" ELSE "idle"
    <3>1. q \in TunnelSteps /\ q \notin {"fetch", "apply", "gaugeUp"} /\ (q = "ensure" => ttRunning) /\ q \in {"ensure", "idle"}
      BY DEF TunnelSteps, MayEstablish
    <3>2. TunnelTo(u, q) /\ UNCHANGED <<ttLife, ttDevice, ttGauge, ttExcuse>> /\ ttUser[u] = "establish"
      BY <2>1 DEF Establish, ttSeen, TunnelAt
    <3> QED
      BY <3>1, <3>2, TaskStepInv
  <2>2. CASE Refused(u)
    BY <2>2, TaskStepInv DEF Refused, ttSeen, TunnelAt, TunnelSteps
  <2>3. CASE FetchAnswered(u)
    BY <2>3, TaskStepInv DEF FetchAnswered, ttSeen, TunnelAt, TunnelSteps, UnderWay
  <2>4. ASSUME NEW b \in BOOLEAN, EnsureToken(u, b) PROVE TunnelInv'
    <3> DEFINE q == IF b THEN "connect" ELSE "idle"
    <3>1. q \in TunnelSteps /\ q \in {"connect", "idle"}
      BY DEF TunnelSteps
    <3>2. TunnelTo(u, q) /\ UNCHANGED <<ttLife, ttDevice, ttGauge, ttExcuse>> /\ ttUser[u] = "ensure"
      BY <2>4 DEF EnsureToken, ttSeen, TunnelAt
    <3>3. UnderWay(u)
      BY <3>2 DEF UnderWay
    <3> QED
      BY <3>1, <3>2, <3>3, TaskStepInv
  <2>5. CASE u = "monitor" /\ MonitorReconnects
    <3> DEFINE q == IF ttConnected THEN "idle" ELSE "establish"
    <3>1. q \in TunnelSteps /\ q \in {"idle", "establish"}
      BY DEF TunnelSteps
    <3>2. TunnelTo(u, q) /\ UNCHANGED <<ttLife, ttDevice, ttGauge, ttExcuse>> /\ ttUser[u] = "check"
      BY <2>5 DEF MonitorReconnects, ttSeen, TunnelAt
    <3> QED
      BY <3>1, <3>2, TaskStepInv
  <2>6. ASSUME NEW b \in BOOLEAN, u = "monitor" /\ MonitorProbes(b) PROVE TunnelInv'
    BY <2>6, TaskStepInv DEF MonitorProbes, TunnelAt, TunnelSteps
  <2> QED
    BY <1>1, <2>1, <2>2, <2>3, <2>4, <2>5, <2>6, FetchConfigInv, FetchFailsInv, ApplySucceedsInv, SetGaugeInv,
       ApplyFailsInv, DisconnectCommandInv
    DEF TunnelStep
<1>2. CASE MonitorTick
  BY <1>2, TaskStepInv DEF MonitorTick, ttSeen, TunnelAt, TunnelSteps, TunnelUsers
<1> USE DEF TunnelInv, TunnelShape, TunnelTypeOK, MutexKeepsConnected, ConnectedIsApplied, IfaceIsExplained, StopIsClean,
            GaugeUpIsUp, GaugeLiesOnlyInRace, Rotates, UnderWay, TunnelAt
<1>3. CASE StopReturns
  BY <1>3 DEF StopReturns, ttDevice
<1>4. CASE MonitorEnds
  BY <1>4 DEF MonitorEnds, ttDevice, ttSeen
<1>5. CASE DeviceCloses
  BY <1>5 DEF DeviceCloses, ttLife, ttSeen
<1>6. CASE UNCHANGED tunnelVars
  BY <1>6 DEF tunnelVars
<1> HIDE DEF TunnelInv
<1> QED
  BY <1>1, <1>2, <1>3, <1>4, <1>5, <1>6, StopBeginsInv, StopDisconnectsInv, DieAndBootInv, ModuleStartInv, CommandInv
  DEF TunnelNext, StopStep

\* What the invariant says of the tunnel.
LEMMA TunnelIsSound == TunnelInv => TunnelTypeOK /\ TunnelEndsWithStop /\ ConnectedIsApplied /\ GaugeLiesOnlyInRace
BY DEF TunnelInv, TunnelShape, TunnelTypeOK, StopIsClean, IfaceIsExplained, TunnelEndsWithStop

-----------------------------------------------------------------------------
(* The denylist.                                                           *)

Writing == {"save", "publish"}

DenylistShape ==
    /\ dlServer \in Nat /\ dlMem \in 0..dlServer /\ dlDisk \in 0..dlServer /\ dlBoots \in Nat
    /\ dlTask \in {"off", "alive", "cancelled"}
    /\ dlSync \in [Syncers -> [at : {"idle", "fetch"} \cup Writing, version : 0..dlServer]]
    /\ dlHook.at \in {"idle", "asked", "done"} /\ dlHook.exit \in 0..2

\* A stop that has returned has waited for the task, and a task that has ended is
\* not in a sync.
TaskIsWaitedFor ==
    /\ ~dlRunning /\ ~dlStop => dlTask = "off"
    /\ dlTask = "off" => SyncAt("task", "idle")

\* Unless two syncs have overlapped one writes at a time, and what it is about to
\* publish is not older than what is in use.
OneWriter ==
    "overlap" \notin dlExcuse =>
      /\ \A s, r \in Syncers : dlSync[s].at \in Writing /\ dlSync[r].at \in Writing => s = r
      /\ \A s \in Syncers : dlSync[s].at \in Writing => dlMem <= dlSync[s].version

\* With no save failed either, the disk has the list in use, or the one about to be
\* published.
DiskFollows ==
    dlExcuse = {} =>
      /\ \A s \in Syncers : SyncAt(s, "publish") => dlDisk = dlSync[s].version
      /\ (\A s \in Syncers : ~SyncAt(s, "publish")) => dlDisk = dlMem

DenylistInv == DenylistShape /\ TaskIsWaitedFor /\ OneWriter /\ DiskFollows /\ GoesOnOnlyIfAllowed

SyncRecords(v) == [at : {"idle", "fetch"} \cup Writing, version : 0..v]

LEMMA NoHookFields == NoHook.at = "idle" /\ NoHook.exit = 0 /\ AskedHook.at = "asked" /\ AskedHook.exit = 0
BY Zenon DEF NoHook, AskedHook

LEMMA DenylistInitInv == DenylistInit => DenylistInv
<1> SUFFICES ASSUME DenylistInit PROVE DenylistInv
  OBVIOUS
<1> USE NoHookFields DEF DenylistInit, AtRest
<1>1. DenylistShape
  <2>1. dlSync \in [Syncers -> [at : {"idle", "fetch"} \cup Writing, version : 0..dlServer]]
    BY DEF Writing
  <2> QED
    BY <2>1 DEF DenylistShape
<1>2. TaskIsWaitedFor /\ GoesOnOnlyIfAllowed
  BY DEF TaskIsWaitedFor, GoesOnOnlyIfAllowed, Syncers, SyncAt
<1>3. OneWriter /\ DiskFollows
  BY DEF OneWriter, DiskFollows, Writing, SyncAt
<1> QED
  BY <1>1, <1>2, <1>3 DEF DenylistInv

\* What a step of one syncer does to its record, and that it leaves the other alone.
LEMMA SyncMoves ==
    ASSUME DenylistShape, NEW s \in Syncers, NEW p \in {"idle", "fetch"} \cup Writing, NEW v \in 0..dlServer,
           dlSync' = [dlSync EXCEPT ![s] = [at |-> p, version |-> v]]
    PROVE  /\ dlSync' \in [Syncers -> SyncRecords(dlServer)]
           /\ dlSync'[s].at = p /\ dlSync'[s].version = v
           /\ \A r \in Syncers : r # s => dlSync'[r] = dlSync[r]
BY DEF DenylistShape, SyncRecords

\* A change of the step keeps the version.
LEMMA SyncStepMoves ==
    ASSUME DenylistShape, NEW s \in Syncers, NEW p \in {"idle", "fetch"} \cup Writing,
           dlSync' = [dlSync EXCEPT ![s].at = p]
    PROVE  /\ dlSync' \in [Syncers -> SyncRecords(dlServer)]
           /\ dlSync'[s].at = p /\ dlSync'[s].version = dlSync[s].version
           /\ \A r \in Syncers : r # s => dlSync'[r] = dlSync[r]
<1>1. dlSync[s] \in SyncRecords(dlServer)
  BY DEF DenylistShape, SyncRecords
<1>2. [dlSync[s] EXCEPT !.at = p] = [at |-> p, version |-> dlSync[s].version] /\ dlSync[s].version \in 0..dlServer
  BY <1>1 DEF SyncRecords
<1>3. dlSync' = [dlSync EXCEPT ![s] = [dlSync[s] EXCEPT !.at = p]]
  BY DEF DenylistShape
<1>4. dlSync' = [dlSync EXCEPT ![s] = [at |-> p, version |-> dlSync[s].version]]
  BY <1>2, <1>3
<1>5. dlSync[s].version \in 0..dlServer
  BY <1>2
<1> QED
  BY <1>4, <1>5, SyncMoves

\* A sync that begins, the task's first or a later one.
LEMMA SyncBeginsInv ==
    ASSUME DenylistInv, NEW s \in Syncers, SyncBegins(s), s = "task" => dlTask # "off"
    PROVE  DenylistInv'
<1>1. /\ dlSync' \in [Syncers -> SyncRecords(dlServer)]
      /\ dlSync'[s].at = "fetch" /\ dlSync'[s].version = dlSync[s].version
      /\ \A r \in Syncers : r # s => dlSync'[r] = dlSync[r]
  BY SyncStepMoves DEF DenylistInv, SyncBegins
<1> USE <1>1 DEF DenylistInv, SyncBegins, dlLife, SyncAt
<1>2. DenylistShape'
  BY DEF DenylistShape, SyncRecords
<1>3. TaskIsWaitedFor' /\ GoesOnOnlyIfAllowed'
  BY DEF TaskIsWaitedFor, GoesOnOnlyIfAllowed, Syncers
<1>4. OneWriter'
  BY DEF OneWriter, Writing
<1>5. DiskFollows'
  BY DEF DiskFollows
<1> QED
  BY <1>2, <1>3, <1>4, <1>5

LEMMA DenylistStartInv == ASSUME DenylistInv, DenylistStart PROVE DenylistInv'
<1>1. "task" \in Syncers
  BY DEF Syncers
<1>2. /\ dlSync' \in [Syncers -> SyncRecords(dlServer)]
      /\ dlSync'["task"].at = "fetch" /\ dlSync'["task"].version = dlSync["task"].version
      /\ \A r \in Syncers : r # "task" => dlSync'[r] = dlSync[r]
  BY <1>1, SyncStepMoves DEF DenylistInv, DenylistStart
<1> USE <1>1, <1>2 DEF DenylistInv, DenylistStart, SyncAt
<1>3. DenylistShape'
  BY DEF DenylistShape, SyncRecords
<1>4. TaskIsWaitedFor' /\ GoesOnOnlyIfAllowed'
  BY DEF TaskIsWaitedFor, GoesOnOnlyIfAllowed
<1>5. OneWriter'
  BY DEF OneWriter, Writing
<1>6. DiskFollows'
  BY DEF DiskFollows, TaskIsWaitedFor
<1> QED
  BY <1>3, <1>4, <1>5, <1>6

LEMMA SyncFailsInv == ASSUME DenylistInv, NEW s \in Syncers, SyncFails(s) PROVE DenylistInv'
<1>1. DenylistShape /\ 0 \in 0..dlServer
  BY DEF DenylistInv, DenylistShape
<1>2. /\ dlSync' \in [Syncers -> SyncRecords(dlServer)]
      /\ dlSync'[s].at = "idle"
      /\ \A r \in Syncers : r # s => dlSync'[r] = dlSync[r]
  BY <1>1, SyncMoves DEF SyncFails, AtRest
<1> USE <1>2 DEF DenylistInv, SyncFails, dlLife, SyncAt, Kept
<1>3. DenylistShape'
  BY DEF DenylistShape, SyncRecords
<1>4. TaskIsWaitedFor' /\ GoesOnOnlyIfAllowed'
  BY DEF TaskIsWaitedFor, GoesOnOnlyIfAllowed, Syncers
<1>5. OneWriter'
  BY DEF OneWriter, Writing
<1>6. DiskFollows'
  BY DEF DiskFollows
<1> QED
  BY <1>3, <1>4, <1>5, <1>6

\* The answer is as new as the server's list, so it is not older than the one in use.
LEMMA SyncAnsweredInv == ASSUME DenylistInv, NEW s \in Syncers, SyncAnswered(s) PROVE DenylistInv'
<1>1. DenylistShape /\ dlServer \in 0..dlServer
  BY DEF DenylistInv, DenylistShape
<1>2. /\ dlSync' \in [Syncers -> SyncRecords(dlServer)]
      /\ dlSync'[s].at = "save" /\ dlSync'[s].version = dlServer
      /\ \A r \in Syncers : r # s => dlSync'[r] = dlSync[r]
  BY <1>1, SyncMoves DEF SyncAnswered, Writing
<1> USE <1>2 DEF DenylistInv, SyncAnswered, dlLife, SyncAt
<1>3. DenylistShape'
  BY DEF DenylistShape, SyncRecords
<1>4. TaskIsWaitedFor' /\ GoesOnOnlyIfAllowed'
  BY DEF TaskIsWaitedFor, GoesOnOnlyIfAllowed, Syncers
<1>5. "overlap" \notin dlExcuse' => dlExcuse' = dlExcuse /\ \A r \in Syncers : r # s => dlSync[r].at \notin Writing
  BY DEF Writing
<1>6. dlMem <= dlServer
  BY DEF DenylistShape
<1>7. OneWriter'
  BY <1>5, <1>6 DEF OneWriter
<1>8. DiskFollows'
  BY <1>5 DEF DiskFollows, Writing
<1> QED
  BY <1>3, <1>4, <1>7, <1>8

LEMMA SyncSavesInv ==
    ASSUME DenylistInv, NEW s \in Syncers, NEW ok \in BOOLEAN, SyncSaves(s, ok)
    PROVE  DenylistInv'
<1>1. /\ dlSync' \in [Syncers -> SyncRecords(dlServer)]
      /\ dlSync'[s].at = "publish" /\ dlSync'[s].version = dlSync[s].version
      /\ \A r \in Syncers : r # s => dlSync'[r] = dlSync[r]
  BY SyncStepMoves DEF DenylistInv, SyncSaves, Writing
<1> USE <1>1 DEF DenylistInv, SyncSaves, dlLife, SyncAt
<1>2. dlSync[s].version \in 0..dlServer
  BY DEF DenylistShape
<1>3. DenylistShape'
  BY <1>2 DEF DenylistShape, SyncRecords
<1>4. TaskIsWaitedFor' /\ GoesOnOnlyIfAllowed'
  BY DEF TaskIsWaitedFor, GoesOnOnlyIfAllowed, Syncers
<1>5. OneWriter'
  BY DEF OneWriter, Writing
<1>6. dlExcuse' = {} => ok /\ dlExcuse = {}
  OBVIOUS
<1>7. DiskFollows'
  BY <1>6 DEF DiskFollows, OneWriter, Writing
<1> QED
  BY <1>3, <1>4, <1>5, <1>7

LEMMA SyncPublishesInv == ASSUME DenylistInv, NEW s \in Syncers, SyncPublishes(s) PROVE DenylistInv'
<1>1. DenylistShape /\ 0 \in 0..dlServer
  BY DEF DenylistInv, DenylistShape
<1>2. /\ dlSync' \in [Syncers -> SyncRecords(dlServer)]
      /\ dlSync'[s].at = "idle"
      /\ \A r \in Syncers : r # s => dlSync'[r] = dlSync[r]
  BY <1>1, SyncMoves DEF SyncPublishes, AtRest
<1> USE <1>2 DEF DenylistInv, SyncPublishes, dlLife, SyncAt, Published
<1>3. dlSync[s].version \in 0..dlServer
  BY DEF DenylistShape
<1>4. DenylistShape'
  BY <1>3 DEF DenylistShape, SyncRecords
<1>5. TaskIsWaitedFor' /\ GoesOnOnlyIfAllowed'
  BY DEF TaskIsWaitedFor, GoesOnOnlyIfAllowed, Syncers
<1>6. OneWriter'
  BY DEF OneWriter, Writing
<1>7. DiskFollows'
  BY DEF DiskFollows, OneWriter, Writing
<1> QED
  BY <1>4, <1>5, <1>6, <1>7

LEMMA DenylistReloadsInv == ASSUME DenylistInv, DenylistReloads PROVE DenylistInv'
<1> USE NoHookFields DEF DenylistInv, DenylistReloads, AtRest, SyncAt
<1>1. DenylistShape'
  <2>1. dlSync' \in [Syncers -> [at : {"idle", "fetch"} \cup Writing, version : 0..dlServer']]
    BY DEF DenylistShape, Writing
  <2>2. dlBoots' \in Nat
    BY DEF DenylistShape
  <2> QED
    BY <2>1, <2>2 DEF DenylistShape
<1>2. TaskIsWaitedFor' /\ GoesOnOnlyIfAllowed'
  BY DEF TaskIsWaitedFor, GoesOnOnlyIfAllowed, Syncers
<1>3. OneWriter' /\ DiskFollows'
  BY DEF OneWriter, DiskFollows, Writing
<1> QED
  BY <1>1, <1>2, <1>3

\* The other steps leave the syncers and the lists alone.
LEMMA ServerChangesListInv == ASSUME DenylistInv, ServerChangesList PROVE DenylistInv'
<1> USE DEF DenylistInv, ServerChangesList, dlLife
<1>1. 0..dlServer \subseteq 0..dlServer'
  BY DEF DenylistShape
<1>2. DenylistShape'
  BY <1>1 DEF DenylistShape
<1> QED
  BY <1>2 DEF TaskIsWaitedFor, OneWriter, DiskFollows, GoesOnOnlyIfAllowed, SyncAt

LEMMA HookAnsweredInv ==
    ASSUME DenylistInv, NEW said \in {"allow", "deny", "other", "nothing"}, HookAnswered(said)
    PROVE  DenylistInv'
<1>1. dlHook'.at = "done" /\ dlHook'.said = said /\ dlHook'.exit = ExitCode(Outcome(said, Lists(dlMem)))
  BY DEF HookAnswered
<1>2. dlHook'.exit \in 0..2 /\ (dlHook'.exit = 0 => said = "allow")
  BY <1>1 DEF ExitCode, Outcome
<1>3. DenylistShape'
  BY <1>1, <1>2 DEF DenylistInv, DenylistShape, HookAnswered, dlLife
<1> QED
  BY <1>1, <1>2, <1>3
  DEF DenylistInv, TaskIsWaitedFor, OneWriter, DiskFollows, GoesOnOnlyIfAllowed, SyncAt, HookAnswered, dlLife

LEMMA DenylistNextInv == DenylistInv /\ [DenylistNext]_denylistVars => DenylistInv'
<1> SUFFICES ASSUME DenylistInv, [DenylistNext]_denylistVars PROVE DenylistInv'
  OBVIOUS
<1>1. CASE (HookArrives \/ HookLeaves)
  <2>1. dlHook'.at \in {"idle", "asked"} /\ dlHook'.exit = 0
    BY <1>1, NoHookFields DEF HookArrives, HookLeaves
  <2>2. DenylistShape'
    BY <1>1, <2>1 DEF HookArrives, HookLeaves, dlLife, DenylistInv, DenylistShape
  <2>3. TaskIsWaitedFor' /\ OneWriter' /\ DiskFollows'
    BY <1>1 DEF HookArrives, HookLeaves, dlLife, DenylistInv, TaskIsWaitedFor, OneWriter, DiskFollows, SyncAt
  <2>4. GoesOnOnlyIfAllowed'
    BY <2>1 DEF GoesOnOnlyIfAllowed
  <2> QED
    BY <2>2, <2>3, <2>4 DEF DenylistInv
<1> USE DEF DenylistInv, DenylistShape, TaskIsWaitedFor, OneWriter, DiskFollows, GoesOnOnlyIfAllowed, SyncAt
<1>2. CASE DenylistStops
  BY <1>2 DEF DenylistStops, StopWaits
<1>3. CASE SyncTaskEnds
  BY <1>3 DEF SyncTaskEnds
<1>4. CASE UNCHANGED denylistVars
  BY <1>4 DEF denylistVars
<1>5. CASE TaskSyncs
  BY <1>5, SyncBeginsInv DEF TaskSyncs, Syncers
<1>6. CASE CommandSyncs
  BY <1>6, SyncBeginsInv DEF CommandSyncs, Syncers
<1>7. CASE \E s \in Syncers : SyncStep(s)
  BY <1>7, SyncFailsInv, SyncAnsweredInv, SyncPublishesInv, SyncSavesInv DEF SyncStep
<1> HIDE DEF DenylistInv
<1>8. CASE \E said \in {"allow", "deny", "other", "nothing"} : HookAnswered(said)
  BY <1>8, HookAnsweredInv
<1> QED
  BY <1>1, <1>2, <1>3, <1>4, <1>5, <1>6, <1>7, <1>8, DenylistStartInv, DenylistReloadsInv, ServerChangesListInv
  DEF DenylistNext

\* What the invariant says of the list and of the hook events.
LEMMA DenylistIsSound == DenylistInv => DenylistTypeOK /\ GoesOnOnlyIfAllowed /\ ReloadKeepsList /\ StoppedIsQuiet
BY DEF DenylistInv, DenylistShape, TaskIsWaitedFor, DiskFollows, DenylistTypeOK, ReloadKeepsList, StoppedIsQuiet, SyncAt

\* Only a publication or a restart changes the list in use, and what is published is
\* not older unless two syncs have overlapped.
LEMMA ListMovesForwardStep ==
    ASSUME DenylistInv, [DenylistNext]_denylistVars, dlMem' < dlMem
    PROVE  "overlap" \in dlExcuse \/ dlBoots' # dlBoots
<1>1. dlMem \in Nat
  BY DEF DenylistInv, DenylistShape
<1>2. ASSUME NEW s \in Syncers, SyncPublishes(s) PROVE "overlap" \in dlExcuse
  <2>1. dlSync[s].version \in Nat /\ dlSync[s].at = "publish" /\ dlMem' = dlSync[s].version
    BY <1>2 DEF DenylistInv, DenylistShape, SyncPublishes, Published, SyncAt
  <2> QED
    BY <1>1, <2>1 DEF DenylistInv, OneWriter, Writing
<1>3. CASE DenylistReloads
  BY <1>3 DEF DenylistReloads, DenylistInv, DenylistShape
<1>4. CASE dlMem' = dlMem
  BY <1>1, <1>4
<1> QED
  BY <1>2, <1>3, <1>4
  DEF DenylistNext, denylistVars, DenylistStart, DenylistStops, SyncTaskEnds, ServerChangesList, TaskSyncs, CommandSyncs,
      SyncBegins, SyncStep, SyncFails, SyncAnswered, SyncSaves, HookArrives, HookLeaves, HookAnswered, Kept

-----------------------------------------------------------------------------
(* The hook shim.                                                          *)

CleanFiles == [kind : {"absent", "json", "bad"}, edit : 0..MaxEdits, hooks : 0..1]
HandSteps == {"idle", "snapshot", "orig", "meta", "read", "write", "restore", "clearMeta", "clearOrig"}

HandRecords == [at : HandSteps, bytes : CleanFiles]

HookShape ==
    /\ hkEdits \in 0..MaxEdits
    /\ hkFile \in CleanFiles /\ hkOrig \in CleanFiles \cup {NoFile} /\ hkBefore \in CleanFiles
    /\ hkMeta \in {NoMeta, "existed", "absent"}
    /\ hkHand \in [Hands -> HandRecords]
    /\ \A h \in Hands : HandAt(h, "idle") => hkHand[h] = NoHand

\* Unless operations have overlapped there is one at a time.
OneHand == "overlap" \notin hkExcuse => \A g, h \in Hands : g = h \/ hkHand[g] = NoHand \/ hkHand[h] = NoHand

\* What is known of the backup at each step of the one operation under way.
BackupSteps ==
    "overlap" \notin hkExcuse =>
      /\ hkMeta = "existed" => hkOrig # NoFile
      /\ \A h \in Hands :
           /\ hkHand[h].at \in {"snapshot", "orig", "meta", "clearOrig"} => hkMeta = NoMeta
           /\ HandAt(h, "meta") /\ hkHand[h].bytes # Absent => hkOrig = hkHand[h].bytes

\* The backup is of the file as it was before our entry, which is in it or not yet.
BackupIsBefore ==
    /\ hkMeta # NoMeta /\ BackedUp.hooks = 0
    /\ hkFile.hooks = 1 => BackedUp = hkBefore

\* With nothing to excuse it, file and backup agree at every step.
CleanHooks ==
    /\ (\A h \in Hands : HandAt(h, "idle")) =>
         /\ ShimInstalled <=> hkFile.hooks = 1
         /\ ShimInstalled => BackupIsBefore
    /\ \A h \in Hands :
         /\ hkHand[h].at \in {"snapshot", "orig", "meta", "clearMeta", "clearOrig"} => hkFile.hooks = 0
         /\ hkHand[h].at \in {"orig", "meta"} => hkHand[h].bytes = hkFile
         /\ hkHand[h].at \in {"read", "write"} => BackupIsBefore /\ (hkFile.hooks = 0 => BackedUp = hkFile)
         /\ HandAt(h, "write") => hkHand[h].bytes.hooks = 1
         /\ HandAt(h, "restore") => hkHand[h].bytes = hkBefore /\ hkBefore.hooks = 0
         /\ hkHand[h].at \in {"restore", "clearMeta"} => hkMeta # NoMeta

HookInv == HookShape /\ OneHand /\ BackupSteps /\ (hkExcuse = {} => CleanHooks)

LEMMA FileFacts ==
    /\ Absent \in CleanFiles /\ Absent.hooks = 0
    /\ NoFile \notin CleanFiles
    /\ NoHand \in HandRecords /\ NoHand.at = "idle"
    /\ \A f \in CleanFiles : f.hooks \in {0, 1} /\ Merged(f) \in CleanFiles /\ Merged(f).hooks = 1
<1>1. Absent \in CleanFiles /\ Absent.hooks = 0
  BY HookAssumption DEF Absent, CleanFiles
<1>2. NoFile \notin CleanFiles
  BY DEF NoFile, CleanFiles
<1>3. NoHand \in HandRecords /\ NoHand.at = "idle"
  BY <1>1 DEF NoHand, HandRecords, HandSteps
<1>4. ASSUME NEW f \in CleanFiles PROVE f.hooks \in {0, 1} /\ Merged(f) \in CleanFiles /\ Merged(f).hooks = 1
  BY DEF CleanFiles, Merged
<1> QED
  BY <1>1, <1>2, <1>3, <1>4

LEMMA HookInitInv == HookInit => HookInv
<1> SUFFICES ASSUME HookInit PROVE HookInv
  OBVIOUS
<1> USE FileFacts DEF HookInit, HandAt
<1>1. hkFile \in CleanFiles /\ hkFile.hooks = 0
  BY HookAssumption DEF CleanFiles
<1>2. HookShape
  BY <1>1, HookAssumption DEF HookShape, NoMeta
<1>3. OneHand /\ BackupSteps
  BY DEF OneHand, BackupSteps, NoMeta
<1>4. CleanHooks
  BY <1>1 DEF CleanHooks, ShimInstalled
<1> QED
  BY <1>2, <1>3, <1>4 DEF HookInv

\* What a step of one operation does to its record, and that it leaves the others alone.
LEMMA HandMoves ==
    ASSUME HookShape, NEW h \in Hands, NEW k \in HandRecords, hkHand' = [hkHand EXCEPT ![h] = k]
    PROVE  /\ hkHand' \in [Hands -> HandRecords] /\ hkHand'[h] = k
           /\ \A g \in Hands : g # h => hkHand'[g] = hkHand[g]
BY DEF HookShape

LEMMA HandToMoves ==
    ASSUME HookShape, NEW h \in Hands, NEW p \in HandSteps, HandTo(h, p)
    PROVE  /\ hkHand' \in [Hands -> HandRecords]
           /\ hkHand'[h].at = p /\ hkHand'[h].bytes = hkHand[h].bytes
           /\ \A g \in Hands : g # h => hkHand'[g] = hkHand[g]
<1> DEFINE k == [at |-> p, bytes |-> hkHand[h].bytes]
<1>1. hkHand[h] \in HandRecords
  BY DEF HookShape
<1>2. [hkHand[h] EXCEPT !.at = p] = k /\ k \in HandRecords
  BY <1>1 DEF HandRecords
<1>3. hkHand' = [hkHand EXCEPT ![h] = [hkHand[h] EXCEPT !.at = p]]
  BY DEF HandTo, HookShape
<1>4. k.at = p /\ k.bytes = hkHand[h].bytes
  OBVIOUS
<1>5. hkHand' = [hkHand EXCEPT ![h] = k]
  BY <1>2, <1>3
<1> HIDE DEF k
<1> QED
  BY <1>2, <1>4, <1>5, HandMoves

LEMMA HandReadMoves ==
    ASSUME HookShape, NEW h \in Hands, NEW p \in HandSteps, NEW b \in CleanFiles, HandRead(h, p, b)
    PROVE  /\ hkHand' \in [Hands -> HandRecords]
           /\ hkHand'[h].at = p /\ hkHand'[h].bytes = b
           /\ \A g \in Hands : g # h => hkHand'[g] = hkHand[g]
<1> DEFINE k == [at |-> p, bytes |-> b]
<1>1. k.at = p /\ k.bytes = b /\ k \in HandRecords /\ hkHand' = [hkHand EXCEPT ![h] = k]
  BY DEF HandRead, HandRecords
<1> HIDE DEF k
<1> QED
  BY <1>1, HandMoves

LEMMA HandDoneMoves ==
    ASSUME HookShape, NEW h \in Hands, HandDone(h)
    PROVE  /\ hkHand' \in [Hands -> HandRecords] /\ hkHand'[h] = NoHand
           /\ \A g \in Hands : g # h => hkHand'[g] = hkHand[g]
BY FileFacts, HandMoves DEF HandDone

\* An operation under way is alone, unless there was an overlap.
LEMMA OneAtATime ==
    ASSUME HookInv, NEW h \in Hands, ~HandAt(h, "idle"), "overlap" \notin hkExcuse
    PROVE  \A g \in Hands : g # h => hkHand[g] = NoHand
BY FileFacts DEF HookInv, OneHand, HandAt

\* The history is forgotten only where there is neither backup nor entry nor anybody else.
LEMMA HooksInstallInv == ASSUME HookInv, NEW h \in Hands, HooksInstall(h) PROVE HookInv'
<1> USE FileFacts DEF HookInv, HooksInstall, InstallChecks, Noted, Alone, HandAt
<1>1. /\ hkHand' \in [Hands -> HandRecords] /\ hkHand'[h].at = (IF ShimInstalled THEN "read" ELSE "snapshot")
      /\ \A g \in Hands : g # h => hkHand'[g] = hkHand[g]
  BY HandToMoves DEF HandSteps
<1>2. "overlap" \notin hkExcuse' => \A g \in Hands : g # h => hkHand[g] = NoHand
  OBVIOUS
<1>3. hkExcuse' = {} => hkExcuse = {} \/ (~ShimInstalled /\ hkFile.hooks = 0)
  OBVIOUS
<1>4. HookShape'
  BY <1>1 DEF HookShape
<1>5. OneHand'
  BY <1>1, <1>2 DEF OneHand
<1>6. BackupSteps'
  BY <1>1, <1>2 DEF ShimInstalled, OneHand, BackupSteps, HookShape, NoMeta
<1>7. hkExcuse' = {} => CleanHooks'
  BY <1>1, <1>2, <1>3 DEF CleanHooks, BackupIsBefore, BackedUp, ShimInstalled, HookShape
<1> QED
  BY <1>4, <1>5, <1>6, <1>7

LEMMA SnapshotReadsInv == ASSUME HookInv, NEW h \in Hands, SnapshotReads(h) PROVE HookInv'
<1> USE FileFacts DEF HookInv, SnapshotReads, SnapshotOrder, HandAt
<1>1. /\ hkHand' \in [Hands -> HandRecords] /\ hkHand'[h].at = "orig" /\ hkHand'[h].bytes = hkFile
      /\ \A g \in Hands : g # h => hkHand'[g] = hkHand[g]
  BY HandReadMoves DEF HandSteps, HookShape
<1>2. "overlap" \notin hkExcuse => \A g \in Hands : g # h => hkHand[g] = NoHand
  BY OneAtATime
<1>3. HookShape'
  BY <1>1 DEF HookShape
<1>4. OneHand'
  BY <1>1, <1>2 DEF OneHand
<1>5. BackupSteps'
  BY <1>1, <1>2 DEF BackupSteps, HookShape, NoMeta
<1>6. hkExcuse' = {} => CleanHooks'
  BY <1>1, <1>2 DEF CleanHooks, BackupIsBefore, BackedUp, ShimInstalled, HookShape
<1> QED
  BY <1>3, <1>4, <1>5, <1>6

LEMMA SnapshotWritesOrigInv == ASSUME HookInv, NEW h \in Hands, SnapshotWritesOrig(h) PROVE HookInv'
<1> USE FileFacts DEF HookInv, SnapshotWritesOrig, SnapshotOrder, HandAt
<1>1. /\ hkHand' \in [Hands -> HandRecords] /\ hkHand'[h].at = "meta" /\ hkHand'[h].bytes = hkHand[h].bytes
      /\ \A g \in Hands : g # h => hkHand'[g] = hkHand[g]
  BY HandToMoves DEF HandSteps
<1>2. "overlap" \notin hkExcuse => \A g \in Hands : g # h => hkHand[g] = NoHand
  BY OneAtATime
<1>3. hkHand[h].bytes \in CleanFiles
  BY DEF HookShape, HandRecords
<1>4. HookShape'
  BY <1>1, <1>3 DEF HookShape
<1>5. OneHand'
  BY <1>1, <1>2 DEF OneHand
<1>6. BackupSteps'
  BY <1>1, <1>2, <1>3 DEF BackupSteps, HookShape, NoMeta
<1>7. hkExcuse' = {} => CleanHooks'
  BY <1>1, <1>2 DEF CleanHooks, BackupIsBefore, BackedUp, ShimInstalled, HookShape
<1> QED
  BY <1>4, <1>5, <1>6, <1>7

LEMMA SnapshotWritesMetaInv == ASSUME HookInv, NEW h \in Hands, SnapshotWritesMeta(h) PROVE HookInv'
<1> USE FileFacts DEF HookInv, SnapshotWritesMeta, SnapshotOrder, HandAt
<1>1. /\ hkHand' \in [Hands -> HandRecords] /\ hkHand'[h].at = "read" /\ hkHand'[h].bytes = hkHand[h].bytes
      /\ \A g \in Hands : g # h => hkHand'[g] = hkHand[g]
  BY HandToMoves DEF HandSteps
<1>2. "overlap" \notin hkExcuse => \A g \in Hands : g # h => hkHand[g] = NoHand
  BY OneAtATime
<1>3. hkHand[h].bytes \in CleanFiles
  BY DEF HookShape, HandRecords
<1>4. HookShape'
  BY <1>1 DEF NoMeta, HookShape
<1>5. OneHand'
  BY <1>1, <1>2 DEF OneHand
<1>6. BackupSteps'
  BY <1>1, <1>2, <1>3 DEF BackupSteps, HookShape, NoMeta
<1>7. hkExcuse' = {} => CleanHooks'
  BY <1>1, <1>2, <1>3 DEF CleanHooks, BackupIsBefore, BackedUp, BackupSteps, ShimInstalled, HookShape, NoMeta
<1> QED
  BY <1>4, <1>5, <1>6, <1>7

LEMMA ReadRefusedInv == ASSUME HookInv, NEW h \in Hands, ReadRefused(h) PROVE HookInv'
<1> USE FileFacts DEF HookInv, ReadRefused, HandAt
<1>1. /\ hkHand' \in [Hands -> HandRecords] /\ hkHand'[h] = NoHand
      /\ \A g \in Hands : g # h => hkHand'[g] = hkHand[g]
  BY HandDoneMoves
<1>2. HookShape'
  BY <1>1 DEF HookShape
<1>3. OneHand'
  BY <1>1 DEF OneHand
<1>4. BackupSteps'
  BY <1>1 DEF BackupSteps, HookShape, NoMeta
<1>5. hkExcuse' = {} => CleanHooks'
  BY <1>1
<1> QED
  BY <1>2, <1>3, <1>4, <1>5

LEMMA ReadMergesInv == ASSUME HookInv, NEW h \in Hands, ReadMerges(h) PROVE HookInv'
<1> USE FileFacts DEF HookInv, ReadMerges, HandAt
<1>1. /\ hkHand' \in [Hands -> HandRecords] /\ hkHand'[h].at = "write" /\ hkHand'[h].bytes = Merged(hkFile)
      /\ \A g \in Hands : g # h => hkHand'[g] = hkHand[g]
  BY HandReadMoves DEF HandSteps, HookShape
<1>2. "overlap" \notin hkExcuse => \A g \in Hands : g # h => hkHand[g] = NoHand
  BY OneAtATime
<1>3. hkFile \in CleanFiles
  BY DEF HookShape
<1>4. HookShape'
  BY <1>1 DEF HookShape
<1>5. OneHand'
  BY <1>1, <1>2 DEF OneHand
<1>6. BackupSteps'
  BY <1>1, <1>2 DEF BackupSteps, HookShape, NoMeta
<1>7. hkExcuse' = {} => CleanHooks'
  BY <1>1, <1>2, <1>3 DEF CleanHooks, BackupIsBefore, BackedUp, ShimInstalled, HookShape
<1> QED
  BY <1>4, <1>5, <1>6, <1>7

LEMMA WriteDocumentInv == ASSUME HookInv, NEW h \in Hands, WriteDocument(h) PROVE HookInv'
<1> USE FileFacts DEF HookInv, WriteDocument, HandAt
<1>1. /\ hkHand' \in [Hands -> HandRecords] /\ hkHand'[h] = NoHand
      /\ \A g \in Hands : g # h => hkHand'[g] = hkHand[g]
  BY HandDoneMoves
<1>2. "overlap" \notin hkExcuse => \A g \in Hands : g # h => hkHand[g] = NoHand
  BY OneAtATime
<1>3. hkHand[h].bytes \in CleanFiles
  BY DEF HookShape, HandRecords
<1>4. HookShape'
  BY <1>1, <1>3 DEF HookShape
<1>5. OneHand'
  BY <1>1, <1>2 DEF OneHand
<1>6. BackupSteps'
  BY <1>1, <1>2 DEF BackupSteps, HookShape, NoMeta
<1>7. hkExcuse' = {} => CleanHooks'
  BY <1>1, <1>2, <1>3 DEF CleanHooks, BackupIsBefore, BackedUp, ShimInstalled, HookShape
<1> QED
  BY <1>4, <1>5, <1>6, <1>7

LEMMA RestoreInv == ASSUME HookInv, NEW h \in Hands, Restore(h) PROVE HookInv'
<1> USE FileFacts DEF HookInv, Restore, HandAt
<1>1. /\ hkHand' \in [Hands -> HandRecords] /\ hkHand'[h].at = "clearMeta" /\ hkHand'[h].bytes = hkHand[h].bytes
      /\ \A g \in Hands : g # h => hkHand'[g] = hkHand[g]
  BY HandToMoves DEF HandSteps
<1>2. "overlap" \notin hkExcuse => \A g \in Hands : g # h => hkHand[g] = NoHand
  BY OneAtATime
<1>3. hkHand[h].bytes \in CleanFiles
  BY DEF HookShape, HandRecords
<1>4. HookShape'
  BY <1>1, <1>3 DEF HookShape
<1>5. OneHand'
  BY <1>1, <1>2 DEF OneHand
<1>6. BackupSteps'
  BY <1>1, <1>2 DEF BackupSteps, HookShape, NoMeta
<1>7. hkExcuse' = {} => CleanHooks'
  BY <1>1, <1>2, <1>3 DEF CleanHooks, BackupIsBefore, BackedUp, ShimInstalled, HookShape
<1> QED
  BY <1>4, <1>5, <1>6, <1>7

LEMMA ClearMetaInv == ASSUME HookInv, NEW h \in Hands, ClearMeta(h) PROVE HookInv'
<1> USE FileFacts DEF HookInv, ClearMeta, BackupCleared, HandAt
<1>1. /\ hkHand' \in [Hands -> HandRecords] /\ hkHand'[h].at = "clearOrig" /\ hkHand'[h].bytes = hkHand[h].bytes
      /\ \A g \in Hands : g # h => hkHand'[g] = hkHand[g]
  BY HandToMoves DEF HandSteps
<1>2. "overlap" \notin hkExcuse => \A g \in Hands : g # h => hkHand[g] = NoHand
  BY OneAtATime
<1>3. HookShape'
  BY <1>1 DEF HookShape
<1>4. OneHand'
  BY <1>1, <1>2 DEF OneHand
<1>5. BackupSteps'
  BY <1>1, <1>2 DEF BackupSteps, HookShape, NoMeta
<1>6. hkExcuse' = {} => CleanHooks'
  BY <1>1, <1>2 DEF CleanHooks, BackupIsBefore, BackedUp, ShimInstalled, HookShape
<1> QED
  BY <1>3, <1>4, <1>5, <1>6

LEMMA ClearOrigInv == ASSUME HookInv, NEW h \in Hands, ClearOrig(h) PROVE HookInv'
<1> USE FileFacts DEF HookInv, ClearOrig, HandAt
<1>1. /\ hkHand' \in [Hands -> HandRecords] /\ hkHand'[h] = NoHand
      /\ \A g \in Hands : g # h => hkHand'[g] = hkHand[g]
  BY HandDoneMoves
<1>2. "overlap" \notin hkExcuse => \A g \in Hands : g # h => hkHand[g] = NoHand
  BY OneAtATime
<1>3. HookShape'
  BY <1>1 DEF HookShape
<1>4. OneHand'
  BY <1>1, <1>2 DEF OneHand
<1>5. BackupSteps'
  BY <1>1, <1>2 DEF BackupSteps, HookShape, NoMeta
<1>6. hkExcuse' = {} => CleanHooks'
  BY <1>1, <1>2 DEF CleanHooks, BackupIsBefore, BackupSteps, BackedUp, ShimInstalled, HookShape
<1> QED
  BY <1>3, <1>4, <1>5, <1>6

LEMMA CutShortInv == ASSUME HookInv, NEW h \in Hands, CutShort(h) PROVE HookInv'
<1> USE FileFacts DEF HookInv, CutShort, HandAt
<1>1. /\ hkHand' \in [Hands -> HandRecords] /\ hkHand'[h] = NoHand
      /\ \A g \in Hands : g # h => hkHand'[g] = hkHand[g]
  BY HandDoneMoves
<1>2. HookShape'
  BY <1>1 DEF HookShape
<1>3. OneHand'
  BY <1>1 DEF OneHand
<1>4. BackupSteps'
  BY <1>1 DEF BackupSteps, HookShape, NoMeta
<1>5. hkExcuse' = {} => CleanHooks'
  BY <1>1
<1> QED
  BY <1>2, <1>3, <1>4, <1>5

LEMMA HooksUninstallInv == ASSUME HookInv, NEW h \in Hands, HooksUninstall(h) PROVE HookInv'
<1> USE FileFacts DEF HookInv, HooksUninstall, UninstallLoads, Noted, Alone, HandAt
<1>1. "overlap" \notin hkExcuse' => hkExcuse' = hkExcuse /\ \A g \in Hands : g # h => hkHand[g] = NoHand
  OBVIOUS
<1>2. CASE hkMeta = "existed" /\ hkOrig = NoFile
  BY <1>1, <1>2 DEF HookShape, OneHand, BackupSteps, CleanHooks, BackupIsBefore, BackedUp, ShimInstalled
<1>3. CASE ~(hkMeta = "existed" /\ hkOrig = NoFile)
  <2>1. BackedUp \in CleanFiles
    BY <1>3 DEF BackedUp, HookShape
  <2>2. /\ hkHand' \in [Hands -> HandRecords] /\ hkHand'[h].at = "restore" /\ hkHand'[h].bytes = BackedUp
        /\ \A g \in Hands : g # h => hkHand'[g] = hkHand[g]
    BY <1>3, <2>1, HandReadMoves DEF HandSteps
  <2>3. HookShape'
    BY <2>2 DEF HookShape
  <2>4. OneHand' /\ BackupSteps'
    BY <1>1, <2>2 DEF OneHand, BackupSteps
  <2>5. hkExcuse' = {} => CleanHooks'
    BY <1>1, <2>2 DEF CleanHooks, BackupIsBefore, BackedUp, ShimInstalled
  <2> QED
    BY <2>3, <2>4, <2>5
<1> QED
  BY <1>2, <1>3

LEMMA UserEditsInv == ASSUME HookInv, NEW kind \in {"absent", "json", "bad"}, UserEdits(kind) PROVE HookInv'
<1> USE FileFacts DEF HookInv, UserEdits
<1>1. hkFile' \in CleanFiles /\ hkEdits' \in 0..MaxEdits
  <2>1. hkFile.hooks \in 0..1 /\ hkEdits + 1 \in 0..MaxEdits
    BY HookAssumption DEF HookShape, CleanFiles
  <2>2. CASE kind = "absent"
    BY <2>1, <2>2
  <2>3. CASE kind # "absent"
    <3> DEFINE n == IF kind = "json" THEN hkFile.hooks ELSE 0
    <3>1. n \in 0..1
      BY <2>1
    <3> HIDE DEF n
    <3>2. [kind |-> kind, edit |-> hkEdits + 1, hooks |-> n] \in CleanFiles
      BY <2>1, <3>1 DEF CleanFiles
    <3> QED
      BY <2>1, <2>3, <3>2 DEF n
  <2> QED
    BY <2>2, <2>3
<1>2. HookShape'
  BY <1>1 DEF HookShape, HandAt
<1>3. OneHand' /\ BackupSteps'
  BY DEF OneHand, BackupSteps, HandAt
<1>4. hkExcuse' = {} => hkExcuse = {} /\ hkFile'.hooks = hkFile.hooks /\ \A h \in Hands : HandAt(h, "idle")
  OBVIOUS
<1>5. hkExcuse' = {} => CleanHooks'
  BY <1>4 DEF CleanHooks, BackupIsBefore, BackedUp, ShimInstalled, HandAt
<1> QED
  BY <1>2, <1>3, <1>5

LEMMA HookNextInv == HookInv /\ [HookNext]_hookVars => HookInv'
<1>1. HookInv /\ UNCHANGED hookVars => HookInv'
  BY DEF hookVars, HookInv, HookShape, OneHand, BackupSteps, CleanHooks, BackupIsBefore, BackedUp, ShimInstalled, HandAt
<1> QED
  BY <1>1, HooksInstallInv, SnapshotReadsInv, SnapshotWritesOrigInv, SnapshotWritesMetaInv, ReadRefusedInv, ReadMergesInv,
     WriteDocumentInv, HooksUninstallInv, RestoreInv, ClearMetaInv, ClearOrigInv, CutShortInv, UserEditsInv
  DEF HookNext, HandStep

\* What the invariant says of the file, the backup and the status.
LEMMA HooksAreSound == HookInv => HookTypeOK /\ ManifestHasBytes /\ StatusIsTrue
<1> SUFFICES ASSUME HookInv PROVE HookTypeOK /\ ManifestHasBytes /\ StatusIsTrue
  OBVIOUS
<1>1. CleanFiles \subseteq Files
  BY DEF CleanFiles, Files
<1>2. HookTypeOK
  BY <1>1 DEF HookInv, HookShape, HookTypeOK, CleanFiles
<1>3. ManifestHasBytes /\ StatusIsTrue
  BY DEF HookInv, BackupSteps, CleanHooks, ManifestHasBytes, StatusIsTrue
<1> QED
  BY <1>2, <1>3

\* Only the restore goes from restore to clearMeta, and it writes the bytes it has,
\* which are those from before the entry.
LEMMA RestoresExactlyStep ==
    ASSUME HookInv, [HookNext]_hookVars, NEW h \in Hands, HandAt(h, "restore"), hkHand'[h].at = "clearMeta", hkExcuse = {}
    PROVE  hkFile' = hkBefore
<1> USE FileFacts DEF HandAt
<1>1. HookShape /\ CleanHooks
  BY DEF HookInv
<1>2. ASSUME NEW g \in Hands, HandStep(g) PROVE Restore(g) /\ g = h
  <2>1. hkHand' # hkHand /\ hkHand'[h] # hkHand[h]
    BY DEF HandAt
  <2>2. g = h
    BY <1>1, <1>2, <2>1
    DEF HookShape, HandStep, HooksInstall, InstallChecks, SnapshotReads, SnapshotWritesOrig, SnapshotWritesMeta, ReadRefused,
        ReadMerges, WriteDocument, HooksUninstall, UninstallLoads, Restore, ClearMeta, ClearOrig, CutShort, HandTo, HandRead,
        HandDone
  <2>3. ~CutShort(h)
    BY <1>1, HandDoneMoves DEF CutShort
  <2> QED
    BY <1>2, <2>2, <2>3
    DEF HandStep, HooksInstall, SnapshotReads, SnapshotWritesOrig, SnapshotWritesMeta, ReadRefused, ReadMerges,
        WriteDocument, HooksUninstall, ClearMeta, ClearOrig
<1>3. hkHand' # hkHand
  OBVIOUS
<1>4. Restore(h)
  BY <1>2, <1>3 DEF HookNext, UserEdits, hookVars
<1> QED
  BY <1>1, <1>4 DEF Restore, CleanHooks

-----------------------------------------------------------------------------
(* The virtual key.                                                        *)

KeyOrNone == VirtualKeys \cup {NoKey}

KeyShape ==
    /\ {vkStored, vkClient, vkShown} \subseteq KeyOrNone
    /\ vkProbe \in KeyOrNone \cup {"none"} /\ vkAsking \in KeyOrNone \cup {"none"}
    /\ vkSetter \in [Setters -> [at : {"idle", "client", "show", "probe"}, key : KeyOrNone]]
    /\ \A s \in Setters : vkSetter[s].at # "idle" => vkSetter[s].key # NoKey

\* Before the first key nothing is under way.
NoKeyYet == vkStored = NoKey => AllRest /\ vkClient = NoKey /\ vkShown = NoKey

\* What a key set that nothing overlaps has done at each of its steps.
KeySteps ==
    vkExcuse \subseteq {"late probe"} =>
      /\ \A s, t \in Setters : vkSetter[s].at # "idle" /\ vkSetter[t].at # "idle" => s = t
      /\ AllRest => vkStored = vkClient /\ vkClient = vkShown
      /\ \A s \in Setters :
           /\ vkSetter[s].at # "idle" => vkStored = vkSetter[s].key
           /\ vkSetter[s].at \in {"show", "probe"} => vkClient = vkStored
           /\ vkSetter[s].at = "probe" => vkShown = vkStored

\* Until the client is swapped a probe, stored or under way, is about its key.
ProbeSteps ==
    vkExcuse = {} /\ (\A s \in Setters : vkSetter[s].at \in {"idle", "client"})
      => {vkProbe, vkAsking} \subseteq {"none", vkClient}

KeyInv == KeyShape /\ NoKeyYet /\ KeySteps /\ ProbeSteps

LEMMA KeyInitInv == KeyInit => KeyInv
BY DEF KeyInit, KeyInv, KeyShape, NoKeyYet, KeySteps, ProbeSteps, KeyOrNone, AllRest, NoSetter

\* What a step of one key set does to its record, and that it leaves the others alone.
LEMMA SetterMoves ==
    ASSUME KeyShape, NEW s \in Setters, NEW p \in {"idle", "client", "show", "probe"}, NEW k \in KeyOrNone,
           p # "idle" => k # NoKey, vkSetter' = [vkSetter EXCEPT ![s] = [at |-> p, key |-> k]]
    PROVE  /\ vkSetter' \in [Setters -> [at : {"idle", "client", "show", "probe"}, key : KeyOrNone]]
           /\ \A t \in Setters : vkSetter'[t].at # "idle" => vkSetter'[t].key # NoKey
           /\ vkSetter'[s].at = p /\ vkSetter'[s].key = k
           /\ \A t \in Setters : t # s => vkSetter'[t] = vkSetter[t]
BY DEF KeyShape

\* SetterTo keeps the key.
LEMMA SetterToMoves ==
    ASSUME KeyShape, NEW s \in Setters, NEW p, SetterTo(s, p)
    PROVE  vkSetter' = [vkSetter EXCEPT ![s] = [at |-> p, key |-> vkSetter[s].key]]
<1>1. vkSetter[s] \in [at : {"idle", "client", "show", "probe"}, key : KeyOrNone]
  BY DEF KeyShape
<1>2. [vkSetter[s] EXCEPT !.at = p] = [at |-> p, key |-> vkSetter[s].key]
  BY <1>1
<1>3. vkSetter' = [vkSetter EXCEPT ![s] = [vkSetter[s] EXCEPT !.at = p]]
  BY DEF KeyShape, SetterTo
<1> QED
  BY <1>2, <1>3

LEMMA KeyStoresInv == ASSUME KeyInv, NEW s \in Setters, NEW k \in VirtualKeys, KeyStores(s, k) PROVE KeyInv'
<1>1. k \in KeyOrNone /\ k # NoKey
  BY KeyAssumption DEF KeyOrNone
<1>2. /\ vkSetter' \in [Setters -> [at : {"idle", "client", "show", "probe"}, key : KeyOrNone]]
      /\ \A t \in Setters : vkSetter'[t].at # "idle" => vkSetter'[t].key # NoKey
      /\ vkSetter'[s].at = "client" /\ vkSetter'[s].key = k
      /\ \A t \in Setters : t # s => vkSetter'[t] = vkSetter[t]
  BY <1>1, SetterMoves DEF KeyStores, KeyInv
<1> USE <1>1, <1>2 DEF KeyInv, KeyStores, Stored, OthersRest
<1>3. KeyShape'
  BY DEF KeyShape
<1>4. NoKeyYet'
  BY DEF NoKeyYet
<1>5. vkExcuse' \subseteq {"late probe"} => OthersRest(s) /\ vkExcuse' = vkExcuse /\ AllRest
  BY DEF AllRest
<1>6. KeySteps'
  BY <1>5 DEF KeySteps, AllRest
<1>7. ProbeSteps'
  BY <1>5 DEF ProbeSteps, AllRest
<1> QED
  BY <1>3, <1>4, <1>6, <1>7

LEMMA ClientSwapsInv == ASSUME KeyInv, NEW s \in Setters, ClientSwaps(s) PROVE KeyInv'
<1>1. vkSetter[s].key \in KeyOrNone /\ vkSetter[s].key # NoKey /\ vkSetter[s].at = "client"
  BY DEF KeyInv, KeyShape, ClientSwaps
<1>2. vkSetter' = [vkSetter EXCEPT ![s] = [at |-> "show", key |-> vkSetter[s].key]]
  BY SetterToMoves DEF KeyInv, ClientSwaps
<1>3. /\ vkSetter' \in [Setters -> [at : {"idle", "client", "show", "probe"}, key : KeyOrNone]]
      /\ \A t \in Setters : vkSetter'[t].at # "idle" => vkSetter'[t].key # NoKey
      /\ vkSetter'[s].at = "show" /\ vkSetter'[s].key = vkSetter[s].key
      /\ \A t \in Setters : t # s => vkSetter'[t] = vkSetter[t]
  BY <1>1, <1>2, SetterMoves DEF KeyInv
<1> USE <1>1, <1>3 DEF KeyInv, ClientSwaps, Rebuilt
<1>4. KeyShape'
  BY DEF KeyShape
<1>5. NoKeyYet'
  BY DEF NoKeyYet, AllRest
<1>6. KeySteps'
  BY DEF KeySteps, AllRest
<1>7. ProbeSteps'
  BY DEF ProbeSteps
<1> QED
  BY <1>4, <1>5, <1>6, <1>7

LEMMA RebuildFailsInv == ASSUME KeyInv, NEW s \in Setters, RebuildFails(s) PROVE KeyInv'
<1>1. /\ vkSetter' \in [Setters -> [at : {"idle", "client", "show", "probe"}, key : KeyOrNone]]
      /\ \A t \in Setters : vkSetter'[t].at # "idle" => vkSetter'[t].key # NoKey
      /\ vkSetter'[s].at = "idle"
      /\ \A t \in Setters : t # s => vkSetter'[t] = vkSetter[t]
  BY SetterMoves DEF KeyInv, RebuildFails, NoSetter, KeyOrNone
<1> USE <1>1 DEF KeyInv, RebuildFails
<1>2. KeyShape'
  BY DEF KeyShape
<1>3. NoKeyYet'
  BY DEF NoKeyYet, AllRest
<1>4. KeySteps' /\ ProbeSteps'
  BY DEF KeySteps, ProbeSteps
<1> QED
  BY <1>2, <1>3, <1>4

LEMMA KeyShowsInv == ASSUME KeyInv, NEW s \in Setters, KeyShows(s) PROVE KeyInv'
<1>1. vkSetter[s].key \in KeyOrNone /\ vkSetter[s].key # NoKey /\ vkSetter[s].at = "show"
  BY DEF KeyInv, KeyShape, KeyShows
<1>2. vkSetter' = [vkSetter EXCEPT ![s] = [at |-> "probe", key |-> vkSetter[s].key]]
  BY SetterToMoves DEF KeyInv, KeyShows
<1>3. /\ vkSetter' \in [Setters -> [at : {"idle", "client", "show", "probe"}, key : KeyOrNone]]
      /\ \A t \in Setters : vkSetter'[t].at # "idle" => vkSetter'[t].key # NoKey
      /\ vkSetter'[s].at = "probe" /\ vkSetter'[s].key = vkSetter[s].key
      /\ \A t \in Setters : t # s => vkSetter'[t] = vkSetter[t]
  BY <1>1, <1>2, SetterMoves DEF KeyInv
<1> USE <1>1, <1>3 DEF KeyInv, KeyShows
<1>4. KeyShape'
  BY DEF KeyShape
<1>5. NoKeyYet'
  BY DEF NoKeyYet, AllRest
<1>6. KeySteps'
  BY DEF KeySteps, AllRest
<1>7. ProbeSteps'
  BY DEF ProbeSteps
<1> QED
  BY <1>4, <1>5, <1>6, <1>7

LEMMA ProbeForgetsInv == ASSUME KeyInv, NEW s \in Setters, ProbeForgets(s) PROVE KeyInv'
<1>1. /\ vkSetter' \in [Setters -> [at : {"idle", "client", "show", "probe"}, key : KeyOrNone]]
      /\ \A t \in Setters : vkSetter'[t].at # "idle" => vkSetter'[t].key # NoKey
      /\ vkSetter'[s].at = "idle"
      /\ \A t \in Setters : t # s => vkSetter'[t] = vkSetter[t]
  BY SetterMoves DEF KeyInv, ProbeForgets, NoSetter, KeyOrNone
<1> USE <1>1 DEF KeyInv, ProbeForgets, ProbeDropped
<1>2. KeyShape'
  BY DEF KeyShape
<1>3. NoKeyYet'
  BY DEF NoKeyYet, AllRest
<1>4. vkExcuse' \subseteq {"late probe"} => vkExcuse \subseteq {"late probe"}
  OBVIOUS
<1>5. KeySteps'
  BY <1>4 DEF KeySteps, AllRest
<1>6. vkExcuse' = {} => vkAsking' = "none" /\ vkProbe' = "none"
  OBVIOUS
<1>7. ProbeSteps'
  BY <1>6 DEF ProbeSteps
<1> QED
  BY <1>2, <1>3, <1>5, <1>7

LEMMA KeyNextInv == KeyInv /\ [KeyNext]_keyVars => KeyInv'
<1> SUFFICES ASSUME KeyInv, [KeyNext]_keyVars PROVE KeyInv'
  OBVIOUS
<1>1. CASE ProbeAsks
  BY <1>1 DEF ProbeAsks, KeyInv, KeyShape, NoKeyYet, KeySteps, ProbeSteps, AllRest
<1>2. CASE ProbeStores
  BY <1>2 DEF ProbeStores, KeyInv, KeyShape, NoKeyYet, KeySteps, ProbeSteps, AllRest
<1>3. CASE UNCHANGED keyVars
  BY <1>3 DEF keyVars, KeyInv, KeyShape, NoKeyYet, KeySteps, ProbeSteps, AllRest
<1> QED
  BY <1>1, <1>2, <1>3, KeyStoresInv, ClientSwapsInv, RebuildFailsInv, KeyShowsInv, ProbeForgetsInv DEF KeyNext

\* What the invariant says of the key that a reader is told.
LEMMA KeyIsSound == KeyInv => KeyTypeOK /\ OneKey /\ ProbeIsOfKey
BY DEF KeyInv, KeyShape, NoKeyYet, KeySteps, ProbeSteps, KeyTypeOK, OneKey, ProbeIsOfKey, AllRest, KeyOrNone

-----------------------------------------------------------------------------
(* The whole.                                                              *)

ModulesInv == AuthInv /\ TunnelInv /\ DenylistInv /\ HookInv /\ KeyInv

\* A step of the whole is for every part one of its own steps, or none.
LEMMA EachPartSteps ==
    ASSUME [MCNext]_MCVars
    PROVE  /\ [AuthNext]_authVars /\ [TunnelNext]_tunnelVars /\ [DenylistNext]_denylistVars
           /\ [HookNext]_hookVars /\ [KeyNext]_keyVars
BY DEF MCNext, MCVars, InPart

LEMMA ModulesInvHolds == MCSpec => []ModulesInv
<1>1. MCInit => ModulesInv
  BY AuthInitInv, TunnelInitInv, DenylistInitInv, HookInitInv, KeyInitInv DEF MCInit, ModulesInv
<1>2. ModulesInv /\ [MCNext]_MCVars => ModulesInv'
  BY EachPartSteps, AuthNextInv, TunnelNextInv, DenylistNextInv, HookNextInv, KeyNextInv DEF ModulesInv
<1> QED
  BY <1>1, <1>2, PTL DEF MCSpec

\* tobogganing: whatever the refresh loop, the connects, the commands, stop, crashes
\* and a failing store do to each other, a stop that reported no error and that nothing
\* had overtaken leaves no token and no tunnel, the store resumes the login that was in
\* memory, a connected tunnel is an applied one, tunnel_up is wrong only in its race,
\* and a refresh without a new refresh token keeps the old one.
THEOREM TobogganingSound == MCSpec => TobogganingIsSound
<1>1. ModulesInv => /\ AuthTypeOK /\ TokenEndsWithStop /\ StoreResumesLogin
                    /\ TunnelTypeOK /\ TunnelEndsWithStop /\ ConnectedIsApplied /\ GaugeLiesOnlyInRace
  BY AuthIsSound, TunnelIsSound DEF ModulesInv
<1>2. ModulesInv /\ [MCNext]_MCVars
        => [taMem.refresh # NoToken /\ taMem'.refresh = NoToken
              => \/ \E u \in TokenUsers : UserAt(u, "obtaining")
                 \/ taStop = "clear" \/ taCrashes' # taCrashes]_authVars
  BY EachPartSteps, RefreshTokenKeptStep DEF ModulesInv
<1> QED
  BY <1>1, <1>2, ModulesInvHolds, PTL DEF MCSpec, TobogganingIsSound, RefreshTokenKept

\* waddleai: a hook event goes on only if the server allowed it; the denylist survives a
\* restart and goes back only where two syncs overlapped; a stopped module syncs nothing;
\* a hooks manifest has its bytes after any crash, the status is true and an uninstall
\* restores the file of before; and stored key, client, hint and probe are of one key.
THEOREM WaddleAiSound == MCSpec => WaddleAiIsSound
<1>1. ModulesInv => /\ DenylistTypeOK /\ GoesOnOnlyIfAllowed /\ ReloadKeepsList /\ StoppedIsQuiet
                    /\ HookTypeOK /\ ManifestHasBytes /\ StatusIsTrue
                    /\ KeyTypeOK /\ OneKey /\ ProbeIsOfKey
  BY DenylistIsSound, HooksAreSound, KeyIsSound DEF ModulesInv
<1>2. ModulesInv /\ [MCNext]_MCVars
        => [dlMem' < dlMem => "overlap" \in dlExcuse \/ dlBoots' # dlBoots]_denylistVars
  BY EachPartSteps, ListMovesForwardStep DEF ModulesInv
<1>3. ModulesInv /\ [MCNext]_MCVars
        => [\A h \in Hands : HandAt(h, "restore") /\ hkHand'[h].at = "clearMeta" /\ hkExcuse = {}
              => hkFile' = hkBefore]_hookVars
  BY EachPartSteps, RestoresExactlyStep DEF ModulesInv
<1> QED
  BY <1>1, <1>2, <1>3, ModulesInvHolds, PTL DEF MCSpec, WaddleAiIsSound, ListMovesForward, RestoresExactly
=============================================================================
