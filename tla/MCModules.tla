----------------------------- MODULE MCModules -----------------------------
(***************************************************************************)
(* The tobogganing module's token and tunnel, and the waddleai module's    *)
(* denylist, hooks and virtual key.  They share no variable: a behaviour   *)
(* exercises one of them.                                                  *)
(***************************************************************************)
EXTENDS TobogganingAuth, TobogganingTunnel, WaddleAi, HookShim

VARIABLE part

\* A part that is not exercised stays in one of its initial states.
MCInit ==
    /\ part \in {"auth", "tunnel", "denylist", "hooks", "key"}
    /\ AuthInit /\ TunnelInit /\ DenylistInit /\ HookInit /\ KeyInit
    /\ part # "tunnel" => ~ttEmbedded
    /\ part # "hooks" => hkFile = Absent
    /\ part # "key" => vkStored = NoKey

\* A step of one part.
InPart(p, A) ==
    /\ part = p /\ A /\ UNCHANGED part
    /\ IF p = "auth" THEN TRUE ELSE UNCHANGED authVars
    /\ IF p = "tunnel" THEN TRUE ELSE UNCHANGED tunnelVars
    /\ IF p = "denylist" THEN TRUE ELSE UNCHANGED denylistVars
    /\ IF p = "hooks" THEN TRUE ELSE UNCHANGED hookVars
    /\ IF p = "key" THEN TRUE ELSE UNCHANGED keyVars

MCNext ==
    \/ InPart("auth", AuthNext)
    \/ InPart("tunnel", TunnelNext)
    \/ InPart("denylist", DenylistNext)
    \/ InPart("hooks", HookNext)
    \/ InPart("key", KeyNext)

MCVars == <<part, authVars, tunnelVars, denylistVars, hookVars, keyVars>>

\* The parts are never mixed, so the fairness of a step that is one of three is
\* the fairness of each.
OneOf(A, B, C) == InPart("auth", A) \/ InPart("tunnel", B) \/ InPart("denylist", C)

\* Fairness: a caller gets the mutex in its turn (tokio's is first come, first
\* served) and its request ends with HTTP_TIMEOUT; the timers tick; a cancelled
\* task sees it (select! picks among its ready arms at random).
MCFairness ==
    /\ SF_MCVars(OneOf(TokenStep("refresher"), TunnelStep("monitor"), SyncTaskEnds))
    /\ SF_MCVars(OneOf(TokenStep("connector"), TunnelStep("worker"), SyncStep("task")))
    /\ SF_MCVars(OneOf(RevokeStep, StopStep, FALSE))
    /\ WF_MCVars(InPart("tunnel", MonitorTick))

MCSpec == MCInit /\ [][MCNext]_MCVars /\ MCFairness

\* stop returns: whoever has the mutex of the token or of the tunnel when it is
\* called lets go of it, and the denylist task it waits for ends.
StopEnds ==
    (taStop # "idle" \/ ttStop # "idle" \/ dlStop) ~> (taStop = "idle" /\ ttStop = "idle" /\ ~dlStop)

-----------------------------------------------------------------------------
\* tobogganing: after stop there is neither token nor tunnel, the store resumes the
\* login, what is called connected was applied, the gauge is wrong only in its race,
\* and a refresh token is never lost to an answer without one.
TobogganingIsSound ==
    /\ [](/\ AuthTypeOK /\ TokenEndsWithStop /\ StoreResumesLogin
          /\ TunnelTypeOK /\ TunnelEndsWithStop /\ ConnectedIsApplied /\ GaugeLiesOnlyInRace)
    /\ RefreshTokenKept

\* waddleai: a hook event goes on only if it is allowed, the list survives a restart
\* and never goes back, a stopped module is quiet; a backup has the bytes that its
\* manifest names, the status is true and an uninstall restores them; and key, client
\* and probe are of one key.
WaddleAiIsSound ==
    /\ [](/\ DenylistTypeOK /\ GoesOnOnlyIfAllowed /\ ReloadKeepsList /\ StoppedIsQuiet
          /\ HookTypeOK /\ ManifestHasBytes /\ StatusIsTrue
          /\ KeyTypeOK /\ OneKey /\ ProbeIsOfKey)
    /\ ListMovesForward /\ RestoresExactly
=============================================================================
