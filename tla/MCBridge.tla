------------------------------ MODULE MCBridge ------------------------------
(***************************************************************************)
(* The waddlebot module.  Its five parts share no variable, so a behaviour *)
(* exercises one of them, which explores each in full and not their        *)
(* product.                                                                *)
(***************************************************************************)
EXTENDS SessionProxy, ObsAdapter, Bridge, HubCommands, TLC

CONSTANTS scene, record, barred

VARIABLE part

MCCommand ==
    (scene :> "SetCurrentProgramScene") @@ (record :> "StartRecord") @@ (barred :> "SetCurrentProgramScene")
MCScene == (scene :> "live") @@ (record :> NoScene) @@ (barred :> "private")

MCInit ==
    /\ part \in {"proxy", "obs", "bridge", "commands", "probe"}
    /\ ProxyInit /\ ObsInit /\ BridgeInit /\ CommandInit /\ ProbeInit
    /\ part # "commands" => hcClient = CHOOSE c \in Communities : TRUE
    /\ part # "probe" => apHub = "ok"

MCNext ==
    /\ \/ part = "proxy" /\ ProxyNext /\ UNCHANGED <<obsVars, bridgeVars, commandVars, probeVars>>
       \/ part = "obs" /\ ObsNext /\ UNCHANGED <<proxyVars, bridgeVars, commandVars, probeVars>>
       \/ part = "bridge" /\ BridgeNext /\ UNCHANGED <<proxyVars, obsVars, commandVars, probeVars>>
       \/ part = "commands" /\ CommandNext /\ UNCHANGED <<proxyVars, obsVars, bridgeVars, probeVars>>
       \/ part = "probe" /\ ProbeNext /\ UNCHANGED <<proxyVars, obsVars, bridgeVars, commandVars>>
    /\ UNCHANGED part

MCVars == <<part, proxyVars, obsVars, bridgeVars, commandVars, probeVars>>

\* Fairness: the daemon's own steps, the 10 s and 30 s timeouts, and the stop.
\* A call or a client is fair in the part that has it.
MCFairness ==
    /\ \A i \in Calls :
         WF_MCVars(part = "proxy" /\ ProxyStep(i)
                    /\ UNCHANGED <<part, obsVars, bridgeVars, commandVars, probeVars>>)
    /\ \A r \in Requests :
         WF_MCVars(part = "obs" /\ Resume(r)
                    /\ UNCHANGED <<part, proxyVars, bridgeVars, commandVars, probeVars>>)
    /\ WF_MCVars(part = "bridge" /\ (Stopped \/ \E c \in Clients : HttpAnswered(c))
                    /\ UNCHANGED <<part, proxyVars, obsVars, commandVars, probeVars>>)

MCSpec == MCInit /\ [][MCNext]_MCVars /\ MCFairness

-----------------------------------------------------------------------------
\* The session proxy: the stored token is the stored user's unless a set_session overtook
\* a refresh, the rotation flag is exact, and a refresh keeps the user.
SessionIsOwn == [](ProxyTypeOK /\ OwnToken /\ FlagExact) /\ RefreshKeepsUser

\* The bridge: start and stop are all or nothing, listeners leak only by the late
\* failure, a caller speaks for itself, only what is allowed reaches OBS, whose answers
\* are true and reach whoever waits, and an event stream has no gap.
BridgeIsSound ==
    /\ [](/\ ObsTypeOK /\ AnswerIsTrue /\ OnlyAllowedReachesObs /\ NobodyForgotten
          /\ BridgeTypeOK /\ AllOrNothing /\ LeakOnlyIfLate /\ SpeaksForItself)
    /\ EventsHaveNoGap

\* The commands: 0 means done, a failure that was refused left nothing behind, a command
\* acts in one community, client and community agree; and a status is recent and never
\* older than the one before.
CommandsAreTrue ==
    /\ [](/\ CommandTypeOK /\ ExitZeroMeansDone /\ FailureIsClean
          /\ OneCommunityPerCommand /\ ClientMatchesId
          /\ ProbeTypeOK /\ ReportIsRecent)
    /\ CacheMovesForward

\* An RPC of the session proxy, an action of the bridge and a stop of the module end.
BridgeProgresses == RpcEnds /\ ActionAnswered /\ StopEnds
=============================================================================
