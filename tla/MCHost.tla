------------------------------ MODULE MCHost ------------------------------
(***************************************************************************)
(* The daemon as a host: its process and socket, its licence, and its      *)
(* external plugins, with the process of one, the connection with it and   *)
(* the services it calls back for; and the userspace tunnel it hosts the   *)
(* event loop of.  They share no variable: a behaviour exercises one of    *)
(* them.                                                                   *)
(***************************************************************************)
EXTENDS DaemonProcess, Entitlements, PluginHost, PluginLink, UserspaceTunnel

VARIABLE part

\* Parts that are not exercised stay in one of their initial states.
MCInit ==
    /\ part \in {"process", "licence", "plugin", "link", "services", "userspace"}
    /\ DaemonInit
    /\ part # "process" => dpDir = [i \in Processes |-> "a"] /\ dpInGroup = {} /\ dpGroup = "none"
    /\ EntInit /\ (part # "licence" => ~enKeyed)
    /\ Init /\ UserspaceInit
    /\ LinkInit /\ (part # "link" => lkRoutes)
    /\ RemoteInit /\ (part # "services" => rsKind = "remote" /\ rsGranted /\ rsStored)

\* A step of one part.
InPart(p, A) ==
    /\ part = p /\ A /\ UNCHANGED part
    /\ IF p = "process" THEN TRUE ELSE UNCHANGED daemonVars
    /\ IF p = "licence" THEN TRUE ELSE UNCHANGED entVars
    /\ IF p = "plugin" THEN TRUE ELSE UNCHANGED vars
    /\ IF p = "link" THEN TRUE ELSE UNCHANGED linkVars
    /\ IF p = "services" THEN TRUE ELSE UNCHANGED remoteVars
    /\ IF p = "userspace" THEN TRUE ELSE UNCHANGED userspaceVars

MCNext ==
    \/ InPart("process", DaemonNext)
    \/ InPart("licence", EntNext)
    \/ InPart("plugin", Next)
    \/ InPart("link", LinkNext)
    \/ InPart("services", RemoteNext)
    \/ InPart("userspace", UserspaceNext)

MCVars == <<part, daemonVars, entVars, vars, linkVars, remoteVars, userspaceVars>>

\* The fairness of each part: a process goes on with what it is doing, every limit
\* expires, an answer on its way is applied, and a licence refresh takes its steps
\* (a stop is seen at the first time its loop waits, the next tick is minutes away);
\* the event loop's select! picks at random, its cancelled arm too, and one loop is
\* alive at a time.
\* The parts are never mixed, so the fairness of a step of one or of another is the
\* fairness of each.
MCFairness ==
    /\ WF_MCVars(InPart("plugin", Advance) \/ InPart("link", LinkStep) \/ InPart("licence", RefreshGoesOn)
          \/ InPart("userspace", \E l \in Loops : ArmEnds(l)))
    /\ WF_MCVars(InPart("plugin", Probe) \/ InPart("link", InitStep) \/ InPart("userspace", StatsAnswered))
    /\ WF_MCVars(InPart("plugin", ProbeReturns) \/ InPart("link", CallEnds) \/ InPart("userspace", CallGoesOn))
    /\ SF_MCVars(InPart("plugin", Restart) \/ InPart("licence", RefreshLoopEnds)
          \/ InPart("userspace", \E l \in Loops : LoopCancelled(l)))
    /\ \A n \in {1, 2} :
        WF_MCVars(\/ n \in Processes /\ InPart("process", ProcessStep(n))
                  \/ n \in 1..MaxAsks /\ InPart("services", RefreshApplies(n)))

MCSpec == MCInit /\ [][MCNext]_MCVars /\ MCFairness

-----------------------------------------------------------------------------
\* The daemon and its licence: a daemon that serves can be reached, its modules outlive
\* it only if it was cut off, a stream is authorized; the next start agrees with what
\* was granted, a licence is not lost to a failure, an old tier is seen only at start.
DaemonIsSound ==
    /\ [](/\ DaemonTypeOK /\ ServingIsReachable /\ ModulesOutliveOnlyIfCut
          /\ EntTypeOK /\ NextStartAgrees /\ OnceLicensedStays /\ OldTierOnlyAtStart)
    /\ StreamIsAuthorized

\* A plugin and what it sees of its host: the leg to the host is the launch's own, it is
\* missing only if something failed, Module::init comes before every other call; a
\* feature is on only if granted, and an absent secret is called absent.
PluginServicesAreSound ==
    /\ LinkTypeOK /\ LegIsOwn /\ DegradesOnlyIfFailed /\ InitComesFirst
    /\ RemoteTypeOK /\ OnlyGrantedIsOn /\ AbsentIsAbsent

\* The userspace tunnel: statistics are of the instance that was asked for, a loop ends
\* only if it was told to, a handshake that is reported was made.
UserspaceIsSound == UserspaceTypeOK /\ AskedIsCurrent /\ EndsOnlyIfTold /\ HandshakeWasMade

\* What the host begins ends: a shutdown, unless a client holds it, the licence refresh,
\* a plugin's calls, its start and its shutdown; an exited plugin is noticed; the host's
\* answer about a feature is kept; and a tunnel that was torn down frees its device.
HostProgresses ==
    /\ ShutdownEndsOrIsHeld /\ RefreshStopEnds
    /\ CallsEnd /\ ExitIsNoticed /\ GateOpens /\ ShutdownEndsPlugin /\ AnswerIsKept
    /\ DeviceIsFreed
=============================================================================
