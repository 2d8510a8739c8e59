------------------------------ MODULE MCLocal ------------------------------
(***************************************************************************)
(* What is kept on one machine around the daemon: the desktop shell with   *)
(* its session and its executor, secrets, the binary and its updates, the  *)
(* service definition, and plugins to be trusted.  They share no variable: *)
(* a behaviour exercises one of them.                                      *)
(***************************************************************************)
EXTENDS ActionExecutor, DesktopSession, SecretFiles, Updater, ServiceInstall, PluginTrust, TLC

CONSTANTS script, signed, unknown, hA, hB

VARIABLE part

MCKind == (script :> "script") @@ (signed :> "signed_binary") @@ (unknown :> "unknown")

\* A part that is not exercised stays in one of its initial states.
MCInit ==
    /\ part \in {"executor", "session", "secrets", "update", "service", "trust"}
    /\ ExecInit /\ SessInit /\ SecretInit /\ UpdInit /\ ServiceInit /\ TrustInit
    /\ part # "update" => upHost = "linux"
    /\ part # "service" => svOs = "linux"
    /\ part # "trust" =>
        /\ ptDir = "fit" /\ ptManifest = 1 /\ ptBinary.fit
        /\ ptSig = [version |-> 1, key |-> "k1"] /\ ptKeys = <<"k1">>

\* A step of one part.
InPart(p, A) ==
    /\ part = p /\ A /\ UNCHANGED part
    /\ IF p = "executor" THEN TRUE ELSE UNCHANGED execVars
    /\ IF p = "session" THEN TRUE ELSE UNCHANGED sessVars
    /\ IF p = "secrets" THEN TRUE ELSE UNCHANGED secretVars
    /\ IF p = "update" THEN TRUE ELSE UNCHANGED updVars
    /\ IF p = "service" THEN TRUE ELSE UNCHANGED serviceVars
    /\ IF p = "trust" THEN TRUE ELSE UNCHANGED trustVars

MCNext ==
    \/ InPart("executor", ExecNext)
    \/ InPart("session", SessNext)
    \/ InPart("secrets", SecretNext)
    \/ InPart("update", UpdNext)
    \/ InPart("service", ServiceNext)
    \/ InPart("trust", TrustNext)

MCVars == <<part, execVars, sessVars, secretVars, updVars, serviceVars, trustVars>>

\* Fairness: the executor's loops emit what they are asked, and look at the answer
\* or at the limit.
MCFairness ==
    \A l \in Loops :
        /\ WF_MCVars(InPart("executor", Emit(l)))
        /\ WF_MCVars(InPart("executor", Decided(l)))

MCSpec == MCInit /\ [][MCNext]_MCVars /\ MCFairness

-----------------------------------------------------------------------------
\* The executor: a script runs once per approval, whoever waits for an answer can get
\* it, the loop that is alive is the one the shell holds, an action runs twice only if
\* its response was lost, and success is only said of what ran.
ActionsAreApproved ==
    /\ ExecTypeOK /\ ApprovalPerRun /\ WaitingIsAnswerable /\ PendingIsAsking
    /\ LiveLoopIsHeld /\ TwiceOnlyIfExcused /\ SuccessMeansRan

\* What the machine keeps outlives failures and crashes: the keychain holds one
\* session, penguind was primed with a stored one, the secrets are locked only by the
\* loss of a key that was never settled, and an installed service is enabled.
StateIsKept ==
    /\ SessTypeOK /\ OneSessionStored /\ PrimedWasStored
    /\ SecretTypeOK /\ LockedOutOnlyByEarlyLoss
    /\ ServiceTypeOK /\ InstalledMeansEnabled

\* Only signed code runs, updates and plugins alike, and why not is said: the binary on
\* disk was verified as it is, an offer is newer, a release is only said to be missing
\* if it is, an update goes back only if asked to, and a plugin is refused for what was
\* wrong with it.
OnlySignedRuns ==
    /\ [](/\ UpdTypeOK /\ DiskIsSigned /\ OfferIsNewer /\ NotFoundIsTrue
          /\ TrustTypeOK /\ RunsWhatIsSigned)
    /\ NoSilentDowngrade /\ RefusedForAReason
=============================================================================
