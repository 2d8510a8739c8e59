----------------------------- MODULE ObsAdapter -----------------------------
(***************************************************************************)
(* Bridge actions (waddlebot bridge_action.rs) and the OBS adapter they    *)
(* drive (bridge/obs.rs): ExecuteBridgeAction checks the allow lists and   *)
(* queues a command for the connection task, which performs the obs-       *)
(* websocket handshake, forwards commands, and matches responses to the    *)
(* callers that wait for at most 10 s.  The task is not restarted.         *)
(***************************************************************************)
EXTENDS Integers, Sequences, FiniteSets

CONSTANTS
    Requests,        \* bridge actions of type obs_command
    Command,         \* Command[r]: the requestType of r
    Scene,           \* Scene[r]: the sceneName r carries, or NoScene
    NoScene,
    AllowedCommands, \* bridge.obs.allowed_commands
    AllowedScenes    \* bridge.obs.allowed_scenes

VARIABLES
    obConn,    \* the connection task: connect, hello, identify, serving, ended
    obQueue,   \* commands in the adapter's unbounded channel
    obPending, \* requests sent on and not answered, the task's pending map
    obSlot,    \* per request: the oneshot its caller waits on
    obCaller,  \* per request: the caller
    obHeld,    \* the registry has an executor, which holds the adapter
    obTold,    \* the last life-cycle event published to the bridge's clients
    obSent,    \* OBS has received the request
    obDid,     \* OBS has carried the request out
    obError,   \* ghost: the connection ended with an error, not a close
    obHook     \* a webhook action: its caller, and whether the target was reached
obsVars == <<obConn, obQueue, obPending, obSlot, obCaller, obHeld, obTold, obSent, obDid, obError, obHook>>

ObsInit ==
    /\ obConn = "connect" /\ obQueue = <<>> /\ obPending = {}
    /\ obSlot = [r \in Requests |-> "open"]
    /\ obCaller = [r \in Requests |-> "idle"]
    /\ obHeld = TRUE /\ obTold = "nothing"
    /\ obSent = {} /\ obDid = {} /\ obError = FALSE
    /\ obHook = [caller |-> "idle", reached |-> FALSE]

\* The allow lists of execute_obs_command: an empty command list allows
\* nothing, an empty scene list any scene, and only a scene switch that names
\* its scene is looked up.
MayRun(r) ==
    /\ Command[r] \in AllowedCommands
    /\ Command[r] = "SetCurrentProgramScene" /\ Scene[r] # NoScene /\ AllowedScenes # {}
         => Scene[r] \in AllowedScenes

Queue(r) ==
    /\ obQueue' = Append(obQueue, r)
    /\ obCaller' = [obCaller EXCEPT ![r] = "waiting"]

\* Supervisor::execute_bridge_action: waddlebot is loaded and its bridge has
\* registered an executor, which is cloned out of the registry.
Registered == obHeld

\* ExecuteBridgeAction and send_request up to the wait: no executor, malformed
\* data, a refused command and a task that has gone end the call at once.
ExecuteObs(r) ==
    /\ obCaller[r] = "idle"
    /\ \/ Registered /\ MayRun(r) /\ obConn # "ended" /\ Queue(r)
       \/ /\ obCaller' = [obCaller EXCEPT ![r] =
                IF Registered /\ MayRun(r) /\ obConn = "ended" THEN "not connected" ELSE "refused"]
          /\ UNCHANGED obQueue
    /\ UNCHANGED <<obConn, obPending, obSlot, obHeld, obTold, obSent, obDid, obError, obHook>>

\* The task ends: its receiver and its pending map are dropped.
Dropped == {obQueue[i] : i \in 1..Len(obQueue)} \cup obPending

End(error, told) ==
    /\ obConn' = "ended" /\ obQueue' = <<>> /\ obPending' = {}
    /\ obSlot' = [r \in Requests |-> IF r \in Dropped THEN "dropped" ELSE obSlot[r]]
    /\ obError' = error /\ obTold' = told

Fails == End(TRUE, obTold)

\* validate_loopback_url: any other URL than ws:// to localhost or a loopback
\* address ends the task before it dials, or OBS learns anything.
UrlRefused ==
    /\ obConn = "connect" /\ Fails
    /\ UNCHANGED <<obCaller, obHeld, obSent, obDid, obHook>>

\* connect_async, obs.connected.
Connect ==
    /\ obConn = "connect"
    /\ \/ obConn' = "hello" /\ obTold' = "connected" /\ UNCHANGED <<obQueue, obPending, obSlot, obError>>
       \/ Fails
    /\ UNCHANGED <<obCaller, obHeld, obSent, obDid, obHook>>

\* Hello, the answer to its challenge, Identify.
Hello ==
    /\ obConn = "hello"
    /\ \/ obConn' = "identify" /\ UNCHANGED <<obQueue, obPending, obSlot, obError, obTold>>
       \/ Fails
    /\ UNCHANGED <<obCaller, obHeld, obSent, obDid, obHook>>

\* Identified (op 2), obs.authenticated.
Identified ==
    /\ obConn = "identify"
    /\ \/ obConn' = "serving" /\ obTold' = "authenticated" /\ UNCHANGED <<obQueue, obPending, obSlot, obError>>
       \/ Fails
    /\ UNCHANGED <<obCaller, obHeld, obSent, obDid, obHook>>

Rest(q) == Tail(q)

\* The select arm of the command channel: remembered first, then sent.
Forward ==
    /\ obConn = "serving" /\ obQueue # <<>>
    /\ \/ /\ obQueue' = Rest(obQueue)
          /\ obPending' = obPending \cup {Head(obQueue)}
          /\ obSent' = obSent \cup {Head(obQueue)}
          /\ UNCHANGED <<obConn, obSlot, obError, obTold>>
       \/ Fails /\ UNCHANGED obSent
    /\ UNCHANGED <<obCaller, obHeld, obDid, obHook>>

\* OBS, at its own pace.
ObsActs(r) ==
    /\ r \in obSent \ obDid /\ obSlot[r] # "rejected"
    /\ obDid' = obDid \cup {r}
    /\ UNCHANGED <<obConn, obQueue, obPending, obSlot, obCaller, obHeld, obTold, obSent, obError, obHook>>

Answered(r) == {r} \cap obPending

\* Op 7: the pending entry of the requestId is removed and its caller told;
\* OBS answers a request once, with success if it carried it out.
Response(r, result) ==
    /\ obConn = "serving" /\ r \in obSent /\ r \in obPending
    /\ result = "ok" => r \in obDid
    /\ result = "rejected" => r \notin obDid
    /\ obPending' = obPending \ {r}
    /\ obSlot' = [q \in Requests |-> IF q \in Answered(r) THEN result ELSE obSlot[q]]
    /\ UNCHANGED <<obConn, obQueue, obCaller, obHeld, obTold, obSent, obDid, obError, obHook>>

\* A close frame or the end of the stream, with its event, or an error, without.
Disconnect(error) ==
    /\ obConn = "serving"
    /\ End(error, IF error THEN obTold ELSE "disconnected")
    /\ UNCHANGED <<obCaller, obHeld, obSent, obDid, obHook>>

\* The timeout yields only to an answer that is there already.
Elapsed(r) == obSlot[r] = "open"

\* send_request wakes: its answer, a dropped sender, or 10 s.
Resume(r) ==
    /\ obCaller[r] = "waiting" /\ (obSlot[r] # "open" \/ Elapsed(r))
    /\ obCaller' = [obCaller EXCEPT ![r] =
         CASE obSlot[r] = "dropped" -> "not connected"
           [] obSlot[r] = "open" -> "timeout"
           [] OTHER -> obSlot[r]]
    /\ UNCHANGED <<obConn, obQueue, obPending, obSlot, obHeld, obTold, obSent, obDid, obError, obHook>>

\* stop_bridge: the registry lets go of the executor; the task keeps running.
StopBridge ==
    /\ obHeld /\ obHeld' = FALSE
    /\ UNCHANGED <<obConn, obQueue, obPending, obSlot, obCaller, obTold, obSent, obDid, obError, obHook>>

\* execute_webhook: an unknown name, a malformed payload and a missing auth
\* secret end the call before anything is posted.
ExecuteWebhook ==
    /\ obHook.caller = "idle"
    /\ \E next \in IF Registered THEN {"posting", "refused"} ELSE {"refused"} :
         obHook' = [obHook EXCEPT !.caller = next]
    /\ UNCHANGED <<obConn, obQueue, obPending, obSlot, obCaller, obHeld, obTold, obSent, obDid, obError>>

\* The post reaches its target, before or after the caller gives up.
HookReached ==
    /\ obHook.caller \in {"posting", "gave up"} /\ ~obHook.reached
    /\ obHook' = [obHook EXCEPT !.reached = TRUE]
    /\ UNCHANGED <<obConn, obQueue, obPending, obSlot, obCaller, obHeld, obTold, obSent, obDid, obError>>

\* A status needs the target; the timeout (at most 30 s) and a transport error do not.
HookResults == (IF obHook.reached THEN {"status 2xx", "status other"} ELSE {}) \cup {"gave up"}

HookEnds ==
    /\ obHook.caller = "posting"
    /\ \E result \in HookResults : obHook' = [obHook EXCEPT !.caller = result]
    /\ UNCHANGED <<obConn, obQueue, obPending, obSlot, obCaller, obHeld, obTold, obSent, obDid, obError>>

ObsNext ==
    \/ ExecuteWebhook \/ HookReached \/ HookEnds
    \/ UrlRefused \/ Connect \/ Hello \/ Identified \/ Forward \/ StopBridge
    \/ \E error \in BOOLEAN : Disconnect(error)
    \/ \E r \in Requests :
        \/ ExecuteObs(r) \/ ObsActs(r) \/ Resume(r)
        \/ \E result \in {"ok", "rejected", "malformed"} : Response(r, result)

(***************************************************************************)
(* Properties.                                                             *)
(***************************************************************************)

\* Types; a request is on its way in one place at most.
ObsTypeOK ==
    /\ obConn \in {"connect", "hello", "identify", "serving", "ended"}
    /\ obSlot \in [Requests -> {"open", "dropped", "ok", "rejected", "malformed"}]
    /\ obCaller \in [Requests -> {"idle", "waiting", "refused", "not connected", "timeout",
                                  "ok", "rejected", "malformed"}]
    /\ obPending \subseteq obSent /\ obDid \subseteq obSent
    /\ \A i, j \in 1..Len(obQueue) : obQueue[i] \notin obPending /\ (i # j => obQueue[i] # obQueue[j])

\* What the caller is told about a request is what became of it: "ok" only if
\* OBS carried it out, "rejected" only if it did not, refused only if OBS never
\* saw it.  A timeout and
\* a lost connection leave it open: the command may be carried out later.
AnswerIsTrue ==
    \A r \in Requests :
        /\ obCaller[r] = "ok" => r \in obDid
        /\ obCaller[r] = "rejected" => r \notin obDid
        /\ obCaller[r] = "refused" => r \notin obSent

\* Nothing reaches OBS that the allow lists refuse, on any path through the queue: an
\* empty list of scenes refuses none.
OnlyAllowedReachesObs ==
    \A r \in obSent :
        /\ Command[r] \in AllowedCommands
        /\ Command[r] = "SetCurrentProgramScene" =>
              AllowedScenes = {} \/ Scene[r] \in AllowedScenes \cup {NoScene}

\* A caller that waits either has its answer coming or the task still has the
\* request: no request is dropped without its caller being told (the senders in
\* pending and in the channel are what wakes it before the 10 s).
NobodyForgotten ==
    \A r \in Requests : obCaller[r] = "waiting" =>
        obSlot[r] # "open" \/ r \in obPending \/ \E i \in 1..Len(obQueue) : obQueue[i] = r

\* Every bridge action is answered, whether OBS answers or not.
ActionAnswered == \A r \in Requests : (obCaller[r] = "waiting") ~> (obCaller[r] # "waiting")
=============================================================================
