---------------------------- MODULE PluginLink ----------------------------
(***************************************************************************)
(* How a plugin process and its host come together: the plugin's startup   *)
(* (penguin-sdk plugin/serve.rs), the broker on both sides that announces  *)
(* the host's service under id 1, the pinned TLS leg to it, the prefetch,  *)
(* Module::init and the gate that opens after it, and the shutdown.  Other   *)
(* launches share the host's socket directory.                             *)
(***************************************************************************)
EXTENDS Naturals, FiniteSets, Sequences

VARIABLES
    lk,        \* the launch: both ends of the connection
    lkSocket,  \* whose listener <socket_dir>/1.sock leads to
    lkRoutes   \* whether the host serves anything to the plugin
linkVars == <<lk, lkSocket, lkRoutes>>

Fetches == {"config", "dataDir", "tier"}
Nobody == "nobody"
Ours == "this launch"
Others == "another launch"

\* A handshake line: how many fields it has, and whether its versions, its protocol
\* and its certificate are what they should be.
Lines == [fields : {3, 4, 5, 6}, versions : BOOLEAN, grpc : BOOLEAN, cert : {"short", "padded", "good"}]
NoLine == [fields |-> 0, versions |-> FALSE, grpc |-> FALSE, cert |-> "short"]
\* build_line.
OwnLine == [fields |-> 6, versions |-> TRUE, grpc |-> TRUE, cert |-> "good"]

Unlaunched ==
    [host |-> "idle", plug |-> "absent", line |-> NoLine, init |-> "none", stream |-> "none", out |-> FALSE,
     slot |-> "empty", told |-> FALSE, leg |-> Nobody, serv |-> "none", left |-> {}, got |-> {},
     why |-> {}, call |-> "none", inits |-> 0]

LinkInit ==
    /\ lk = Unlaunched
    /\ lkSocket = Nobody
    /\ lkRoutes \in BOOLEAN

Keep == UNCHANGED <<lkSocket, lkRoutes>>

----------------------------------------------------------------------------
\* The plugin process.

HostSpawns ==
    /\ lk.host = "idle"
    /\ lk' = [lk EXCEPT !.host = "reading", !.plug = "started"] /\ Keep

\* Identity, host certificate, socket directory and listener; then the line.
PluginPrints ==
    /\ lk.plug = "started"
    /\ lk' = [lk EXCEPT !.plug = "printed", !.line = OwnLine] /\ Keep

\* An executable that is no plugin of ours prints a line too.
StrangerPrints(l) ==
    /\ lk.plug = "started" /\ l # OwnLine
    /\ lk' = [lk EXCEPT !.plug = "exited", !.line = l] /\ Keep

\* The server answers, SERVING from the start, and the init sequence runs beside it.
PluginServes ==
    /\ lk.plug = "printed"
    /\ lk' = [lk EXCEPT !.plug = "serving", !.init = "dial"] /\ Keep

\* Every failure of the startup exits with code 1, and a plugin may crash at any time.
PluginDies ==
    /\ lk.plug \in {"started", "printed", "serving"}
    /\ lk' = [lk EXCEPT !.plug = "exited"] /\ Keep

Alive == lk.plug \in {"serving", "draining"}

----------------------------------------------------------------------------
\* The host's launch.

\* Handshake::parse: four fields at least, the versions, grpc in the fifth, and a
\* certificate field that is long enough must be unpadded base64.
Parses(l) == l.fields >= 5 /\ l.versions /\ l.grpc /\ ~(l.fields = 6 /\ l.cert = "padded")
\* A field that is missing or short is no certificate.
HasCert(l) == l.fields = 6 /\ l.cert = "good"

\* The first line, or the end of the output; a child whose line is refused is killed.
HostReadsLine ==
    /\ lk.host = "reading" /\ (lk.line # NoLine \/ lk.plug = "exited")
    /\ lk' = [lk EXCEPT !.host = IF Parses(lk.line) THEN "connecting" ELSE "failed",
                        !.plug = IF Parses(lk.line) THEN @ ELSE "exited"] /\ Keep

\* No certificate, no connection.
HostPins ==
    /\ lk.host = "connecting" /\ ~HasCert(lk.line)
    /\ lk' = [lk EXCEPT !.host = "failed"] /\ Keep

\* The plugin's listener accepts at once and shakes hands when the connection is
\* first read, so that a slow peer holds up nobody else.
PluginAccepts == lk.plug = "serving"

HostConnects ==
    /\ lk.host = "connecting" /\ HasCert(lk.line) /\ (PluginAccepts \/ lk.plug = "exited")
    /\ lk' = [lk EXCEPT !.host = IF PluginAccepts THEN "broker" ELSE "failed"] /\ Keep

\* The stream is opened by a task of its own that nobody waits for.
BrokerConnects ==
    /\ lk.host = "broker"
    /\ lk' = [lk EXCEPT !.host = IF lkRoutes THEN "accept" ELSE "health", !.stream = "opening"] /\ Keep

StreamOpens ==
    /\ lk.stream = "opening" /\ lk.plug = "serving"
    /\ lk' = [lk EXCEPT !.stream = "open"] /\ Keep

\* Broker::accept removes whatever socket is there, binds and queues the announcement.
HostAccepts ==
    /\ lk.host = "accept"
    /\ lkSocket' = Ours
    /\ lk' = [lk EXCEPT !.host = "health", !.out = TRUE]
    /\ UNCHANGED lkRoutes

\* Another launch with routes of its own does the same in the same directory.
OtherLaunchAccepts ==
    /\ lkSocket # Others /\ lkSocket' = Others
    /\ UNCHANGED <<lk, lkRoutes>>

HealthAnswered ==
    /\ lk.host = "health" /\ lk.plug \in {"serving", "exited"}
    /\ lk' = [lk EXCEPT !.host = IF lk.plug = "exited" THEN "failed" ELSE "up"] /\ Keep

----------------------------------------------------------------------------
\* The plugin's broker.  The slot of id 1 is made by whoever is there first; its
\* channel has room for one, and is gone once a dial has given up.

Listening == lk.init \in {"none", "dial", "waiting"}

\* dispatch_inbound.
Announced ==
    /\ lk.out /\ lk.stream = "open" /\ Alive
    /\ lk' = [lk EXCEPT !.out = FALSE, !.told = TRUE, !.slot = IF Listening THEN "full" ELSE lk.slot] /\ Keep

SlotFound == lk.slot

Dial ==
    /\ lk.init = "dial" /\ Alive
    /\ lk' = [lk EXCEPT !.init = "waiting", !.slot = SlotFound] /\ Keep

DialReceives ==
    /\ lk.init = "waiting" /\ lk.slot = "full" /\ Alive
    /\ lk' = [lk EXCEPT !.init = "connecting", !.slot = "empty"] /\ Keep

Noop == "noop"

\* build_host_services_or_noop: any failure hands the module a no-op host.
Degrades(excuse) == lk' = [lk EXCEPT !.init = "init", !.serv = Noop, !.why = lk.why \cup excuse]

GivesUp == lk.slot # "full"

\* A limit expires only while there is nothing to receive.
DialTimesOut ==
    /\ lk.init = "waiting" /\ GivesUp /\ Alive
    /\ Degrades(IF lk.told THEN {} ELSE {"not announced"}) /\ Keep

\* Mutant: the certificate at the other end is not compared.
PinMatchesAny(q) == TRUE
\* Every launch makes an identity, and each side accepts only the other's.
PinMatches(q) == q = Ours

\* serve_tls of whoever listens there completes the handshake: the leg is up.
LegEstablished == lk' = [lk EXCEPT !.init = "prefetch", !.leg = lkSocket, !.left = Fetches]

TlsConnects ==
    /\ lk.init = "connecting" /\ Alive
    /\ IF PinMatches(lkSocket)
       THEN LegEstablished
       ELSE Degrades({"overtaken"})
    /\ Keep

\* The connect limit, or the limit of the whole attempt.
AttemptTimesOut ==
    /\ lk.init \in {"connecting", "prefetch"} /\ Alive
    /\ Degrades({"slow"}) /\ Keep

NextFetch == CHOOSE f \in lk.left : TRUE

\* Each value falls back to a default of its own when its call fails.
PrefetchReturns(ok) ==
    /\ lk.init = "prefetch" /\ lk.left # {} /\ Alive
    /\ lk' = [lk EXCEPT !.left = lk.left \ {NextFetch},
                        !.got = IF ok THEN lk.got \cup {NextFetch} ELSE lk.got,
                        !.why = IF ok THEN lk.why ELSE lk.why \cup {"call failed"}]
    /\ Keep

PrefetchEnds ==
    /\ lk.init = "prefetch" /\ lk.left = {} /\ Alive
    /\ lk' = [lk EXCEPT !.init = "init", !.serv = "remote"] /\ Keep

\* Module::init; an error opens the gate just the same.
ModuleInit ==
    /\ lk.init = "init" /\ Alive
    /\ lk' = [lk EXCEPT !.init = "ready", !.inits = lk.inits + 1] /\ Keep

----------------------------------------------------------------------------
\* Calls of the module, and the shutdown.

\* wait_ready.
Gate == lk.init = "ready"

\* start, stop, status, health or dispatch arrives.
CallArrives ==
    /\ lk.host = "up" /\ lk.call = "none"
    /\ lk' = [lk EXCEPT !.call = "waiting"] /\ Keep

CallEnds ==
    /\ lk.call = "waiting"
    /\ \/ Alive /\ Gate /\ lk' = [lk EXCEPT !.call = "done"]
       \/ lk.plug = "exited" /\ lk' = [lk EXCEPT !.call = "failed"]
    /\ Keep

\* PluginProcess::shutdown: the broker goes, then GRPCController.Shutdown, which
\* takes the sender out and begins the drain.
HostShutsDown ==
    /\ lk.host = "up"
    /\ lk' = [lk EXCEPT !.host = "grace", !.plug = IF lk.plug = "serving" THEN "draining" ELSE lk.plug] /\ Keep

\* The drain waits for calls under way and for the broker's stream, which the
\* plugin's own sender keeps open.
PluginDrains ==
    /\ lk.plug = "draining" /\ lk.stream # "open" /\ lk.call # "waiting"
    /\ lk' = [lk EXCEPT !.plug = "exited"] /\ Keep

Killed == "exited"

\* The process has exited, or the grace period is over and it is killed.
GraceEnds ==
    /\ lk.host = "grace"
    /\ lk' = [lk EXCEPT !.host = "down", !.plug = Killed] /\ Keep

----------------------------------------------------------------------------
LinkStep ==
    \/ PluginPrints \/ PluginServes \/ HostReadsLine \/ HostPins \/ HostConnects \/ BrokerConnects
    \/ HostAccepts \/ HealthAnswered \/ StreamOpens \/ Announced
    \/ CallEnds \/ PluginDrains \/ GraceEnds

\* The init sequence is a task of its own.
InitStep ==
    \/ Dial \/ DialReceives \/ DialTimesOut \/ TlsConnects \/ AttemptTimesOut
    \/ (\E ok \in BOOLEAN : PrefetchReturns(ok)) \/ PrefetchEnds \/ ModuleInit

LinkNext ==
    \/ HostSpawns \/ PluginDies \/ CallArrives \/ HostShutsDown \/ OtherLaunchAccepts
    \/ (\E l \in Lines : StrangerPrints(l))
    \/ LinkStep \/ InitStep

\* Fairness: both processes run, every limit expires, and Module::init returns.
LinkFairness == WF_linkVars(LinkStep) /\ WF_linkVars(InitStep) /\ WF_linkVars(CallEnds)

LinkSpec == LinkInit /\ [][LinkNext]_linkVars /\ LinkFairness

----------------------------------------------------------------------------
\* Types; a module is handed some host services when its init is due.
LinkTypeOK ==
    /\ lk.serv \in {"none", "remote", "noop"} /\ lk.inits \in 0..1
    /\ lk.slot \in {"empty", "full"} /\ lk.got \subseteq Fetches
    /\ lk.init \in {"init", "ready"} => lk.serv # "none"

\* Launches share the socket's path, and a later one takes it over: a plugin may
\* lose its host services by that, but is never connected to those of another.
LegIsOwn == lk.serv = "remote" => lk.leg = Ours

\* A module runs without its host's services, or without a value of theirs, only
\* if nothing was announced in time, another launch took the path, a limit expired
\* or a call failed: an announcement that comes before the dial is not lost.
DegradesOnlyIfFailed ==
    lk.init \in {"init", "ready"} /\ lk.why = {}
       => lk.serv = "remote" /\ lk.got = Fetches

\* No gated call reaches a module whose init has not returned.
InitComesFirst == lk.call = "done" => lk.inits = 1

\* A call waiting at the gate gets through or fails, whether or not the host ever
\* announces its services.
GateOpens == lk.call = "waiting" ~> lk.call # "waiting"

\* After a shutdown the process is gone, although the drain waits for the broker's
\* stream: the kill does not depend on it.
ShutdownEndsPlugin == lk.host = "grace" ~> lk.plug = "exited"

(***************************************************************************)
(* What a served module sees of its host (penguin-sdk                      *)
(* plugin/hostservices.rs): a licence flag that is asked for in the        *)
(* background and then kept, secrets over the wire, and events that are    *)
(* sent by a task each; or, without a host, services that do nothing.      *)
(***************************************************************************)

CONSTANTS
    MaxAsks,     \* bound: questions about the flag
    MaxEvents,   \* bound: events published
    MaxFlips     \* bound: changes of the host's flag and store

ASSUME RemoteAssumption == MaxAsks \in Nat /\ MaxEvents \in Nat /\ MaxFlips \in Nat

VARIABLES
    rsKind,     \* "remote" or "noop", fixed when the module is initialised
    rsGranted,  \* the host's answer about the flag, now
    rsEver,     \* history: whether it was ever TRUE
    rsFlag,     \* the cached flag
    rsAsked,    \* refresh tasks: "sent", or the answer on its way back
    rsAsks,     \* questions so far
    rsTold,     \* the module's last answer about the flag
    rsStored,   \* whether the host holds the module's secret
    rsSecret,   \* the module's secret call: none, sent, or its outcome
    rsSeen,     \* history: whether the host held the secret when it looked
    rsFlips,    \* changes so far
    rsSent,     \* events published so far
    rsUnderWay, \* events whose task has not been answered
    rsArrived   \* events at the host, in order of arrival
remoteVars == <<rsKind, rsGranted, rsEver, rsFlag, rsAsked, rsAsks, rsTold, rsStored, rsSecret, rsSeen,
                rsFlips, rsSent, rsUnderWay, rsArrived>>
flagVars == <<rsFlag, rsAsked, rsAsks, rsTold>>
secretCallVars == <<rsSecret, rsSeen>>
eventVars == <<rsSent, rsUnderWay, rsArrived>>
hostSideVars == <<rsGranted, rsEver, rsStored, rsFlips>>

Flags == {"unseen", "on", "off"}
Answers == {"sent", "on", "off"}

RemoteInit ==
    /\ rsKind \in {"remote", "noop"}
    /\ rsGranted \in BOOLEAN /\ rsEver = rsGranted /\ rsStored \in BOOLEAN
    /\ rsFlag = "unseen" /\ rsAsked = [n \in 1..MaxAsks |-> "none"] /\ rsAsks = 0 /\ rsTold = "off"
    /\ rsSecret = "none" /\ rsSeen = FALSE /\ rsFlips = 0
    /\ rsSent = 0 /\ rsUnderWay = {} /\ rsArrived = <<>>

----------------------------------------------------------------------------
\* The licence flag.

Unseen == "off"

\* feature_enabled: the cached answer, or off and a question in the background.
FlagEnabled ==
    \/ /\ rsKind = "noop" \/ rsFlag # "unseen"
       /\ rsTold' = IF rsKind = "noop" THEN "off" ELSE rsFlag
       /\ UNCHANGED <<rsAsked, rsAsks>>
    \/ /\ rsKind = "remote" /\ rsFlag = "unseen" /\ rsAsks < MaxAsks
       /\ rsAsks' = rsAsks + 1 /\ rsAsked' = [rsAsked EXCEPT ![rsAsks + 1] = "sent"]
       /\ rsTold' = Unseen

FeatureAsked == FlagEnabled /\ UNCHANGED <<rsKind, rsFlag>> /\ UNCHANGED <<secretCallVars, eventVars, hostSideVars>>

HostAnswersFlag(n) ==
    /\ rsAsked[n] = "sent"
    /\ rsAsked' = [rsAsked EXCEPT ![n] = IF rsGranted THEN "on" ELSE "off"]
    /\ UNCHANGED <<rsKind, rsFlag, rsAsks, rsTold>> /\ UNCHANGED <<secretCallVars, eventVars, hostSideVars>>

FlagCached(n) == rsAsked[n]

RefreshApplies(n) ==
    /\ rsAsked[n] \in {"on", "off"}
    /\ rsFlag' = FlagCached(n) /\ rsAsked' = [rsAsked EXCEPT ![n] = "none"]
    /\ UNCHANGED <<rsKind, rsAsks, rsTold>> /\ UNCHANGED <<secretCallVars, eventVars, hostSideVars>>

\* A failed call leaves the flag unseen.
RefreshFails(n) ==
    /\ rsAsked[n] = "sent"
    /\ rsAsked' = [rsAsked EXCEPT ![n] = "none"]
    /\ UNCHANGED <<rsKind, rsFlag, rsAsks, rsTold>> /\ UNCHANGED <<secretCallVars, eventVars, hostSideVars>>

----------------------------------------------------------------------------
\* Secrets.

SecretGets ==
    /\ rsSecret \in {"none", "value", "notFound", "other"}
    /\ rsSecret' = IF rsKind = "remote" THEN "sent" ELSE "other"
    /\ UNCHANGED rsSeen /\ UNCHANGED <<rsKind, flagVars, eventVars, hostSideVars>>

\* The host looks; its store may also fail.
HostLooksUp ==
    /\ rsSecret = "sent"
    /\ rsSeen' = rsStored
    /\ rsSecret' \in {IF rsStored THEN "answered" ELSE "message not found", "message failed"}
    /\ UNCHANGED <<rsKind, flagVars, eventVars, hostSideVars>>

\* secret_error_from_message: one message exactly means absence.
ErrorOf(message) == IF message = "message not found" THEN "notFound" ELSE "other"

SecretReturns ==
    /\ rsSecret \in {"answered", "message not found", "message failed"}
    /\ rsSecret' = IF rsSecret = "answered" THEN "value" ELSE ErrorOf(rsSecret)
    /\ UNCHANGED rsSeen /\ UNCHANGED <<rsKind, flagVars, eventVars, hostSideVars>>

SecretCallFails ==
    /\ rsSecret = "sent" /\ rsSecret' = "other"
    /\ UNCHANGED rsSeen /\ UNCHANGED <<rsKind, flagVars, eventVars, hostSideVars>>

----------------------------------------------------------------------------
\* Events and log lines: a task each.

PublishEvent ==
    /\ rsSent < MaxEvents /\ rsSent' = rsSent + 1
    /\ rsUnderWay' = IF rsKind = "remote" THEN rsUnderWay \cup {rsSent + 1} ELSE rsUnderWay
    /\ UNCHANGED rsArrived /\ UNCHANGED <<rsKind, flagVars, secretCallVars, hostSideVars>>

Remaining(n) == rsUnderWay \ {n}

EventArrives(n) ==
    /\ n \in rsUnderWay /\ Len(rsArrived) < MaxEvents + 1
    /\ rsArrived' = Append(rsArrived, n) /\ rsUnderWay' = Remaining(n)
    /\ UNCHANGED rsSent /\ UNCHANGED <<rsKind, flagVars, secretCallVars, hostSideVars>>

EventLost(n) ==
    /\ n \in rsUnderWay /\ rsUnderWay' = rsUnderWay \ {n}
    /\ UNCHANGED <<rsSent, rsArrived>> /\ UNCHANGED <<rsKind, flagVars, secretCallVars, hostSideVars>>

----------------------------------------------------------------------------
\* The host's licence or store changes.
HostChanges(granted, stored) ==
    /\ rsFlips < MaxFlips /\ rsFlips' = rsFlips + 1
    /\ rsGranted' = granted /\ rsEver' = (rsEver \/ granted) /\ rsStored' = stored
    /\ UNCHANGED <<rsKind, flagVars, secretCallVars, eventVars>>

RemoteNext ==
    \/ FeatureAsked \/ SecretGets \/ HostLooksUp \/ SecretReturns \/ SecretCallFails \/ PublishEvent
    \/ \E n \in 1..MaxAsks : HostAnswersFlag(n) \/ RefreshApplies(n) \/ RefreshFails(n)
    \/ \E n \in 1..MaxEvents : EventArrives(n) \/ EventLost(n)
    \/ \E granted, stored \in BOOLEAN : HostChanges(granted, stored)

\* An answer that is on its way is applied.
RemoteFairness == \A n \in 1..MaxAsks : WF_remoteVars(RefreshApplies(n))

RemoteSpec == RemoteInit /\ [][RemoteNext]_remoteVars /\ RemoteFairness

----------------------------------------------------------------------------
\* Types; and each event reaches the host at most once.
RemoteTypeOK ==
    /\ rsFlag \in Flags /\ rsTold \in {"on", "off"}
    /\ rsSecret # "none" => rsKind = "remote" \/ rsSecret = "other"
    /\ \A i, j \in 1..Len(rsArrived) : rsArrived[i] = rsArrived[j] => i = j
    /\ rsKind = "noop" => rsFlag = "unseen" /\ rsArrived = <<>>

\* A module is told that a feature is on only if its host granted it at some time:
\* not while the first answer is on its way, nor when it has no host.
OnlyGrantedIsOn == rsTold = "on" => rsKind = "remote" /\ rsEver

\* A module is told that a secret does not exist only if its host had none when it
\* looked: a failed store, a lost call or a missing host is another error.
AbsentIsAbsent == rsSecret = "notFound" => ~rsSeen

\* An answer of the host about the flag reaches the next question of the module.
AnswerIsKept == \A n \in 1..MaxAsks : (rsAsked[n] = "on" \/ rsAsked[n] = "off") ~> rsFlag # "unseen"
=============================================================================
