----------------------------- MODULE HubCommands -----------------------------
(***************************************************************************)
(* The waddlebot commands (commands.rs) and the hub client they call       *)
(* (waddlebot-client): a command checks its arguments, takes the client of *)
(* the active community, makes its hub calls and exits 0 or 1; the bridge  *)
(* relays operations the same way (bridge/relay.rs).  Commands run         *)
(* concurrently, `community use` swaps the client under them, and a hub    *)
(* call may be carried out and its answer lost.                            *)
(***************************************************************************)
EXTENDS Integers, Sequences, FiniteSets

CONSTANTS
    Runs,        \* command invocations
    Communities  \* community ids; one is active at first

\* A command: the arguments it cannot do without (an id, a user id and a
\* payload must also parse) and the hub calls it makes, in order.
Entry(name, needs, calls) == [name |-> name, needs |-> needs, calls |-> calls]

StatusCommand == {Entry("status", {}, <<>>)}

CommunityCommands ==
    {Entry("community list", {}, <<"list_my_communities">>), Entry("community use", {"id"}, <<>>)}

\* Any flag but json turns `music settings` into an update.
MusicSettings ==
    {Entry("music settings", {}, <<"get_music_settings">>), Entry("music settings update", {}, <<"update_music_settings">>)}
MusicProvider ==
    {Entry("music provider list", {}, <<"list_music_providers">>),
     Entry("music provider disconnect", {"name"}, <<"disconnect_music_provider">>)}
MusicStation ==
    {Entry("music station list", {}, <<"list_radio_stations">>),
     Entry("music station add", {"name", "url"}, <<"add_radio_station">>),
     Entry("music station remove", {"id"}, <<"remove_radio_station">>)}

BrowserSources ==
    {Entry("browser-sources list", {}, <<"list_browser_sources">>),
     Entry("browser-sources regenerate", {}, <<"regenerate_browser_sources">>)}

TokenReads == {Entry("token list", {}, <<"list_cats">>), Entry("token scopes", {}, <<"list_scopes">>)}
TokenCreate == {Entry("token create", {"name"}, <<"create_cat">>)}
TokenRevoke == {Entry("token revoke", {"id"}, <<"revoke_cat">>)}
\* rotate_cat: the old token is revoked first.
TokenRotate == {Entry("token rotate", {"id", "name"}, <<"revoke_cat", "create_cat">>)}

AnnounceReads ==
    {Entry("announce list", {}, <<"list_announcements">>), Entry("announce show", {"id"}, <<"get_announcement">>)}
AnnounceWrites ==
    {Entry("announce create", {"title", "content"}, <<"create_announcement">>),
     Entry("announce publish", {"id"}, <<"publish_announcement">>)}

Workflow ==
    {Entry("workflow list", {}, <<"list_workflows">>),
     Entry("workflow show", {"name"}, <<"get_workflow">>),
     Entry("workflow create", {"payload"}, <<"create_workflow">>),
     Entry("workflow update", {"name", "payload"}, <<"update_workflow">>),
     Entry("workflow delete", {"name"}, <<"delete_workflow">>)}

\* A payload turns `loyalty config` into an update.
Loyalty ==
    {Entry("loyalty config", {}, <<"get_loyalty_config">>),
     Entry("loyalty config update", {"payload"}, <<"update_loyalty_config">>),
     Entry("loyalty adjust", {"user id", "payload"}, <<"adjust_loyalty_balance">>)}

\* What the bridge relays for a script: the client is taken as for a command, and
\* an answer of 200 is its exit 0.
RelayReads ==
    {Entry("status", {}, <<"list_my_communities">>), Entry("music.get", {}, <<"get_music_settings">>),
     Entry("announcements.list", {}, <<"list_announcements">>),
     Entry("browser_sources.list", {}, <<"list_browser_sources">>)}
RelayMusic == {Entry("music.update", {}, <<"update_music_settings">>)}
RelayAnnouncement == {Entry("announcements.create", {"title", "content"}, <<"create_announcement">>)}
Operations == RelayReads \cup RelayMusic \cup RelayAnnouncement

CommandTree ==
    StatusCommand \cup CommunityCommands \cup MusicSettings \cup MusicProvider \cup MusicStation
      \cup BrowserSources \cup TokenReads \cup TokenCreate \cup TokenRevoke \cup TokenRotate
      \cup AnnounceReads \cup AnnounceWrites \cup Workflow \cup Loyalty

\* The client's methods that change something at the hub; the others read.
SourceWrites == {"regenerate_browser_sources"}
TokenWrites == {"create_cat", "revoke_cat"}
MusicWrites ==
    {"update_music_settings", "disconnect_music_provider", "add_radio_station", "remove_radio_station"}
AnnouncementWrites == {"create_announcement", "publish_announcement"}
WorkflowWrites == {"create_workflow", "update_workflow", "delete_workflow"}
LoyaltyWrites == {"update_loyalty_config", "adjust_loyalty_balance"}
Writes == SourceWrites \cup TokenWrites \cup MusicWrites \cup AnnouncementWrites
            \cup WorkflowWrites \cup LoyaltyWrites

VARIABLES
    hcClient,    \* the community the module's client was built for
    hcCommunity, \* the module's community_id
    hcRun,       \* per invocation: where it is
    hcHub,       \* what the hub has carried out: invocation, call number, community
    hcLost,      \* ghost: invocations that lost the answer to a carried-out call
    hcOverlap    \* ghost: two `community use` overlapped
commandVars == <<hcClient, hcCommunity, hcRun, hcHub, hcLost, hcOverlap>>

NotRun == [pc |-> "idle"]

CommandInit ==
    /\ hcClient \in Communities /\ hcCommunity = hcClient
    /\ hcRun = [r \in Runs |-> NotRun]
    /\ hcHub = {} /\ hcLost = {} /\ hcOverlap = FALSE

Exit(r, code) == hcRun' = [hcRun EXCEPT ![r] = [@ EXCEPT !.pc = "exited", !.code = code]]

Complete(e, missing) == missing \cap e.needs = {}

\* dispatch: an unknown command and a missing or unparsable argument are usage
\* errors; otherwise the client is taken once, for all the command's calls.
Dispatch(r, e, missing) ==
    /\ hcRun[r] = NotRun
    /\ hcRun' = [hcRun EXCEPT ![r] =
         [entry |-> e, missing |-> missing, client |-> hcClient, next |-> 1, code |-> -1,
          pc |-> IF Complete(e, missing) THEN "calling" ELSE "usage"]]
    /\ UNCHANGED <<hcClient, hcCommunity, hcHub, hcLost, hcOverlap>>

UsageError(r) ==
    /\ hcRun[r].pc = "usage" /\ Exit(r, 1)
    /\ UNCHANGED <<hcClient, hcCommunity, hcHub, hcLost, hcOverlap>>

CallsIn(run) == run.client

Carry(r) == hcHub' = hcHub \cup {[run |-> r, call |-> hcRun[r].next, in |-> CallsIn(hcRun[r])]}

\* One hub call (module.call, WaddlebotClient::execute): carried out and
\* answered; or refused (a 401, 403 or another status); or the answer is lost or
\* does not decode, after the hub did or did not carry it out.
HubCall(r) ==
    LET run == hcRun[r] IN
    /\ run.pc = "calling" /\ run.next <= Len(run.entry.calls)
    /\ \/ Carry(r) /\ hcRun' = [hcRun EXCEPT ![r].next = @ + 1] /\ UNCHANGED hcLost
       \/ Exit(r, 1) /\ UNCHANGED <<hcHub, hcLost>>
       \/ Exit(r, 1) /\ Carry(r) /\ hcLost' = hcLost \cup {r}
    /\ UNCHANGED <<hcClient, hcCommunity, hcOverlap>>

AllAnswered(run) == run.next > Len(run.entry.calls)

Succeeds(r) ==
    /\ hcRun[r].pc = "calling" /\ AllAnswered(hcRun[r]) /\ hcRun[r].entry.name # "community use"
    /\ Exit(r, 0)
    /\ UNCHANGED <<hcClient, hcCommunity, hcHub, hcLost, hcOverlap>>

Switching(r) == hcRun[r].pc \in {"switched"}

\* set_community, first half: the new client.
SwitchClient(r, id) ==
    /\ hcRun[r].pc = "calling" /\ hcRun[r].entry.name = "community use"
    /\ hcClient' = id
    /\ hcRun' = [hcRun EXCEPT ![r].pc = "switched", ![r].client = id]
    /\ hcOverlap' = (hcOverlap \/ \E q \in Runs \ {r} : Switching(q))
    /\ UNCHANGED <<hcCommunity, hcHub, hcLost>>

StoredId(run) == run.client

\* set_community, second half: the id.
SwitchId(r) ==
    /\ Switching(r)
    /\ hcCommunity' = StoredId(hcRun[r])
    /\ Exit(r, 0)
    /\ UNCHANGED <<hcClient, hcHub, hcLost, hcOverlap>>

CommandNext ==
    \E r \in Runs :
        \/ \E e \in CommandTree \cup Operations : \E missing \in {{}} \cup {{n} : n \in e.needs} : Dispatch(r, e, missing)
        \/ UsageError(r) \/ HubCall(r) \/ Succeeds(r) \/ SwitchId(r)
        \/ \E id \in Communities : SwitchClient(r, id)

CommandSpec == CommandInit /\ [][CommandNext]_commandVars

(***************************************************************************)
(* Properties.                                                             *)
(***************************************************************************)

Carried(r) == {h \in hcHub : h.run = r}
Changed(r) == {h \in Carried(r) : hcRun[r].entry.calls[h.call] \in Writes}

\* Types; the hub carries out no more than the commands ask for.
CommandTypeOK ==
    /\ hcClient \in Communities /\ hcCommunity \in Communities
    /\ hcLost \subseteq Runs /\ hcOverlap \in BOOLEAN
    /\ \A h \in hcHub : h.in \in Communities /\ h.call \in 1..Len(hcRun[h.run].entry.calls)
    /\ \A r \in Runs : hcRun[r].pc \in {"idle", "usage", "calling", "switched", "exited"}

\* Exit code 0 means that every call of the command was carried out; a usage
\* error means that none was.
ExitZeroMeansDone ==
    \A r \in Runs :
        /\ hcRun[r].pc = "exited" /\ hcRun[r].code = 0 => Cardinality(Carried(r)) = Len(hcRun[r].entry.calls)
        /\ hcRun[r].pc = "usage" => Carried(r) = {}

\* A command that failed has changed nothing, unless the answer to a call was
\* lost, or it is `token rotate`, which has revoked the old token by the time it
\* fails to create the new one.
FailureIsClean ==
    \A r \in Runs :
        hcRun[r].pc = "exited" /\ hcRun[r].code = 1 /\ Changed(r) # {}
            => \/ r \in hcLost
               \/ /\ hcRun[r].entry.name = "token rotate" /\ hcRun[r].missing = {}
                  /\ {hcRun[r].entry.calls[h.call] : h \in Changed(r)} = {"revoke_cat"}

\* The calls of one command go to one community, however `community use` and the
\* command interleave (the client is an Arc taken once).
OneCommunityPerCommand ==
    \A r \in Runs : Cardinality({h.in : h \in Carried(r)}) <= 1

\* The client and the community shown by status agree whenever no switch is
\* half done, unless two switches overlapped (set_community stores the two
\* without a common lock).
ClientMatchesId ==
    (\A r \in Runs : ~Switching(r)) => hcClient = hcCommunity \/ hcOverlap

(***************************************************************************)
(* The waddlebot module's view of the hub (probe_auth, status and health   *)
(* in module.rs): the last probe is reused for AUTH_CACHE_TTL, a new one   *)
(* takes at most AUTH_PROBE_TIMEOUT, and no lock is held while it is       *)
(* awaited, so several may be under way.                                   *)
(***************************************************************************)

CONSTANTS
    Askers,   \* concurrent status and health calls
    TTL,      \* AUTH_CACHE_TTL and AUTH_PROBE_TIMEOUT, in ticks
    Timeout,
    MaxTime   \* bound: ticks

ASSUME ProbeAssumption == TTL \in Nat \ {0} /\ Timeout \in Nat /\ MaxTime \in Nat

HubStates == {"ok", "unauthorized", "unreachable"}

VARIABLES
    apNow,    \* the clock
    apHub,    \* the hub as a probe finds it
    apLast,   \* per hub state: when the hub was last in it
    apCache,  \* last_probe: state and checked_at; checked_at is -TTL before the first
    apAsker,  \* per call: idle, or since when its probe is under way
    apReport  \* what the last status or health call reported, and when
probeVars == <<apNow, apHub, apLast, apCache, apAsker, apReport>>

ProbeInit ==
    /\ apNow = 0 /\ apHub \in HubStates
    /\ apLast = [s \in HubStates |-> IF s = apHub THEN 0 ELSE -TTL - Timeout - 1]
    /\ apCache = [state |-> "unreachable", at |-> -TTL]
    /\ apAsker = [a \in Askers |-> -1]
    /\ apReport = [state |-> apHub, at |-> 0]

\* The hub changes: its token is revoked, it goes down, it comes back.
HubChanges(s) ==
    /\ s # apHub
    /\ apHub' = s /\ apLast' = [apLast EXCEPT ![s] = apNow]
    /\ UNCHANGED <<apNow, apCache, apAsker, apReport>>

Fresh == apNow - apCache.at < TTL

\* A call that finds a fresh probe reports it.
AskCached(a) ==
    /\ apAsker[a] = -1 /\ Fresh
    /\ apReport' = [state |-> apCache.state, at |-> apNow]
    /\ UNCHANGED <<apNow, apHub, apLast, apCache, apAsker>>

\* Otherwise it starts a probe, without a lock.
AskHub(a) ==
    /\ apAsker[a] = -1 /\ ~Fresh
    /\ apAsker' = [apAsker EXCEPT ![a] = apNow]
    /\ UNCHANGED <<apNow, apHub, apLast, apCache, apReport>>

\* Mutant: a probe is dated from when it was begun.
DatedFromStart(a) == apAsker[a]
DatedNow(a) == apNow

\* The hub answers: the probe is stored, dated now, and reported.
ProbeAnswered(a) ==
    /\ apAsker[a] >= 0
    /\ apCache' = [state |-> apHub, at |-> DatedNow(a)]
    /\ apReport' = [state |-> apHub, at |-> apNow]
    /\ apAsker' = [apAsker EXCEPT ![a] = -1]
    /\ UNCHANGED <<apNow, apHub, apLast>>

\* A second passes; a probe is over after Timeout (an unreachable hub is one
\* that does not answer in time), so the clock waits for the ones that are due.
Tick ==
    /\ apNow < MaxTime
    /\ \A a \in Askers : apAsker[a] >= 0 => apNow - apAsker[a] < Timeout
    /\ apNow' = apNow + 1
    /\ apLast' = [apLast EXCEPT ![apHub] = apNow + 1]
    /\ UNCHANGED <<apHub, apCache, apAsker, apReport>>

ProbeNext ==
    \/ Tick \/ \E s \in HubStates : HubChanges(s)
    \/ \E a \in Askers : AskCached(a) \/ AskHub(a) \/ ProbeAnswered(a)

ProbeSpec == ProbeInit /\ [][ProbeNext]_probeVars

\* Types; the cache is never dated in the future.
ProbeTypeOK ==
    /\ apNow \in 0..MaxTime /\ apHub \in HubStates
    /\ apCache.state \in HubStates /\ apCache.at \in -TTL..apNow
    /\ apAsker \in [Askers -> -1..apNow] /\ apReport.state \in HubStates

\* What status and health report is what the hub was less than AUTH_CACHE_TTL
\* ago, however probes, cached answers and changes of the hub interleave.
ReportIsRecent == apReport.at - apLast[apReport.state] < TTL

\* The cache does not go back in time: a probe that finishes late never replaces
\* a later one's date with an earlier one.
CacheMovesForward == [][apCache'.at >= apCache.at]_probeVars
=============================================================================
