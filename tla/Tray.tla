-------------------------------- MODULE Tray --------------------------------
(***************************************************************************)
(* The tray's loop (penguin-tray daemon_loop.rs) as a client of            *)
(* EventStream: it renders a snapshot of the daemon once, subscribes to    *)
(* WatchEvents, renders again at every event, and polls when it has no     *)
(* stream.  A snapshot is abstracted to the number of events published     *)
(* when it was taken: the supervisor publishes each change under the lock  *)
(* that a snapshot reads.                                                  *)
(***************************************************************************)
EXTENDS EventStream, DaemonService, Sequences

CONSTANTS TrayStream, Unreachable

ASSUME TrayAssumption == TrayStream \in Streams /\ Unreachable \notin Nat

VARIABLES
    tray,    \* where run is
    fetched, \* the snapshot that render is fetching
    menu     \* the snapshot of the last menu sent to the shell

trayVars == <<tray, fetched, menu>>

TrayInit == Init /\ tray = "absent" /\ fetched = 0 /\ menu = Unreachable

\* The user starts the tray.
TrayStart ==
    /\ tray = "absent" /\ phase = "serving" /\ st[TrayStream].kind = "none"
    /\ tray' = "first"
    /\ UNCHANGED <<vars, fetched, menu>>

\* render: the first of fetch_snapshot's calls is answered.
FetchSnapshot ==
    /\ tray \in {"first", "render"} /\ phase = "serving"
    /\ tray' = IF tray = "first" THEN "firstFetch" ELSE "fetch"
    /\ fetched' = Len(events)
    /\ UNCHANGED <<vars, menu>>

AfterRender == IF tray \in {"first", "firstFetch"} THEN "subscribe" ELSE "select"

\* render: the menu is built and sent.
Rendered ==
    /\ tray \in {"firstFetch", "fetch"}
    /\ menu' = fetched
    /\ tray' = AfterRender
    /\ UNCHANGED <<vars, fetched>>

\* render: a call fails or RPC_TIMEOUT passes.
RenderedUnreachable ==
    /\ tray \in {"first", "firstFetch", "render", "fetch"}
    /\ menu' = Unreachable
    /\ tray' = AfterRender
    /\ UNCHANGED <<vars, fetched>>

\* subscribe: WatchEvents for all modules, or no stream at all.
Subscribe ==
    /\ tray = "subscribe"
    /\ \/ WatchEvents(TrayStream, All)
       \/ UNCHANGED vars
    /\ tray' = "select"
    /\ UNCHANGED <<fetched, menu>>

\* run's select: an event arrived.
Received ==
    /\ tray = "select" /\ Deliver(TrayStream)
    /\ tray' = "render"
    /\ UNCHANGED <<fetched, menu>>

\* run's select: the stream ended, or failed with the connection.
StreamLost ==
    /\ tray = "select"
    /\ EndOfStream(TrayStream) \/ Disconnect(TrayStream)
    /\ UNCHANGED trayVars

\* run's select: the poll ticker, which only counts without a stream, or a
\* click, which is applied and rendered.
PollTick ==
    /\ tray = "select" /\ ~st[TrayStream].open
    /\ tray' = "render"
    /\ UNCHANGED <<vars, fetched, menu>>

Click ==
    /\ tray = "select"
    /\ tray' = "render"
    /\ UNCHANGED <<vars, fetched, menu>>

\* Action::Quit: run returns and drops its stream.
Quit ==
    /\ tray = "select"
    /\ \/ Disconnect(TrayStream)
       \/ ~st[TrayStream].open /\ UNCHANGED vars
    /\ tray' = "quit"
    /\ UNCHANGED <<fetched, menu>>

\* The daemon's own steps, and those of other clients on other streams (on the
\* tray's when there is no tray).
Elsewhere ==
    /\ \/ AppendLine \/ Signal \/ Drained \/ Stopped
       \/ \E m \in Modules : Publish(m)
       \/ \E s \in Streams :
             ReadBacklog(s) \/ Forward(s) \/ Receive(s) \/ BacklogSent(s)
       \/ \E s \in Streams :
             /\ s # TrayStream \/ tray = "absent"
             /\ \/ \E f \in Modules \cup {All} : WatchEvents(s, f)
                \/ \E ask \in Asks, follow \in BOOLEAN : TailLogs(s, ask, follow)
                \/ Deliver(s) \/ EndOfStream(s) \/ Disconnect(s)
    /\ UNCHANGED trayVars

TrayNext ==
    \/ TrayStart \/ FetchSnapshot \/ Rendered \/ RenderedUnreachable
    \/ Subscribe \/ Received \/ StreamLost \/ PollTick \/ Click \/ Quit
    \/ Elsewhere

allVars == <<vars, trayVars>>

TraySpec == TrayInit /\ [][TrayNext]_allVars

\* EventStream's fairness for a stream that the tray reads, the tray's own
\* steps (every call has a timeout), and its ticker.  tokio's select! draws among
\* the branches that are ready, so a branch that is ready again and again is
\* taken even if the user keeps clicking.
TrayFairness ==
    /\ \A s \in Streams :
          /\ WF_allVars(ReadBacklog(s) /\ UNCHANGED trayVars)
          /\ WF_allVars(BacklogSent(s) /\ UNCHANGED trayVars)
          /\ WF_allVars(Forward(s) /\ UNCHANGED trayVars)
          /\ WF_allVars(Receive(s) /\ UNCHANGED trayVars)
    /\ WF_allVars(tray = "absent" /\ Deliver(TrayStream) /\ UNCHANGED trayVars)
    /\ WF_allVars(tray = "absent" /\ EndOfStream(TrayStream) /\ UNCHANGED trayVars)
    /\ \A s \in Streams \ {TrayStream} :
          /\ WF_allVars(Deliver(s) /\ UNCHANGED trayVars)
          /\ WF_allVars(EndOfStream(s) /\ UNCHANGED trayVars)
    /\ WF_allVars(Drained /\ UNCHANGED trayVars)
    /\ WF_allVars(FetchSnapshot \/ Rendered \/ RenderedUnreachable)
    /\ WF_allVars(Subscribe) /\ WF_allVars(PollTick)
    /\ SF_allVars(Received)
    /\ SF_allVars(tray = "select" /\ EndOfStream(TrayStream) /\ UNCHANGED trayVars)

FairTraySpec == TraySpec /\ TrayFairness

\* Events published after the first snapshot and before the subscription
\* reach nobody: run renders, and only then subscribes.
MissedBeforeSubscribing ==
    /\ st[TrayStream].open
    /\ menu < st[TrayStream].since
    /\ Len(events) = st[TrayStream].since

\* Once the daemon's modules stop changing, the menu of a tray that keeps
\* running shows them as they are (or says that it could not ask), whether it
\* is driven by events or, after its stream lagged, by the poll: the only
\* events it can miss for good are those of the gap in run between the first
\* render and the subscription.
TrayCatchesUp ==
    <>[](\/ phase # "serving" \/ tray \in {"absent", "quit"}
         \/ menu \in {Len(events), Unreachable}
         \/ MissedBeforeSubscribing)

(***************************************************************************)
(* The tray's menu: three calls are joined into a snapshot (snapshot.rs),  *)
(* the snapshot becomes a menu (penguin-tray-model), the menu goes to the  *)
(* shell of the platform (tray_linux.rs, tray_native.rs), and a click on   *)
(* one of its items becomes a call (daemon_loop.rs).  When the loop        *)
(* renders again is Tray's subject; here it may do so at any time.         *)
(***************************************************************************)

CONSTANTS
    MaxRenders,  \* bound: renders of one tray
    MaxClicks    \* bound: clicks

ASSUME TrayMenuAssumption == {MaxRenders, MaxClicks} \subseteq Nat

VARIABLES
    tmShell,   \* "linux" or "native"
    tmAt,      \* where the loop is
    tmJoin,    \* the answers so far: rows, health, commands
    tmMenu,    \* the menu that render is about to send
    tmChannel, \* menus and native click events on their way to the shell
    tmShown,   \* the menu on the screen, and which one it is
    tmIds,     \* the menu whose items action_by_id knows, and which one it is
    tmActions, \* the action channel: what the item said, and what is to be done
    tmQuit,    \* history: Quit was clicked, and the shell took it for Quit
    tmCount    \* renders and clicks so far

trayMenuVars == <<tmShell, tmAt, tmJoin, tmMenu, tmChannel, tmShown, tmIds, tmActions, tmQuit, tmCount>>
shellVars == <<tmShell, tmChannel, tmShown, tmIds, tmActions, tmQuit>>

NothingJoined == [rows |-> NoRows, health |-> {}, commands |-> {}]
NoMenu == [gen |-> 0, kind |-> "unreachable", rows |-> {}]

TrayMenuInit ==
    /\ tmShell \in {"linux", "native"} /\ tmAt = "connect" /\ tmJoin = NothingJoined /\ tmMenu = NoMenu
    /\ tmChannel = <<>> /\ tmShown = NoMenu /\ tmIds = NoMenu /\ tmActions = <<>> /\ tmQuit = FALSE
    /\ tmCount = [renders |-> 0, clicks |-> 0]

-----------------------------------------------------------------------------
\* render.

Connects ==
    /\ tmAt = "connect" /\ UNCHANGED <<tmJoin, tmMenu, shellVars, tmCount>> /\ UNCHANGED serviceApiVars
    /\ tmAt' = IF dsUp THEN "idle" ELSE "gone"

\* At the start, at an event, at a poll, and after a click.
Render ==
    /\ tmAt = "idle" /\ tmCount.renders < MaxRenders /\ dsCall = NoRpc
    /\ tmCount' = [tmCount EXCEPT !.renders = @ + 1] /\ tmAt' = "modules" /\ tmJoin' = NothingJoined
    /\ Watched /\ Request("modules", AllModules) /\ UNCHANGED <<tmMenu, shellVars>>

\* fetch_snapshot: list_modules, then get_status, then list_commands.
SnapshotGoesOn ==
    /\ Answered /\ UNCHANGED <<tmMenu, shellVars, tmCount>> /\ UNCHANGED <<tableVars, dsRan>>
    /\ \/ tmAt = "modules" /\ tmAt' = "status" /\ tmJoin' = [tmJoin EXCEPT !.rows = dsCall.rows]
          /\ Request("status", AllModules)
       \/ tmAt = "status" /\ tmAt' = "commands" /\ tmJoin' = [tmJoin EXCEPT !.health = dsCall.got]
          /\ Request("commands", AllModules)
       \/ tmAt = "commands" /\ tmAt' = "joined" /\ tmJoin' = [tmJoin EXCEPT !.commands = dsCall.got] /\ HangUp

\* Mutant: everything that is listed has the commands.
CommandsListed(n) == TRUE
\* join_snapshot: by name; a module that the second or third answer leaves out has
\* no health, or no commands.
CommandsOf(n) == n \in tmJoin.commands

\* build_menu.  A module's row offers Unload unless it is disabled, and its commands.
JoinedRow(n) ==
    [name |-> n, loaded |-> tmJoin.rows[n] # "disabled", health |-> n \in tmJoin.health,
     commands |-> CommandsOf(n) /\ n \notin Silent]
MenuBuilt ==
    /\ tmAt = "joined" /\ tmAt' = "send" /\ tmJoin' = NothingJoined
    /\ UNCHANGED <<shellVars, tmCount>> /\ UNCHANGED serviceApiVars
    /\ tmMenu' = [gen |-> tmCount.renders, kind |-> "connected", rows |-> {JoinedRow(n) : n \in DOMAIN tmJoin.rows}]

\* A call fails, or RPC_TIMEOUT passes: the menu has no rows, and still a footer.
UnreachableBuilt ==
    /\ tmAt \in {"modules", "status", "commands"} /\ HangUp /\ tmAt' = "send" /\ tmJoin' = NothingJoined
    /\ tmMenu' = [NoMenu EXCEPT !.gen = tmCount.renders]
    /\ UNCHANGED <<shellVars, tmCount>> /\ UNCHANGED <<tableVars, dsRan>>

MenuSent ==
    /\ tmAt = "send" /\ tmAt' = "idle" /\ tmChannel' = Append(tmChannel, [kind |-> "menu", menu |-> tmMenu])
    /\ tmMenu' = NoMenu /\ Watched
    /\ UNCHANGED <<tmJoin, tmShell, tmShown, tmIds, tmActions, tmQuit, tmCount, dsCall>>

-----------------------------------------------------------------------------
\* The shells.

\* The items of a menu that can be clicked, and the place of each in it: Load and
\* Unload are the first of a module's, whichever it is.
LoadUnloadItem(r) == <<IF r.loaded THEN "unload" ELSE "load", r.name>>
TrayItems(r) == IF r.commands THEN {<<"dispatch", r.name>>} ELSE {}
FooterItems == {<<"refresh", AllModules>>, <<"quit", AllModules>>}
Items(m) == FooterItems \cup UNION {{LoadUnloadItem(r)} \cup TrayItems(r) : r \in m.rows}
Place(item) == IF item[1] \in {"load", "unload"} THEN <<"first", item[2]>> ELSE item

\* A native item gets an id of its own when it is made.
IdOf(m, item) == <<m.gen, Place(item)>>

\* The menu arrives.  On Linux it is the tray's menu; natively action_by_id is made
\* anew and the icon is given the menu, which may fail.
MenuArrives ==
    /\ tmAt # "gone" /\ tmChannel # <<>> /\ Head(tmChannel).kind = "menu" /\ tmChannel' = Tail(tmChannel)
    /\ tmIds' = Head(tmChannel).menu
    /\ \/ tmShown' = Head(tmChannel).menu
       \/ tmShell = "native" /\ tmShown' = tmShown
    /\ UNCHANGED <<tmAt, tmJoin, tmMenu, tmShell, tmActions, tmQuit, tmCount>> /\ UNCHANGED serviceApiVars

\* The user clicks.  On Linux the item's own closure sends its action; natively the
\* id is an event, which waits behind the menus that are on their way.
UserClicks(item) ==
    /\ tmAt # "gone" /\ tmCount.clicks < MaxClicks /\ item \in Items(tmShown)
    /\ tmCount' = [tmCount EXCEPT !.clicks = @ + 1]
    /\ IF tmShell = "linux"
       THEN /\ tmActions' = Append(tmActions, [said |-> item, does |-> item])
            /\ tmQuit' = (tmQuit \/ item[1] = "quit") /\ UNCHANGED tmChannel
       ELSE /\ tmChannel' = Append(tmChannel, [kind |-> "click", said |-> item, id |-> IdOf(tmShown, item)])
            /\ UNCHANGED <<tmActions, tmQuit>>
    /\ UNCHANGED <<tmAt, tmJoin, tmMenu, tmShell, tmShown, tmIds>> /\ UNCHANGED serviceApiVars

\* NativeTrayState::dispatch: an id that is not in action_by_id is nobody's; Quit
\* ends the event loop, and with it the process.
ClickArrives ==
    /\ tmAt # "gone" /\ tmChannel # <<>> /\ Head(tmChannel).kind = "click" /\ tmChannel' = Tail(tmChannel)
    /\ LET click == Head(tmChannel)
           found == {i \in Items(tmIds) : IdOf(tmIds, i) = click.id}
       IN  \/ found = {} /\ UNCHANGED <<tmActions, tmQuit, tmAt>>
           \/ \E i \in found :
                /\ tmActions' = Append(tmActions, [said |-> click.said, does |-> i])
                /\ tmQuit' = (tmQuit \/ i[1] = "quit")
                /\ tmAt' = IF i[1] = "quit" THEN "gone" ELSE tmAt
    /\ UNCHANGED <<tmJoin, tmMenu, tmShell, tmShown, tmIds, tmCount>> /\ UNCHANGED serviceApiVars

-----------------------------------------------------------------------------
\* The loop's actions.

\* action_to_request and the loop: Quit returns, Refresh only renders.
ActionStep(kind) == CASE kind = "quit" -> "gone" [] kind = "refresh" -> "idle" [] OTHER -> "act"

ActionTaken ==
    /\ tmAt = "idle" /\ tmActions # <<>> /\ dsCall = NoRpc /\ tmActions' = Tail(tmActions)
    /\ LET item == Head(tmActions).does
       IN  /\ tmAt' = ActionStep(item[1])
           /\ IF tmAt' = "act" THEN Request(item[1], item[2]) ELSE UNCHANGED dsCall
    /\ UNCHANGED <<tmJoin, tmMenu, tmShell, tmChannel, tmShown, tmIds, tmQuit, tmCount>>
    /\ UNCHANGED <<tableVars, dsRan>>

\* apply_action: answered, refused or timed out, the outcome is not looked at.
ActionEnds ==
    /\ tmAt = "act" /\ HangUp /\ tmAt' = "idle"
    /\ UNCHANGED <<tmJoin, tmMenu, shellVars, tmCount>> /\ UNCHANGED <<tableVars, dsRan>>

TrayLoopStep ==
    \/ Connects \/ SnapshotGoesOn \/ MenuBuilt \/ UnreachableBuilt \/ MenuSent \/ ActionTaken \/ ActionEnds

TrayMenuNext ==
    \/ TrayLoopStep \/ Render \/ MenuArrives \/ ClickArrives
    \/ \E item \in Items(tmShown) : UserClicks(item)
    \/ ServiceApiStep /\ UNCHANGED trayMenuVars

TrayMenuFairness == WF_<<trayMenuVars, serviceApiVars>>(TrayLoopStep)

TrayMenuSpec == TrayMenuInit /\ ServiceApiInit /\ [][TrayMenuNext]_<<trayMenuVars, serviceApiVars>> /\ TrayMenuFairness

-----------------------------------------------------------------------------
\* Types; and an action is what its item said: a click on a menu that has been
\* replaced meanwhile does what was clicked or nothing, never what the new menu has
\* in its place.
TrayMenuTypeOK ==
    /\ tmAt \in {"connect", "idle", "modules", "status", "commands", "joined", "send", "act", "gone"}
    /\ tmShell = "linux" => tmShown = tmIds
    /\ \A i \in 1..Len(tmActions) : tmActions[i].said = tmActions[i].does

\* Three answers of three moments make one menu, and still a module that was loaded
\* while they were given can be unloaded and has its commands, and one that never
\* was has neither health nor commands and can be loaded.
MenuIsSnapshot ==
    tmAt = "send" /\ tmMenu.kind = "connected" =>
        /\ \A n \in dsAlways : \E r \in tmMenu.rows : r.name = n /\ r.loaded /\ (n \notin Silent => r.commands)
        /\ \A r \in tmMenu.rows : r.name \notin dsSeen => ~r.loaded /\ ~r.health /\ ~r.commands

\* A Quit that the shell took ends the tray, whatever calls are under way.
QuitEnds == tmQuit ~> tmAt = "gone"
=============================================================================
