----------------------------- MODULE MCClients -----------------------------
(***************************************************************************)
(* The daemon's clients: streams with the tray's loop on one of them, the  *)
(* tray's menu, the command line, and what it makes of its words.  A       *)
(* behaviour exercises one of them; the menu and the command line share    *)
(* the daemon's table.                                                     *)
(***************************************************************************)
EXTENDS Tray, Cli

CONSTANTS s1, a, b

MCStreams == {s1}
MCModules == {a, b}

VARIABLE part

streamPart == <<vars, trayVars>>
menuPart == <<serviceApiVars, trayMenuVars>>
MCVars == <<part, streamPart, menuPart, cliVars, lineVars>>

\* A part that is not exercised stays in one of its initial states (or, a line, is
\* over).  The menu begins with one of two modules loaded: a change, or a click, then
\* loads the other or unloads it.
MCInit ==
    /\ part \in {"streams", "menu", "cli", "line"}
    /\ TrayInit /\ CliInit /\ TrayMenuInit /\ ServiceApiInit
    /\ IF part = "menu" THEN dsUp => Cardinality(Loaded) = 1 ELSE tmShell = "linux"
    /\ part \in {"streams", "line"} => ~dsUp
    /\ IF part = "line" THEN LineInit ELSE ln = [at |-> "rejected"]
    /\ dsChanges = IF part = "menu" THEN MaxChanges - 1 ELSE 0

\* The last disjunct: an invocation ends, and a tray whose user does nothing more
\* rests; the streams have to go on until the daemon has stopped.
MCNext ==
    /\ \/ part = "streams" /\ TrayNext /\ UNCHANGED <<menuPart, cliVars, lineVars>>
       \/ part = "menu" /\ TrayMenuNext /\ UNCHANGED <<streamPart, cliVars, lineVars>>
       \/ part = "cli" /\ CliNext /\ UNCHANGED <<streamPart, trayMenuVars, lineVars>>
       \/ part = "line" /\ LineNext /\ UNCHANGED <<streamPart, menuPart, cliVars>>
       \/ part # "streams" /\ UNCHANGED <<streamPart, menuPart, cliVars, lineVars>>
    /\ UNCHANGED part

\* No step that Tray is fair to is enabled in its initial state, so its fairness
\* asks nothing of the other parts.
MCSpec ==
    /\ MCInit /\ [][MCNext]_MCVars
    /\ TrayFairness /\ WF_menuPart(part = "menu" /\ TrayLoopStep)

-----------------------------------------------------------------------------
\* Streams (service.rs, broker.rs, logring.rs): a watcher gets exactly the events it
\* asked for, a tail has no hole and repeats a line only in the race between the
\* subscription and the backlog, and the backlog is the newest lines.
StreamsAreExact == TypeOK /\ WatchIsExact /\ TailHasNoGap /\ TwiceOnlyInTheRace /\ BacklogIsNewest

\* pdcli: its exit code tells what the daemon did, what it lists was so at one moment
\* of the call per module, it dials the socket that its words name, and a module gets
\* arguments that it declared.
CommandLineIsTruthful ==
    /\ CliTypeOK /\ ExitTellsOutcome /\ ListingsAreCurrent
    /\ LineTypeOK /\ DialledIsParsed /\ GivenFitsSpec

\* The tray's menu shows the snapshot it was made from, with one item per identifier.
MenuIsTrue == TrayMenuTypeOK /\ MenuIsSnapshot

\* What clients wait for comes: a follower hears what is published, a drain ends once
\* the clients let go of their streams, the tray's menu catches up, Quit quits.
ClientsAreServed == FollowersHear /\ DrainEnds /\ TrayCatchesUp /\ QuitEnds
=============================================================================
