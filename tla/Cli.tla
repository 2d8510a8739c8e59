-------------------------------- MODULE Cli --------------------------------
(***************************************************************************)
(* pdcli (bins/pdcli and penguin-cli-core): it dials the daemon, asks it   *)
(* for the modules' commands, builds the command tree of the static verbs  *)
(* and of what it got, parses the command line with it, makes the calls of *)
(* the verb, and turns their outcome into an exit code.                    *)
(***************************************************************************)
EXTENDS DaemonService, Sequences, SequencesExt

VARIABLE cl   \* the invocation

cliVars == <<cl>>

StaticVerbs == {"version", "modules", "load", "unload", "status", "logs", "update"}
NotRun == [at |-> "idle", verb |-> "none", name |-> AllModules, yes |-> FALSE, client |-> FALSE, tree |-> {},
           found |-> FALSE, shown |-> {}, mute |-> {}, code |-> 0, exit |-> 0, asked |-> FALSE]

CliInit == cl = NotRun

Goes(at) == cl' = [cl EXCEPT !.at = at]
Exits(code) == cl' = [cl EXCEPT !.at = "done", !.exit = code]
KeepService == UNCHANGED serviceApiVars
KeepTable == UNCHANGED <<tableVars, dsRan>>

-----------------------------------------------------------------------------
\* run, up to the verb.

\* A command line: --version alone, nothing, a static verb or a module's command.
\* A module's command is written as its name; if that is the name of a static verb,
\* the words after it are that verb's arguments.
Invoke(verb, name, yes) ==
    /\ cl.at \in {"idle", "done"} /\ dsCall = NoRpc /\ Watched /\ UNCHANGED dsCall
    /\ cl' = [NotRun EXCEPT !.at = IF verb = "flag" THEN "done" ELSE "dial",
                            !.verb = IF verb = "dispatch" /\ name \in StaticVerbs THEN name ELSE verb,
                            !.name = IF verb = "dispatch" /\ name \in StaticVerbs THEN Ghost ELSE name,
                            !.yes = yes]

\* dial: no connection within DIAL_TIMEOUT is not an error yet.
Dial ==
    /\ cl.at = "dial" /\ KeepTable
    /\ \/ dsUp /\ cl' = [cl EXCEPT !.at = "discover", !.client = TRUE] /\ Request("commands", AllModules)
       \/ Goes("parse") /\ UNCHANGED dsCall

\* graft_modules: modules with commands whose name is not taken.
Grafted(names) == (names \ Silent) \ StaticVerbs

Discovered ==
    /\ cl.at = "discover" /\ Answered /\ HangUp /\ KeepTable
    /\ cl' = [cl EXCEPT !.at = "parse", !.tree = Grafted(dsCall.got), !.found = TRUE]

\* The listing fails or takes longer than DISCOVERY_TIMEOUT: a warning.
NotDiscovered ==
    /\ cl.at = "discover" /\ HangUp /\ KeepTable
    /\ Goes("parse")

\* clap: a name that is not in the tree ends the program, as does a command line
\* with nothing on it, which prints the help.
ParseEnds ==
    /\ cl.at = "parse" /\ KeepService
    /\ \/ cl.verb = "none" /\ Exits(0)
       \/ cl.verb = "dispatch" /\ cl.name \notin cl.tree /\ Exits(2)

Parsed == cl.at = "parse" /\ (cl.verb \in StaticVerbs \/ (cl.verb = "dispatch" /\ cl.name \in cl.tree))

\* A module's name without a command, or --lines out of its range: no call is made.
RefusedHere ==
    /\ Parsed /\ cl.verb \in {"dispatch", "logs"} /\ Exits(1) /\ KeepService

NotReached ==
    /\ Parsed /\ ~cl.client /\ Exits(1) /\ KeepService

\* The verb's call; update checks first.
Calls ==
    /\ Parsed /\ cl.client /\ Goes("call") /\ KeepTable
    /\ Request(IF cl.verb = "update" THEN "check" ELSE cl.verb, cl.name)

-----------------------------------------------------------------------------
\* The verbs.

\* with_timeout: an error, the end of the connection, or the limit of the call.  The
\* daemon may have done what it was asked for.
VerbFails ==
    /\ cl.at \in {"call", "apply", "stream"} /\ HangUp /\ KeepTable
    /\ Exits(1)

\* One answer, and success.
Told(verb, shown, mute) ==
    /\ cl.at = "call" /\ cl.verb = verb /\ Answered /\ HangUp /\ KeepTable
    /\ cl' = [cl EXCEPT !.at = "done", !.exit = 0, !.shown = shown, !.mute = mute]
VersionTold == Told("version", {}, {})
ModulesShown == Told("modules", DOMAIN dsCall.rows, {})
LoadTold == Told("load", {}, {})
UnloadTold == Told("unload", {}, {})
StatusShown == Told("status", dsCall.got, dsCall.mute)

\* logs: lines until the stream ends.
LogsEnd ==
    /\ cl.at = "call" /\ cl.verb = "logs" /\ Answered /\ HangUp /\ KeepTable
    /\ Exits(0)

\* dispatch: the final chunk's code is recorded ...
ChunkArrives ==
    /\ cl.at = "call" /\ cl.verb = "dispatch" /\ Answered /\ KeepService
    /\ cl' = [cl EXCEPT !.at = "stream", !.code = dsCall.code]

\* exit_code_from: clamped to what an exit code holds.
ExitCodeFrom(code) == IF code < 0 THEN 0 ELSE IF code > 255 THEN 255 ELSE code

\* ... and is the exit code when the stream ends.
StreamEnds ==
    /\ cl.at = "stream" /\ HangUp /\ KeepTable
    /\ Exits(ExitCodeFrom(cl.code))

\* decide_update.
DecideUpdate(available, yes) == IF ~available THEN "none" ELSE IF yes THEN "apply" ELSE "confirm"

UpdateChecked ==
    /\ cl.at = "call" /\ cl.verb = "update" /\ Answered /\ KeepTable
    /\ LET next == DecideUpdate(dsCall.code = 1, cl.yes)
       IN  \/ next = "none" /\ Exits(0) /\ HangUp
           \/ next = "confirm" /\ Goes("confirm") /\ HangUp
           \/ next = "apply" /\ Goes("apply") /\ Request("apply", AllModules)

\* confirm_from_stdin: "y" and "yes", and nothing else, not even the end of the input.
Confirmed(agrees) ==
    /\ cl.at = "confirm" /\ KeepTable
    /\ IF agrees
       THEN cl' = [cl EXCEPT !.at = "apply", !.asked = TRUE] /\ Request("apply", AllModules)
       ELSE Exits(0) /\ UNCHANGED dsCall

\* An update that could not be applied is told, and is no failure of the command.
UpdateApplied ==
    /\ cl.at = "apply" /\ Answered /\ HangUp /\ KeepTable
    /\ Exits(0)

CliStep ==
    \/ Dial \/ Discovered \/ NotDiscovered \/ ParseEnds \/ RefusedHere \/ NotReached \/ Calls
    \/ VerbFails \/ VersionTold \/ ModulesShown \/ LoadTold \/ UnloadTold \/ StatusShown
    \/ LogsEnd \/ ChunkArrives \/ StreamEnds \/ UpdateChecked \/ UpdateApplied
    \/ \E agrees \in BOOLEAN : Confirmed(agrees)

CliNext ==
    \/ CliStep
    \/ ServiceApiStep /\ UNCHANGED cliVars
    \/ \E verb \in {"flag", "none", "version", "modules", "logs"} : Invoke(verb, AllModules, FALSE)
    \/ \E verb \in {"load", "unload", "dispatch", "status"}, n \in Names \cup {Ghost} : Invoke(verb, n, FALSE)
    \/ Invoke("status", AllModules, FALSE)
    \/ \E yes \in BOOLEAN : Invoke("update", AllModules, yes)

CliSpec == CliInit /\ ServiceApiInit /\ [][CliNext]_<<cliVars, serviceApiVars>>

-----------------------------------------------------------------------------
\* Types; and an update is applied only if the user said so, on the command line or
\* when asked.
CliTypeOK ==
    /\ cl.exit \in 0..255 /\ cl.tree \cup cl.shown \subseteq Names
    /\ dsSeen \subseteq Names /\ dsAlways \subseteq dsSeen /\ Loaded \subseteq dsSeen
    /\ cl.at = "apply" => cl.yes \/ cl.asked

\* An exit code of 0 tells the truth: a module that was "loaded" was in the table at
\* some time since the command began, one that was "unloaded" was not in it all that
\* time, a status was of a module that was loaded, and a module's command was run,
\* once, by the module and did not answer with a failure (a negative code, which
\* clamps to 0, is the exception that the code makes).
ExitTellsOutcome ==
    cl.at = "done" /\ cl.exit = 0 =>
        /\ cl.verb = "load" => cl.name \in dsSeen
        /\ cl.verb = "unload" => cl.name \notin dsAlways
        /\ cl.verb = "status" /\ cl.name # AllModules => cl.name \in dsSeen
        /\ cl.verb = "dispatch" => dsRan = 1 /\ cl.code <= 0

\* The handlers read the table several times for one answer, and still a module that
\* was loaded all the time is in it (unless it did not answer for itself), and one
\* that never was is not: both in the command tree and in a status of all modules.
\* A list of the modules has the registered ones too.
ListingsAreCurrent ==
    /\ cl.at = "parse" /\ cl.found =>
        (dsAlways \ Silent) \ StaticVerbs \subseteq cl.tree /\ cl.tree \subseteq dsSeen
    /\ cl.at = "done" /\ cl.exit = 0 /\ cl.verb = "modules" => dsAlways \cup Builtin \subseteq cl.shown
    /\ cl.at = "done" /\ cl.exit = 0 /\ cl.verb = "status" /\ cl.name = AllModules =>
        dsAlways \subseteq cl.shown \cup cl.mute /\ cl.shown \subseteq dsSeen

-----------------------------------------------------------------------------
(***************************************************************************)
(* What pdcli makes of the words it is given (penguin-cli-core): the       *)
(* socket, which has to be found before the command tree exists and is     *)
(* then parsed again with it, and the request of a module's command: its   *)
(* path, its flags, its arguments or what was piped, and the exit code of  *)
(* the chunks that answer it.  Every value is one of a few that the code   *)
(* tells apart.                                                            *)
(***************************************************************************)
CONSTANT MaxWords   \* bound: words of a command line, arguments and chunks

ASSUME CommandLineAssumption == MaxWords \in Nat \ {0}

VARIABLE ln   \* one command line, from the words to the exit code

lineVars == <<ln>>

\* "=" is --socket=b; "x" a word that has no hyphen.
Words == {"--socket", "-socket", "=", "--", "x"}
Nowhere == "default"

Lines == SeqOf(Words, MaxWords)

\* What the words name, and what the module declared.
Specs == [min : {-1, 0, 1}, max : {-1, 0, 1, 2}, group : BOOLEAN, type : {"bool", "int", "duration"}]
\* A flag as typed: not at all, bare, or with a value.
Typed == {"unset", "bare", "true", "5", "text"}
\* stdin: a terminal, closed, an empty line, or text and a newline.
Stdins == {"terminal", "closed", "newline", "text"}

\* What clap has made of the words so far.
NothingParsed == [mode |-> "flags", socket |-> Nowhere, args |-> << >>, ok |-> TRUE]

\* A line about the socket (trailing: to a command of any number of arguments;
\* otherwise to a verb of one), or about a command of a module.
LineInit ==
    \/ \E words \in Lines, trailing \in BOOLEAN :
          ln = [at |-> "scan", words |-> words, trailing |-> trailing, i |-> 1,
                dialled |-> Nowhere, parsed |-> NothingParsed]
    \/ \E spec \in Specs, n \in 0..MaxWords, flag \in Typed, in \in Stdins, deep \in BOOLEAN :
          ln = [at |-> "command", spec |-> spec, n |-> n, flag |-> flag, in |-> in, deep |-> deep]

-----------------------------------------------------------------------------
\* The socket.

\* extract_socket_override, one turn of its loop: from the first word to the last,
\* whatever they are; the last one wins.
ExtractSocketOverride ==
    LET word == ln.words[ln.i]
    IN  /\ ln.at = "scan" /\ ln.i <= Len(ln.words)
        /\ \/ word = "=" /\ ln' = [ln EXCEPT !.i = @ + 1, !.dialled = "b"]
           \/ /\ word \in {"--socket", "-socket"} /\ ln.i < Len(ln.words)
              /\ ln' = [ln EXCEPT !.i = @ + 2, !.dialled = ln.words[ln.i + 1]]
           \/ /\ word # "=" /\ (word \notin {"--socket", "-socket"} \/ ln.i = Len(ln.words))
              /\ ln' = [ln EXCEPT !.i = @ + 1]

\* The daemon is dialled there; the tree is built and parses the same words.
Scanned ==
    /\ ln.at = "scan" /\ ln.i > Len(ln.words)
    /\ ln' = [ln EXCEPT !.at = "parse", !.i = 1]

\* clap: a flag may be given once, its value has no hyphen, and from the first
\* argument of a command that takes several every word is an argument.
ClapStep(s, word) ==
    IF s.mode = "value" THEN [s EXCEPT !.ok = @ /\ word = "x", !.socket = word, !.mode = "flags"]
    ELSE IF s.mode = "words" THEN [s EXCEPT !.args = Append(@, word)]
    ELSE CASE word = "--" -> [s EXCEPT !.mode = "words"]
           [] word = "--socket" -> [s EXCEPT !.mode = "value", !.ok = @ /\ s.socket = Nowhere]
           [] word = "=" -> [s EXCEPT !.socket = "b", !.ok = @ /\ s.socket = Nowhere]
           [] OTHER -> [s EXCEPT !.args = Append(@, word), !.ok = @ /\ (word = "x" \/ ln.trailing),
                                 !.mode = IF ln.trailing THEN "words" ELSE "flags"]
ClapParse ==
    /\ ln.at = "parse" /\ ln.i <= Len(ln.words)
    /\ ln' = [ln EXCEPT !.i = @ + 1, !.parsed = ClapStep(ln.parsed, ln.words[ln.i])]

ClapAccepts(parsed) == parsed.ok /\ parsed.mode # "value" /\ (ln.trailing \/ Len(parsed.args) <= 1)

\* run: what clap rejects ends the program.
LineParsed ==
    /\ ln.at = "parse" /\ ln.i > Len(ln.words)
    /\ ln' = IF ClapAccepts(ln.parsed) THEN [ln EXCEPT !.at = "run"] ELSE [at |-> "rejected"]

-----------------------------------------------------------------------------
\* A module's command.

\* args_positional: the numbers of arguments that are accepted.
ArgsPositional(spec, n) ==
    IF spec.max = 0 THEN n = 0
    ELSE /\ n >= spec.min
         /\ spec.max < 0 \/ n <= spec.max \/ n <= spec.min

FlagKind(type) == IF type \in {"bool", "int"} THEN type ELSE "string"

\* build_flag_arg: which spellings clap accepts.
BuildFlagArg(kind) ==
    CASE kind = "bool" -> {"unset", "bare", "true"}
      [] kind = "int" -> {"unset", "5"}
      [] OTHER -> Typed \ {"bare"}

\* collect_flags: only a flag that was typed; bare, it is true.
CollectFlags(kind, typed) == IF typed = "unset" THEN {} ELSE IF typed = "bare" THEN {"true"} ELSE {typed}

\* resolve_dispatch: down to the last word that is a command; a group takes the
\* arguments itself if no command of it was named.
PathOf(spec, deep) == IF spec.group /\ deep THEN <<"group", "leaf">> ELSE <<"group">>

\* read_piped_stdin and apply_stdin_fallback: what is piped is read only if there is
\* no argument; an empty line is an argument, an empty one.
ApplyStdinFallback(n, in) ==
    IF n > 0 THEN "typed" ELSE IF in = "text" THEN "stdin" ELSE IF in = "newline" THEN "empty" ELSE "none"
Count(n, from) == IF from = "typed" THEN n ELSE IF from = "none" THEN 0 ELSE 1

CommandParsed ==
    /\ ln.at = "command"
    /\ LET kind == FlagKind(ln.spec.type)
           from == ApplyStdinFallback(ln.n, ln.in)
       IN  ln' = IF ~ArgsPositional(ln.spec, ln.n) \/ ln.flag \notin BuildFlagArg(kind)
                    \/ (ln.deep /\ ~ln.spec.group)
                 THEN [at |-> "rejected"]
                 ELSE [at |-> "sent", spec |-> ln.spec, n |-> ln.n, flag |-> ln.flag, in |-> ln.in,
                       path |-> PathOf(ln.spec, ln.deep), flags |-> CollectFlags(kind, ln.flag),
                       from |-> from, given |-> Count(ln.n, from), code |-> 0, chunks |-> << >>]

\* ChunkAccumulator::record: the code of a final chunk.
Record(code, chunk) == IF chunk.final THEN chunk.code ELSE code

ChunkReceived(chunk) ==
    /\ ln.at = "sent" /\ Len(ln.chunks) < 2 /\ ln.given = 0 /\ ln.flag = "unset"
    /\ ln' = [ln EXCEPT !.code = Record(@, chunk), !.chunks = Append(@, chunk)]

LineNext ==
    \/ ExtractSocketOverride \/ Scanned \/ ClapParse \/ LineParsed \/ CommandParsed
    \/ \E final \in BOOLEAN, code \in {0, 3} : ChunkReceived([final |-> final, code |-> code])

LineSpec == LineInit /\ [][LineNext]_lineVars

-----------------------------------------------------------------------------
\* Types; and the exit code after the chunks so far is that of the last final one.
LineTypeOK ==
    /\ ln.at \in {"scan", "parse", "run", "command", "rejected", "sent"}
    /\ ln.at = "sent" =>
        /\ ln.given \in 0..MaxWords /\ Len(ln.path) \in 1..2
        /\ \/ ln.code = 0 /\ \A i \in DOMAIN ln.chunks : ~ln.chunks[i].final
           \/ \E i \in DOMAIN ln.chunks :
                /\ ln.chunks[i].final /\ ln.chunks[i].code = ln.code
                /\ \A j \in (i + 1)..Len(ln.chunks) : ~ln.chunks[j].final

\* The socket that was dialled before there was a tree is the one that the words name
\* once there is, unless a word that spells the flag is an argument of the command:
\* the scan does not know where a command's own words begin.
DialledIsParsed ==
    ln.at = "run" /\ (\A i \in DOMAIN ln.parsed.args : ln.parsed.args[i] \notin {"--socket", "-socket", "="})
        => ln.dialled = ln.parsed.socket

\* A module is given a number of arguments that it declared, with the exception that
\* the fallback is made for: a command that declares none (whatever its minimum says)
\* may get what was piped.
GivenFitsSpec ==
    ln.at = "sent" =>
        IF ln.spec.max = 0 THEN ln.n = 0 /\ ln.given \in {0, 1}
        ELSE ln.given >= ln.spec.min /\ (ln.spec.max < 0 \/ ln.given <= ln.spec.max)

=============================================================================
