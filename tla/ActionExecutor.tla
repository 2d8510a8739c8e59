--------------------------- MODULE ActionExecutor ---------------------------
(***************************************************************************)
(* The desktop shell's remote actions (penguin-desktop-core                *)
(* action_executor/ and the Tauri commands around it).  A poll loop        *)
(* fetches actions from the hub, asks the user about the scripts among     *)
(* them, runs each one and posts its response.  login starts a loop and    *)
(* cancels the previous one, which may outlive the five seconds it is      *)
(* given; logout cancels.  The loops share the map of pending approvals    *)
(* and the session's mutex.                                                *)
(* The login itself is in DesktopSession: here it succeeds or fails.       *)
(***************************************************************************)
EXTENDS Integers, FiniteSets

CONSTANTS
    Acts,      \* the actions the hub may send
    Kind,      \* the type of each one
    Cmds,      \* Tauri commands in flight at the same time
    MaxLoops,  \* bound: poll loops ever started
    MaxPolls,  \* bound: polls that return something
    MaxBatch,  \* bound: actions in one answer
    MaxCmds    \* bound: login and logout commands

Scripts == {"script", "lua"}

ASSUME ExecAssumption ==
    /\ Kind \in [Acts -> Scripts \cup {"signed_binary", "bridge", "unknown"}]
    /\ Acts # {} /\ 0 \notin Cmds   \* 0: nobody
    /\ MaxLoops \in Nat /\ MaxPolls \in Nat /\ MaxBatch \in Nat /\ MaxCmds \in Nat

Loops == 1..MaxLoops

VARIABLES
    lp,      \* the poll loops: where each is, its batch, action and decision
    chan,    \* the oneshot of each loop's approval request
    pend,    \* the pending map: the loop whose sender is stored per action
    emitted, \* the approval dialogs the frontend has been told of
    guard,   \* the poll_loop handle in AppState (0: None)
    pollMx,  \* who holds the mutex of that handle (0: nobody)
    sessMx,  \* the loop that holds the session's mutex over an execution
    cmd,     \* the Tauri commands in flight
    hub,     \* per action, the response the hub has
    procs,   \* actions with a process left running by a timeout
    polls, cmds,    \* counters for the bounds
    granted, \* ghost: approvals delivered, per action
    ran,     \* ghost: executions started, per action
    excused  \* ghost: actions whose response was lost, or that an
             \* abandoned loop had in its batch
execVars == <<lp, chan, pend, emitted, guard, pollMx, sessMx, cmd, hub, procs, polls,
              cmds, granted, ran, excused>>

Idle == [pc |-> "unborn", cancelled |-> FALSE, batch |-> {}, act |-> CHOOSE a \in Acts : TRUE,
         verdict |-> "none"]

ExecInit ==
    /\ lp = [l \in Loops |-> Idle]
    /\ chan = [l \in Loops |-> "none"]
    /\ pend = [a \in Acts |-> 0]
    /\ emitted = {}
    /\ guard = 0 /\ pollMx = 0 /\ sessMx = 0
    /\ cmd = [c \in Cmds |-> [op |-> "none", pc |-> "done", old |-> 0]]
    /\ hub = [a \in Acts |-> "open"]
    /\ procs = {}
    /\ polls = 0 /\ cmds = 0
    /\ granted = [a \in Acts |-> 0] /\ ran = [a \in Acts |-> 0]
    /\ excused = {}

At(l, pc) == lp[l].pc = pc
Alive(l) == lp[l].pc \notin {"unborn", "exited"}

-----------------------------------------------------------------------------
\* run_poll_loop and poll: the hub answers with some of the actions it has no
\* response for; a failed or refused poll is only logged.  select! draws
\* between a tick and the cancellation, so a cancelled loop may poll again.
Poll(l) ==
    /\ At(l, "idle") /\ sessMx = 0 /\ polls < MaxPolls
    /\ \E b \in SUBSET {a \in Acts : hub[a] = "open"} :
          /\ b # {} /\ Cardinality(b) <= MaxBatch
          /\ lp' = [lp EXCEPT ![l].pc = "next", ![l].batch = b]
          /\ excused' = excused \cup (IF lp[l].cancelled THEN b ELSE {})
    /\ polls' = polls + 1
    /\ UNCHANGED <<procs, chan, pend, emitted, guard, pollMx, sessMx, cmd, hub, cmds,
                   granted, ran>>

LoopExits(l) ==
    /\ At(l, "idle") /\ lp[l].cancelled
    /\ lp' = [lp EXCEPT ![l].pc = "exited"]
    /\ UNCHANGED <<procs, chan, pend, emitted, guard, pollMx, sessMx, cmd, hub, polls,
                   cmds, granted, ran, excused>>

\* The sender stored for an action is dropped: its receiver, if it still
\* waits, is told so.
DropSender(a, f) ==
    IF pend[a] # 0 /\ f[pend[a]] = "wait" THEN [f EXCEPT ![pend[a]] = "dropped"] ELSE f

\* execute, for the types that ask first: TauriApprovalPrompt::ask stores the
\* sender of a new channel under the action's id.
Ask(l, a) ==
    /\ Kind[a] \in Scripts
    /\ chan' = [DropSender(a, chan) EXCEPT ![l] = "wait"]
    /\ pend' = [pend EXCEPT ![a] = l]
    /\ lp' = [lp EXCEPT ![l].pc = "emit", ![l].act = a, ![l].batch = @ \ {a}]
    /\ UNCHANGED <<sessMx, ran>>

\* execute, for the types that do not: the session's mutex is taken and kept
\* for the whole execution.
RunLocked(l, a) ==
    /\ Kind[a] \in {"signed_binary", "bridge"}
    /\ sessMx = 0
    /\ sessMx' = l
    /\ lp' = [lp EXCEPT ![l].pc = IF Kind[a] = "bridge" THEN "run" ELSE "verify",
                        ![l].act = a, ![l].batch = @ \ {a}]
    /\ ran' = IF Kind[a] = "bridge" THEN [ran EXCEPT ![a] = @ + 1] ELSE ran
    /\ UNCHANGED <<chan, pend>>

Refuse(l, a) ==
    /\ Kind[a] = "unknown"
    /\ lp' = [lp EXCEPT ![l].pc = "post", ![l].act = a, ![l].batch = @ \ {a}]
    /\ UNCHANGED <<chan, pend, sessMx, ran>>

\* The next action of the batch, dispatched by type.
Execute(l) ==
    /\ At(l, "next")
    /\ \E a \in lp[l].batch : Ask(l, a) \/ RunLocked(l, a) \/ Refuse(l, a)
    /\ UNCHANGED <<procs, emitted, guard, pollMx, cmd, hub, polls, cmds, granted, excused>>

\* ask: the event reaches the frontend, or it fails and the entry is removed.
Emit(l) ==
    /\ At(l, "emit")
    /\ \/ /\ emitted' = emitted \cup {lp[l].act}
          /\ lp' = [lp EXCEPT ![l].pc = "asking"]
       \/ /\ lp' = [lp EXCEPT ![l].pc = "clean", ![l].verdict = "timeout"]
          /\ UNCHANGED emitted
    /\ UNCHANGED <<procs, chan, pend, guard, pollMx, sessMx, cmd, hub, polls, cmds,
                   granted, ran, excused>>

\* Mutant: the wait has no deadline.
DecidedUndated(l) ==
    /\ At(l, "asking") /\ chan[l] # "wait"
    /\ \E v \in {"approved", "denied", "timeout"} :
          /\ CASE chan[l] = "yes" -> v = "approved"
               [] chan[l] = "no"  -> v = "denied"
               [] OTHER           -> v = "timeout"
          /\ lp' = [lp EXCEPT ![l].pc = "clean", ![l].verdict = v]
    /\ chan' = [chan EXCEPT ![l] = "closed"]
    /\ UNCHANGED <<procs, pend, emitted, guard, pollMx, sessMx, cmd, hub, polls, cmds,
                   granted, ran, excused>>

\* ask: the answer, the loss of the sender or the deadline ends the wait.
Decided(l) ==
    /\ At(l, "asking")
    /\ \E v \in {"approved", "denied", "timeout"} :
          /\ CASE chan[l] = "yes" -> v = "approved"
               [] chan[l] = "no"  -> v = "denied"
               [] OTHER           -> v = "timeout"
          /\ lp' = [lp EXCEPT ![l].pc = "clean", ![l].verdict = v]
    /\ chan' = [chan EXCEPT ![l] = "closed"]
    /\ UNCHANGED <<procs, pend, emitted, guard, pollMx, sessMx, cmd, hub, polls, cmds,
                   granted, ran, excused>>

\* Mutant: an answer that never came counts as consent.
CleanFailsOpen(l) ==
    /\ At(l, "clean")
    /\ LET a == lp[l].act
           run == lp[l].verdict # "denied"
       IN /\ chan' = [DropSender(a, chan) EXCEPT ![l] = "none"]
          /\ pend' = [pend EXCEPT ![a] = 0]
          /\ lp' = [lp EXCEPT ![l].pc = IF run THEN "run" ELSE "post"]
          /\ ran' = IF run THEN [ran EXCEPT ![a] = @ + 1] ELSE ran
    /\ UNCHANGED <<procs, emitted, guard, pollMx, sessMx, cmd, hub, polls, cmds,
                   granted, excused>>

\* ask removes the entry of its action, whoever stored it; execute_script and
\* execute_lua then run what was approved and nothing else.
Clean(l) ==
    /\ At(l, "clean")
    /\ LET a == lp[l].act
           run == lp[l].verdict = "approved"
       IN /\ chan' = [DropSender(a, chan) EXCEPT ![l] = "none"]
          /\ pend' = [pend EXCEPT ![a] = 0]
          /\ lp' = [lp EXCEPT ![l].pc = IF run THEN "run" ELSE "post"]
          /\ ran' = IF run THEN [ran EXCEPT ![a] = @ + 1] ELSE ran
    /\ UNCHANGED <<procs, emitted, guard, pollMx, sessMx, cmd, hub, polls, cmds,
                   granted, excused>>

\* SignedExecutor::execute up to the verification: a bad request, a bad
\* manifest, owner, digest or signature is an error before anything runs.
Verify(l) ==
    /\ At(l, "verify")
    /\ \/ /\ lp' = [lp EXCEPT ![l].pc = "run"]
          /\ ran' = [ran EXCEPT ![lp[l].act] = @ + 1]
          /\ UNCHANGED sessMx
       \/ /\ lp' = [lp EXCEPT ![l].pc = "post", ![l].verdict = "failed"]
          /\ sessMx' = 0
          /\ UNCHANGED ran
    /\ UNCHANGED <<chan, pend, emitted, guard, pollMx, cmd, hub, procs, polls, cmds,
                   granted, excused>>

\* What an execution may come to: the response's success, and whether its
\* process outlives it.
Success == [ok |-> TRUE, left |-> FALSE]
Failure == [ok |-> FALSE, left |-> FALSE]

\* ScriptExecutor::execute: no interpreter, source, directory or process; a
\* failed write or wait; the timeout, which drops the child without killing
\* it; or the exit, whatever its code.
ScriptOutcomes == {Failure, [ok |-> FALSE, left |-> TRUE], Success}

\* ScriptExecutor::execute_lua, in this process and without a timeout.
LuaOutcomes == {Failure, Success}

\* SignedExecutor::execute after the verification: as for a script.
SignedOutcomes == {Failure, [ok |-> FALSE, left |-> TRUE], Success}

\* execute_obs_command and execute_webhook: penguind's verdict, or an error.
BridgeOutcomes == {Failure, Success}

Outcomes(kind) ==
    CASE kind = "script" -> ScriptOutcomes
      [] kind = "lua" -> LuaOutcomes
      [] kind = "signed_binary" -> SignedOutcomes
      [] kind = "bridge" -> BridgeOutcomes

\* The execution ends and a response is made of it.
RunEnds(l) ==
    /\ At(l, "run")
    /\ \E o \in Outcomes(Kind[lp[l].act]) :
          /\ lp' = [lp EXCEPT ![l].pc = "post", ![l].verdict = IF o.ok THEN "ok" ELSE "failed"]
          /\ procs' = IF o.left THEN procs \cup {lp[l].act} ELSE procs
    /\ sessMx' = IF sessMx = l THEN 0 ELSE sessMx
    /\ UNCHANGED <<chan, pend, emitted, guard, pollMx, cmd, hub, polls, cmds,
                   granted, ran, excused>>

\* post_response: a response that cannot be posted is logged and lost.
PostResponse(l) ==
    /\ At(l, "post") /\ sessMx = 0
    /\ LET a == lp[l].act
       IN \/ hub' = [hub EXCEPT ![a] = IF lp[l].verdict = "ok" THEN "ok" ELSE "failed"] /\ UNCHANGED excused
          \/ UNCHANGED hub /\ excused' = excused \cup {a}
    /\ lp' = [lp EXCEPT ![l].pc = IF lp[l].batch = {} THEN "idle" ELSE "next",
                        ![l].verdict = "none"]
    /\ UNCHANGED <<procs, chan, pend, emitted, guard, pollMx, sessMx, cmd, polls, cmds,
                   granted, ran>>

-----------------------------------------------------------------------------
\* respond_to_approval: the user answers a dialog, perhaps late or twice.
Respond(a, yes) ==
    /\ a \in emitted /\ pend[a] # 0
    /\ pend' = [pend EXCEPT ![a] = 0]
    /\ LET k == pend[a]
       IN IF chan[k] = "wait"
          THEN /\ chan' = [chan EXCEPT ![k] = IF yes THEN "yes" ELSE "no"]
               /\ granted' = IF yes THEN [granted EXCEPT ![a] = @ + 1] ELSE granted
          ELSE UNCHANGED <<chan, granted>>
    /\ UNCHANGED <<procs, lp, emitted, guard, pollMx, sessMx, cmd, hub, polls, cmds, ran, excused>>

\* login succeeds (or a session is found at startup) and asks for the loop's
\* lock; logout asks for it first.
Command(c, op) ==
    /\ cmd[c].pc = "done" /\ cmds < MaxCmds
    /\ op = "login" => sessMx = 0
    /\ cmd' = [cmd EXCEPT ![c] = [op |-> op, pc |-> "lock", old |-> 0]]
    /\ cmds' = cmds + 1
    /\ UNCHANGED <<procs, lp, chan, pend, emitted, guard, pollMx, sessMx, hub, polls,
                   granted, ran, excused>>

\* spawn_poll_loop and logout: take the handle and cancel its loop.
TakeHandle(c) ==
    /\ cmd[c].pc = "lock" /\ pollMx = 0
    /\ pollMx' = c
    /\ guard' = 0
    /\ lp' = IF guard = 0 THEN lp ELSE [lp EXCEPT ![guard].cancelled = TRUE]
    /\ cmd' = [cmd EXCEPT ![c].pc = "await", ![c].old = guard]
    /\ UNCHANGED <<procs, chan, pend, emitted, sessMx, hub, polls, cmds, granted, ran, excused>>

\* The cancelled loop has exited, or five seconds have passed and the task is
\* left to itself.
Awaited(c) ==
    /\ cmd[c].pc = "await"
    /\ LET old == cmd[c].old
       IN excused' = IF old # 0 /\ Alive(old)
                     THEN excused \cup lp[old].batch
                             \cup (IF At(old, "idle") \/ At(old, "next") THEN {} ELSE {lp[old].act})
                     ELSE excused
    /\ cmd' = [cmd EXCEPT ![c].pc = IF cmd[c].op = "login" THEN "register" ELSE "clear", ![c].old = 0]
    /\ pollMx' = IF cmd[c].op = "login" THEN pollMx ELSE 0
    /\ UNCHANGED <<procs, lp, chan, pend, emitted, guard, sessMx, hub, polls, cmds, granted, ran>>

\* spawn_poll_loop: a new executor registers the machine and its loop starts;
\* without the registration there is no loop.
Register(c) ==
    /\ cmd[c].pc = "register" /\ sessMx = 0
    /\ \/ \E l \in Loops :
             /\ At(l, "unborn") /\ \A k \in Loops : k < l => ~At(k, "unborn")
             /\ lp' = [lp EXCEPT ![l].pc = "idle"]
             /\ guard' = l
       \/ UNCHANGED <<lp, guard>>
    /\ pollMx' = 0
    /\ cmd' = [cmd EXCEPT ![c].pc = "done"]
    /\ UNCHANGED <<procs, chan, pend, emitted, sessMx, hub, polls, cmds, granted, ran, excused>>

\* logout clears the session once it has the session's mutex.
ClearSession(c) ==
    /\ cmd[c].pc = "clear" /\ sessMx = 0
    /\ cmd' = [cmd EXCEPT ![c].pc = "done"]
    /\ UNCHANGED <<procs, lp, chan, pend, emitted, guard, pollMx, sessMx, hub, polls,
                   cmds, granted, ran, excused>>

LoopStep(l) ==
    \/ Poll(l) \/ LoopExits(l) \/ Execute(l) \/ Emit(l) \/ Decided(l)
    \/ Clean(l) \/ Verify(l) \/ RunEnds(l) \/ PostResponse(l)

ExecNext ==
    \/ \E l \in Loops : LoopStep(l)
    \/ \E a \in Acts, yes \in BOOLEAN : Respond(a, yes)
    \/ \E c \in Cmds : \/ \E op \in {"login", "logout"} : Command(c, op)
                       \/ TakeHandle(c) \/ Awaited(c) \/ Register(c) \/ ClearSession(c)

\* A request's own deadline ends it, the channel's state is read when it does,
\* and the two steps around it are local to the task.
AskFairness ==
    \A l \in Loops : WF_execVars(Emit(l)) /\ WF_execVars(Decided(l)) /\ WF_execVars(Clean(l))

ExecSpec == ExecInit /\ [][ExecNext]_execVars

-----------------------------------------------------------------------------
ExecTypeOK ==
    /\ lp \in [Loops -> [pc : {"unborn", "idle", "next", "emit", "asking", "clean",
                               "verify", "run", "post", "exited"},
                         cancelled : BOOLEAN, batch : SUBSET Acts, act : Acts,
                         verdict : {"none", "approved", "denied", "timeout", "ok", "failed"}]]
    /\ chan \in [Loops -> {"none", "wait", "yes", "no", "dropped", "closed"}]
    /\ pend \in [Acts -> 0..MaxLoops] /\ emitted \subseteq Acts
    /\ guard \in 0..MaxLoops /\ pollMx \in Cmds \cup {0} /\ sessMx \in 0..MaxLoops
    /\ cmd \in [Cmds -> [op : {"none", "login", "logout"}, old : 0..MaxLoops,
                         pc : {"done", "lock", "await", "register", "clear"}]]
    /\ hub \in [Acts -> {"open", "ok", "failed"}] /\ procs \subseteq Acts
    /\ polls \in 0..MaxPolls /\ cmds \in 0..MaxCmds
    /\ granted \in [Acts -> Nat] /\ ran \in [Acts -> Nat] /\ excused \subseteq Acts

\* However loops overlap, reuse an action's id or race the user, every run of
\* a script was paid for by an answer of its own: one "approve" never starts
\* two runs, and a lost or late answer starts none (execute_script, ask).
ApprovalPerRun == \A a \in Acts : Kind[a] \in Scripts => ran[a] <= granted[a]

\* A request that still waits can be answered or has been told that it cannot:
\* its sender is the one in the map.  Two loops that ask about the same id
\* never leave one of them waiting for an answer that goes to the other.
WaitingIsAnswerable ==
    \A l \in Loops : At(l, "asking") /\ chan[l] = "wait" => pend[lp[l].act] = l

\* The map holds no sender of a request that is over (ask's clean-ups).
PendingIsAsking ==
    \A a \in Acts : pend[a] # 0 =>
        lp[pend[a]].act = a /\ lp[pend[a]].pc \in {"emit", "asking", "clean"}

\* At most one loop is live and not cancelled, and its handle is the one the
\* next login or logout will cancel: no loop escapes the guard, not even when
\* commands overlap.
LiveLoopIsHeld ==
    \A l \in Loops : Alive(l) /\ ~lp[l].cancelled => guard = l

\* The hub's action runs a second time only if its response was lost or its
\* loop had been left to itself: a loop that was waited for never leaves work
\* to be repeated.
TwiceOnlyIfExcused ==
    \A a \in Acts : ran[a] > 1 => a \in excused

\* The hub is told of a success only for an action that ran: a refusal, a lost
\* answer or a failed verification is never reported as one, whichever loop
\* reports it.
SuccessMeansRan == \A a \in Acts : hub[a] = "ok" => ran[a] > 0

\* Every approval request ends, whether or not anybody answers.
AskEnds == \A l \in Loops : At(l, "asking") ~> ~At(l, "asking")
=============================================================================
