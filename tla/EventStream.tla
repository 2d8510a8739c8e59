----------------------------- MODULE EventStream -----------------------------
(***************************************************************************)
(* What penguind streams to its clients: module events (broker.rs,         *)
(* WatchEvents) and log lines (logring.rs, TailLogs), the task that        *)
(* forwards them (service.rs), and the drain of open streams when the      *)
(* daemon is told to stop (daemon_main.rs).                                *)
(*                                                                         *)
(* Lines and events are numbered by the order in which they were           *)
(* published, so a stream's contents are sequences of numbers.  The lines  *)
(* are those of one source: sources share nothing but the mutex.           *)
(***************************************************************************)
EXTENDS Naturals, Sequences, FiniteSets

CONSTANTS
    Streams,      \* RPCs that may be open at the same time
    Modules,      \* publishers of events
    All,          \* the empty module filter
    Capacity,     \* LogRing.capacity
    TailCap,      \* the ring's broadcast channel: Capacity rounded up to 2^k
    EventCap,     \* EventBroker's broadcast channel
    ForwardCap,   \* FORWARD_CHANNEL_CAPACITY
    Asks,         \* values of TailLogsRequest.lines, negative ones read as 0
    MaxLines,     \* bound: lines appended
    MaxEvents     \* bound: events published

ASSUME StreamAssumption ==
    /\ All \notin Modules
    /\ Capacity \in Nat \ {0}
    /\ TailCap \in Nat /\ TailCap >= Capacity
    /\ EventCap \in Nat \ {0}
    /\ ForwardCap \in Nat \ {0}
    /\ Asks \subseteq Nat /\ Asks # {}
    /\ MaxLines \in Nat /\ MaxEvents \in Nat

VARIABLES
    lines,    \* number of lines appended so far
    ring,     \* SourceLog.lines
    events,   \* events[i] is the module that published event i
    st,       \* the streams
    phase     \* run_daemon: serving, draining, stopped

vars == <<lines, ring, events, st, phase>>

-----------------------------------------------------------------------------

Kinds == {"none", "watch", "tail"}
Stages == {"unused", "subscribed", "forward", "done"}

\* One RPC: the request, the broadcast receiver (rx is the number of its next
\* item), what the forwarder has in hand (pending: the rest of the backlog, or
\* the one item it is sending), the mpsc channel, and what the client has read.
\* `since` and `base` are history: the number of lines when the call
\* subscribed and when it read the backlog.
Stream == [kind : Kinds, stage : Stages, filter : Modules \cup {All},
           follow : BOOLEAN, ask : Asks, rx : Nat,
           pending : Seq(Nat), buf : Seq(Nat), got : Seq(Nat),
           open : BOOLEAN, since : Nat, base : Nat]

\* No RPC yet.
Unused == [kind |-> "none", stage |-> "unused", filter |-> All,
           follow |-> FALSE, ask |-> CHOOSE n \in Asks : TRUE, rx |-> 0,
           pending |-> <<>>, buf |-> <<>>, got |-> <<>>,
           open |-> FALSE, since |-> 0, base |-> 0]

Init ==
    /\ lines = 0
    /\ ring = <<>>
    /\ events = <<>>
    /\ st = [s \in Streams |-> Unused]
    /\ phase = "serving"

\* LogRing::append's eviction: the ring with n added.
Pushed(r, n) == Append(IF Len(r) >= Capacity THEN Tail(r) ELSE r, n)

\* LogRing::backlog: the newest `ask` entries, oldest first.
Newest(r, ask) ==
    LET skip == IF Len(r) > ask THEN Len(r) - ask ELSE 0
    IN SubSeq(r, skip + 1, Len(r))

\* Sender::subscribe: a receiver sees only what is published after it.
FirstSeen(published) == published + 1

\* How many items the stream's channel has carried, and how many it keeps.
Published(s) == IF st[s].kind = "watch" THEN Len(events) ELSE lines
ChannelCap(s) == IF st[s].kind = "watch" THEN EventCap ELSE TailCap

\* The receiver's next item has been overwritten (RecvError::Lagged).
Lagged(s) == Published(s) - (st[s].rx - 1) > ChannelCap(s)

\* forward_events' module_filter; log lines are not filtered.
Wanted(s, n) ==
    \/ st[s].kind = "tail"
    \/ st[s].filter \in {All, events[n]}

-----------------------------------------------------------------------------

\* LogRing::append: never waits for a reader.
AppendLine ==
    /\ phase # "stopped" /\ lines < MaxLines
    /\ lines' = lines + 1
    /\ ring' = Pushed(ring, lines + 1)
    /\ UNCHANGED <<events, st, phase>>

\* EventBroker::publish, by a module or by the supervisor.
Publish(m) ==
    /\ phase # "stopped" /\ Len(events) < MaxEvents
    /\ events' = Append(events, m)
    /\ UNCHANGED <<lines, ring, st, phase>>

\* DaemonService::watch_events.
WatchEvents(s, f) ==
    /\ phase = "serving" /\ st[s].kind = "none"
    /\ st' = [st EXCEPT ![s] =
                [Unused EXCEPT !.kind = "watch", !.stage = "forward",
                    !.filter = f, !.follow = TRUE, !.open = TRUE,
                    !.rx = FirstSeen(Len(events)), !.since = Len(events)]]
    /\ UNCHANGED <<lines, ring, events, phase>>

\* DaemonService::tail_logs, up to the subscription.
TailLogs(s, ask, follow) ==
    /\ phase = "serving" /\ st[s].kind = "none"
    /\ st' = [st EXCEPT ![s] =
                [Unused EXCEPT !.kind = "tail", !.stage = "subscribed",
                    !.follow = follow, !.ask = ask, !.open = TRUE,
                    !.rx = FirstSeen(lines), !.since = lines]]
    /\ UNCHANGED <<lines, ring, events, phase>>

\* Mutant: the call answers with its backlog and no forwarder is spawned.
ReadBacklogOnly(s) ==
    /\ st[s].stage = "subscribed" /\ st[s].base = 0
    /\ st' = [st EXCEPT ![s].got = Newest(ring, st[s].ask), ![s].base = lines]
    /\ UNCHANGED <<lines, ring, events, phase>>

\* The rest of tail_logs: the backlog, and the spawn of forward_logs.
ReadBacklog(s) ==
    /\ st[s].stage = "subscribed"
    /\ st' = [st EXCEPT ![s].stage = "forward",
                        ![s].pending = Newest(ring, st[s].ask),
                        ![s].base = lines]
    /\ UNCHANGED <<lines, ring, events, phase>>

\* The forwarder's tx.send: waits for room, fails when the client is gone.
Forward(s) ==
    /\ st[s].stage = "forward" /\ st[s].pending # <<>>
    /\ \/ /\ st[s].open /\ Len(st[s].buf) < ForwardCap
          /\ st' = [st EXCEPT ![s].buf = Append(@, Head(st[s].pending)),
                              ![s].pending = Tail(@)]
       \/ /\ ~st[s].open
          /\ st' = [st EXCEPT ![s].stage = "done", ![s].pending = <<>>]
    /\ UNCHANGED <<lines, ring, events, phase>>

\* Mutant: a lag is skipped over instead of ending the stream.
ReceiveSkipping(s) ==
    /\ st[s].stage = "forward" /\ st[s].pending = <<>> /\ st[s].follow
    /\ st[s].rx <= Published(s)
    /\ LET n == IF Lagged(s) THEN Published(s) - ChannelCap(s) + 1 ELSE st[s].rx
       IN st' = [st EXCEPT ![s].rx = n + 1,
                           ![s].pending = IF Wanted(s, n) THEN <<n>> ELSE <<>>]
    /\ UNCHANGED <<lines, ring, events, phase>>

\* The forwarder's recv: an item, skipped when it is filtered out, or the end
\* of the task because the receiver lagged.
Receive(s) ==
    /\ st[s].stage = "forward" /\ st[s].pending = <<>> /\ st[s].follow
    /\ st[s].rx <= Published(s)
    /\ LET n == st[s].rx
       IN st' = [st EXCEPT ![s] =
                    IF Lagged(s) THEN [@ EXCEPT !.stage = "done"]
                    ELSE [@ EXCEPT !.rx = n + 1,
                              !.pending = IF Wanted(s, n) THEN <<n>> ELSE <<>>]]
    /\ UNCHANGED <<lines, ring, events, phase>>

\* forward_logs without follow returns after the backlog.
BacklogSent(s) ==
    /\ st[s].stage = "forward" /\ st[s].pending = <<>> /\ ~st[s].follow
    /\ st' = [st EXCEPT ![s].stage = "done"]
    /\ UNCHANGED <<lines, ring, events, phase>>

\* The client reads the next message of its stream.
Deliver(s) ==
    /\ st[s].open /\ st[s].buf # <<>>
    /\ st' = [st EXCEPT ![s].got = Append(@, Head(st[s].buf)),
                        ![s].buf = Tail(@)]
    /\ UNCHANGED <<lines, ring, events, phase>>

\* The sender is dropped and the channel empty: the client sees the end.
EndOfStream(s) ==
    /\ st[s].open /\ st[s].stage = "done" /\ st[s].buf = <<>>
    /\ st' = [st EXCEPT ![s].open = FALSE]
    /\ UNCHANGED <<lines, ring, events, phase>>

\* The client goes away and its half of the channel is dropped.  A call that
\* is still in tail_logs has no await before its spawn, so it completes.
Disconnect(s) ==
    /\ st[s].open /\ st[s].stage \in {"forward", "done"}
    /\ st' = [st EXCEPT ![s].open = FALSE, ![s].buf = <<>>]
    /\ UNCHANGED <<lines, ring, events, phase>>

\* A signal: the server takes no new calls.
Signal ==
    /\ phase = "serving"
    /\ phase' = "draining"
    /\ UNCHANGED <<lines, ring, events, st>>

\* serve_with_incoming_shutdown returns once every response has ended.
Drained ==
    /\ phase = "draining" /\ \A s \in Streams : ~st[s].open
    /\ phase' = "stopped"
    /\ UNCHANGED <<lines, ring, events, st>>

\* run_daemon goes on to Supervisor::shutdown and returns.
Stopped == phase = "stopped" /\ UNCHANGED vars

Next ==
    \/ AppendLine
    \/ \E m \in Modules : Publish(m)
    \/ \E s \in Streams :
          \/ \E f \in Modules \cup {All} : WatchEvents(s, f)
          \/ \E ask \in Asks, follow \in BOOLEAN : TailLogs(s, ask, follow)
          \/ ReadBacklog(s) \/ Forward(s) \/ Receive(s) \/ BacklogSent(s)
          \/ Deliver(s) \/ EndOfStream(s) \/ Disconnect(s)
    \/ Signal \/ Drained \/ Stopped

Spec == Init /\ [][Next]_vars

-----------------------------------------------------------------------------

\* Everything the stream has taken from its source, in order.
Taken(s) == st[s].got \o st[s].buf \o st[s].pending

Occurrences(seq, n) == Cardinality({i \in DOMAIN seq : seq[i] = n})

\* Type invariant: the ring (SourceLog.lines) and the mpsc channel keep
\* within their capacities, and a receiver is never ahead of its channel.
TypeOK ==
    /\ lines \in Nat
    /\ ring \in Seq(Nat) /\ Len(ring) <= Capacity
    /\ events \in Seq(Modules)
    /\ st \in [Streams -> Stream]
    /\ phase \in {"serving", "draining", "stopped"}
    /\ \A s \in Streams : /\ Len(st[s].buf) <= ForwardCap
                          /\ st[s].rx <= Published(s) + 1

\* watch_events with its forwarder: as long as the client is there, it gets
\* exactly the events of the module it asked for, from the call on, in order
\* and without a hole; a subscriber that falls behind ends, it never skips.
WatchIsExact ==
    \A s \in Streams :
        st[s].kind = "watch" /\ st[s].open =>
            /\ {Taken(s)[i] : i \in DOMAIN Taken(s)} =
                  {n \in st[s].since + 1 .. st[s].rx - 1 : st[s].filter \in {All, events[n]}}
            /\ \A i, j \in DOMAIN Taken(s) : i < j => Taken(s)[i] < Taken(s)[j]

\* tail_logs subscribes before it reads the backlog so that "an append racing
\* this call is then never lost": from any line that a stream has taken up to
\* its receiver there is no hole, and a following stream has all that was
\* appended between the call and its receiver.
TailHasNoGap ==
    \A s \in Streams :
        st[s].kind = "tail" /\ st[s].open /\ st[s].stage # "subscribed" =>
            LET seen == {Taken(s)[i] : i \in DOMAIN Taken(s)}
            IN /\ \A n \in seen : n .. st[s].rx - 1 \subseteq seen
               /\ st[s].follow => st[s].since + 1 .. st[s].rx - 1 \subseteq seen

\* "at worst delivered twice (once in the snapshot, once via the live tail)":
\* no line comes a third time, and one comes twice only if it was appended
\* between the subscription and the reading of the backlog.
TwiceOnlyInTheRace ==
    \A s \in Streams, n \in 1 .. lines :
        st[s].kind = "tail" /\ Occurrences(Taken(s), n) > 1 =>
            /\ Occurrences(Taken(s), n) = 2
            /\ n \in st[s].since + 1 .. st[s].base

\* LogRing::backlog after any number of evictions: the replay is the newest
\* lines there were, as many as were asked for and as the ring holds.
BacklogIsNewest ==
    \A s \in Streams :
        st[s].kind = "tail" /\ st[s].open /\ st[s].stage # "subscribed" =>
            LET k == CHOOSE n \in {st[s].ask, Capacity, st[s].base} :
                        \A o \in {st[s].ask, Capacity, st[s].base} : n <= o
            IN /\ Len(Taken(s)) >= k
               /\ \A i \in 1 .. k : Taken(s)[i] = st[s].base - k + i

\* A line appended while a client follows reaches it, unless its stream ends
\* (forward_logs: the receiver lagged, or the client left).
FollowersHear ==
    \A s \in Streams, n \in 1 .. MaxLines :
        st[s].kind = "tail" /\ st[s].follow /\ st[s].open
            /\ st[s].since < n /\ lines = n
            ~> ~st[s].open \/ \E i \in DOMAIN st[s].got : st[s].got[i] = n

\* After a signal the drain of serve_with_incoming_shutdown ends, unless a
\* client stays on a stream without end; a one-shot tail never holds it up.
DrainEnds ==
    []<>(\/ phase # "draining"
         \/ \E s \in Streams : st[s].open /\ st[s].follow /\ st[s].stage = "forward")
=============================================================================
