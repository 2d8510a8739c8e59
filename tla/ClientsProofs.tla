---------------------------- MODULE ClientsProofs ----------------------------
(***************************************************************************)
(* What holds of the daemon's clients: of its streams, for every capacity  *)
(* of its channels and of its ring and every number of streams, lines and  *)
(* events; of the tray's menu and of the command line, for every set of    *)
(* modules, every length of a command line and every change of the table   *)
(* in between.                                                             *)
(***************************************************************************)
EXTENDS MCClients, TLAPS, FiniteSetTheorems, SequenceTheorems

\* How much of the ring a call of `ask` lines gets when `base` were appended.
BacklogSize(ask, base) ==
    IF ask <= base /\ ask <= Capacity THEN ask ELSE IF base <= Capacity THEN base ELSE Capacity

\* How many lines the forwarder has taken, and which is the i-th of them: the
\* backlog first, then what was appended after the subscription.
SentLen(r) == BacklogSize(r.ask, r.base) + (r.rx - 1 - r.since)
Full(r, i) ==
    IF i <= BacklogSize(r.ask, r.base) THEN r.base - BacklogSize(r.ask, r.base) + i
                                       ELSE r.since + (i - BacklogSize(r.ask, r.base))

\* A sequence of the newest lines of l, and the ring is one.
LatestOf(q, l) == Len(q) <= l /\ \A i \in 1..Len(q) : q[i] = l - Len(q) + i

RingIsNewest ==
    /\ Len(ring) <= Capacity /\ (Len(ring) < Capacity => Len(ring) = lines)
    /\ LatestOf(ring, lines)

\* What has been read and what is in the channel are the first lines taken,
\* what is in hand the last ones; only a closed channel loses some in between.
Tailing(r) ==
    /\ r.since <= r.base
    /\ \A i \in 1..Len(r.got) : r.got[i] = Full(r, i)
    /\ \A i \in 1..Len(r.buf) : r.buf[i] = Full(r, Len(r.got) + i)
    /\ \A i \in 1..Len(r.pending) : r.pending[i] = Full(r, SentLen(r) - Len(r.pending) + i)
    /\ Len(r.got) + Len(r.buf) + Len(r.pending) <= SentLen(r)
    /\ r.open => Len(r.got) + Len(r.buf) + Len(r.pending) = SentLen(r)
    /\ ~r.open => r.buf = <<>>

\* A stream that has only subscribed has nothing yet.
Fresh(r) ==
    /\ r.got = <<>> /\ r.buf = <<>> /\ r.pending = <<>>
    /\ r.open /\ r.rx = r.since + 1

StreamShape(r) ==
    /\ r.kind = "none" => r.stage = "unused" /\ ~r.open
    /\ r.stage = "subscribed" => r.kind = "tail" /\ Fresh(r)
    /\ r.stage = "done" => r.pending = <<>>
    /\ r.kind # "none" => r.stage # "unused" /\ r.since < r.rx
    /\ r.kind = "tail" /\ ~r.follow => r.rx = r.since + 1
    /\ r.kind = "tail" /\ r.stage # "subscribed" => Tailing(r)

\* Of the l lines and the events ev that the daemon has published so far.
StreamTimes(r, l, ev) ==
    /\ r.kind = "tail" => r.since <= l /\ r.base <= l
    /\ r.rx <= (IF r.kind = "watch" THEN Len(ev) ELSE l) + 1

TakenSet(q) == {q[i] : i \in 1..Len(q)}
Rising(q) == \A i, j \in 1..Len(q) : i < j => q[i] < q[j]

TakenBy(r) == r.got \o r.buf \o r.pending

\* The events of a watcher's module among those that its receiver has passed.
Due(r, ev) == {n \in r.since + 1 .. r.rx - 1 : r.filter \in {All, ev[n]}}

WatchExact(r, ev) ==
    r.kind = "watch" /\ r.open =>
        TakenSet(TakenBy(r)) = Due(r, ev) /\ Rising(TakenBy(r))

Room(r) == Len(r.buf) <= ForwardCap

StreamOf(r, l, ev) ==
    r \in Stream /\ StreamShape(r) /\ StreamTimes(r, l, ev) /\ WatchExact(r, ev) /\ Room(r)

SourceInv ==
    /\ lines \in Nat /\ ring \in Seq(Nat) /\ RingIsNewest
    /\ events \in Seq(Modules) /\ phase \in {"serving", "draining", "stopped"}

StreamInv ==
    /\ SourceInv
    /\ st \in [Streams -> Stream]
    /\ \A s \in Streams : StreamOf(st[s], lines, events)

-----------------------------------------------------------------------------
(* The sequences *)

LEMMA Moved ==
    ASSUME NEW u \in Seq(Nat), NEW v \in Seq(Nat), NEW w \in Seq(Nat), w # <<>>
    PROVE  u \o Append(v, Head(w)) \o Tail(w) = u \o v \o w
<1> DEFINE x == u \o Append(v, Head(w)) \o Tail(w)
           y == u \o v \o w
<1>1. Head(w) \in Nat /\ Tail(w) \in Seq(Nat) /\ Len(Tail(w)) = Len(w) - 1 /\ Len(w) \in Nat \ {0}
  OBVIOUS
<1>2. Append(v, Head(w)) \in Seq(Nat) /\ Len(Append(v, Head(w))) = Len(v) + 1
  BY <1>1
<1>3. x \in Seq(Nat) /\ y \in Seq(Nat) /\ Len(x) = Len(y) /\ Len(y) = Len(u) + Len(v) + Len(w)
  BY <1>1, <1>2
<1>4. ASSUME NEW i \in 1..Len(y) PROVE x[i] = y[i]
  <2>1. CASE i <= Len(u)
    BY <1>1, <1>2, <2>1
  <2>2. CASE i > Len(u) /\ i <= Len(u) + Len(v)
    BY <1>1, <1>2, <2>2
  <2>3. CASE i = Len(u) + Len(v) + 1
    BY <1>1, <1>2, <2>3
  <2>4. CASE i > Len(u) + Len(v) + 1
    BY <1>1, <1>2, <1>3, <2>4
  <2> QED
    BY <1>3, <2>1, <2>2, <2>3, <2>4
<1> HIDE DEF x, y
<1>5. x = y
  BY <1>3, <1>4, SeqEqual
<1> QED
  BY <1>5 DEF x, y

LEMMA Read ==
    ASSUME NEW u \in Seq(Nat), NEW v \in Seq(Nat), NEW w \in Seq(Nat), v # <<>>
    PROVE  Append(u, Head(v)) \o Tail(v) \o w = u \o v \o w
BY SMTT(60)

LEMMA AppendIs ==
    ASSUME NEW q \in Seq(Nat), NEW n \in Nat
    PROVE  /\ Append(q, n) \in Seq(Nat) /\ Len(Append(q, n)) = Len(q) + 1 /\ Len(q) \in Nat
           /\ \A i \in 1..Len(q) : Append(q, n)[i] = q[i]
           /\ Append(q, n)[Len(q) + 1] = n
OBVIOUS

LEMMA TailIs ==
    ASSUME NEW q \in Seq(Nat), q # <<>>
    PROVE  /\ Tail(q) \in Seq(Nat) /\ Len(Tail(q)) = Len(q) - 1 /\ Len(q) \in Nat \ {0}
           /\ Head(q) = q[1] /\ Head(q) \in Nat
           /\ \A i \in 1..Len(q) - 1 : Tail(q)[i] = q[i + 1]
OBVIOUS

LEMMA LastAppended ==
    ASSUME NEW l \in Nat, NEW q \in Seq(Nat), LatestOf(q, l)
    PROVE  LatestOf(Append(q, l + 1), l + 1)
<1>1. l + 1 \in Nat
  OBVIOUS
<1>2. /\ Append(q, l + 1) \in Seq(Nat) /\ Len(Append(q, l + 1)) = Len(q) + 1 /\ Len(q) \in Nat
      /\ \A i \in 1..Len(q) : Append(q, l + 1)[i] = q[i]
      /\ Append(q, l + 1)[Len(q) + 1] = l + 1
  BY <1>1, AppendIs
<1> DEFINE r == Append(q, l + 1)
           n == Len(q)
<1> HIDE DEF r
<1>3. ASSUME NEW i \in 1..Len(r) PROVE r[i] = l + 1 - Len(r) + i
  <2>1. CASE i = n + 1
    BY <1>2, <2>1 DEF r
  <2>2. CASE i \in 1..n
    <3>1. r[i] = l - n + i
      BY <1>2, <2>2 DEF r, LatestOf
    <3> QED
      BY <1>2, <2>2, <3>1 DEF r
  <2> QED
    BY <1>2, <2>1, <2>2 DEF r
<1>4. Len(r) <= l + 1
  BY <1>2 DEF LatestOf, r
<1> QED
  BY <1>3, <1>4 DEF LatestOf, r

LEMMA LastTail ==
    ASSUME NEW l \in Nat, NEW q \in Seq(Nat), q # <<>>, LatestOf(q, l)
    PROVE  LatestOf(Tail(q), l)
<1> DEFINE r == Tail(q)
           n == Len(q)
<1>1. r \in Seq(Nat) /\ Len(r) = n - 1 /\ n \in Nat \ {0} /\ \A i \in 1..n - 1 : r[i] = q[i + 1]
  BY TailIs
<1>2. n <= l /\ \A i \in 1..n : q[i] = l - n + i
  BY DEF LatestOf
<1> HIDE DEF r, n
<1>3. ASSUME NEW i \in 1..Len(r) PROVE r[i] = l - Len(r) + i
  <2>1. i + 1 \in 1..n /\ i \in 1..n - 1
    BY <1>1
  <2>2. r[i] = l - n + (i + 1)
    BY <2>1, <1>1, <1>2
  <2> QED
    BY <2>2, <1>1
<1>4. Len(r) <= l
  BY <1>1, <1>2
<1> QED
  BY <1>3, <1>4 DEF LatestOf, r

LEMMA PushedType ==
    ASSUME SourceInv
    PROVE  /\ Pushed(ring, lines + 1) \in Seq(Nat)
           /\ Len(Pushed(ring, lines + 1)) <= Capacity
           /\ LatestOf(Pushed(ring, lines + 1), lines + 1)
           /\ Len(Pushed(ring, lines + 1)) < Capacity => Len(Pushed(ring, lines + 1)) = lines + 1
<1> DEFINE n == Len(ring)
<1>1. Capacity \in Nat \ {0} /\ lines \in Nat /\ lines + 1 \in Nat /\ n \in Nat /\ ring \in Seq(Nat)
  BY StreamAssumption DEF SourceInv
<1>2. n <= Capacity /\ n <= lines /\ (n < Capacity => n = lines) /\ LatestOf(ring, lines)
  BY DEF SourceInv, RingIsNewest, LatestOf
<1>3. CASE n >= Capacity
  <2>1. n = Capacity /\ ring # <<>>
    BY <1>1, <1>2, <1>3
  <2>2. Tail(ring) \in Seq(Nat) /\ Len(Tail(ring)) = n - 1 /\ LatestOf(Tail(ring), lines)
    BY <1>1, <1>2, <2>1, TailIs, LastTail
  <2>3. Pushed(ring, lines + 1) = Append(Tail(ring), lines + 1)
    BY <1>3 DEF Pushed
  <2>4. LatestOf(Append(Tail(ring), lines + 1), lines + 1) /\ Append(Tail(ring), lines + 1) \in Seq(Nat)
    BY <1>1, <2>2, LastAppended, AppendIs
  <2>5. Len(Append(Tail(ring), lines + 1)) = Capacity
    BY <1>1, <2>1, <2>2, AppendIs
  <2>6. Capacity <= Capacity /\ ~(Capacity < Capacity)
    BY <1>1
  <2> QED
    BY <2>3, <2>4, <2>5, <2>6
<1>4. CASE n < Capacity
  <2>3. Pushed(ring, lines + 1) = Append(ring, lines + 1)
    BY <1>1, <1>4 DEF Pushed
  <2>4. LatestOf(Append(ring, lines + 1), lines + 1) /\ Append(ring, lines + 1) \in Seq(Nat)
    BY <1>1, <1>2, LastAppended, AppendIs
  <2>5. Len(Append(ring, lines + 1)) = n + 1
    BY <1>1, AppendIs
  <2>6. n + 1 <= Capacity /\ n + 1 = lines + 1
    BY <1>1, <1>2, <1>4
  <2> QED
    BY <2>3, <2>4, <2>5, <2>6
<1> QED
  BY <1>1, <1>3, <1>4

LEMMA BacklogIs ==
    ASSUME NEW ask \in Nat, NEW base \in Nat
    PROVE  /\ BacklogSize(ask, base) \in {ask, base, Capacity}
           /\ BacklogSize(ask, base) \in Nat
           /\ BacklogSize(ask, base) <= ask
           /\ BacklogSize(ask, base) <= base
           /\ BacklogSize(ask, base) <= Capacity
BY StreamAssumption DEF BacklogSize

LEMMA NewestIs ==
    ASSUME SourceInv, NEW ask \in Nat, NEW k, k = BacklogSize(ask, lines)
    PROVE  /\ k \in Nat /\ k <= lines
           /\ Newest(ring, ask) \in Seq(Nat) /\ Len(Newest(ring, ask)) = k
           /\ \A i \in 1..k : Newest(ring, ask)[i] = lines - k + i
<1> DEFINE skip == IF Len(ring) > ask THEN Len(ring) - ask ELSE 0
           n == Len(ring)
<1>1. Capacity \in Nat \ {0} /\ lines \in Nat /\ n \in Nat /\ ring \in Seq(Nat)
  BY StreamAssumption DEF SourceInv
<1>r. n <= Capacity /\ n <= lines /\ (n < Capacity => n = lines)
  BY DEF SourceInv, RingIsNewest, LatestOf
<1>k. k \in {ask, lines, Capacity} /\ k \in Nat /\ k <= ask /\ k <= lines /\ k <= Capacity
  BY <1>1, BacklogIs
<1>2. skip \in Nat /\ skip <= n /\ n - skip = k
  <2>1. CASE n > ask
    <3>1. skip = n - ask
      BY <2>1
    <3> HIDE DEF skip, n
    <3> QED
      BY <1>1, <1>r, <1>k, <2>1, <3>1
  <2>2. CASE n <= ask
    <3>1. skip = 0
      BY <2>2, <1>1
    <3> HIDE DEF skip, n
    <3> QED
      BY <1>1, <1>r, <1>k, <2>2, <3>1
  <2> HIDE DEF skip, n
  <2> QED
    BY <1>1, <2>1, <2>2
<1>3. Newest(ring, ask) = SubSeq(ring, skip + 1, n)
  BY DEF Newest
<1> HIDE DEF skip
<1>4. /\ SubSeq(ring, skip + 1, n) \in Seq(Nat)
      /\ Len(SubSeq(ring, skip + 1, n)) = n - skip
      /\ \A i \in 1..(n - skip) : SubSeq(ring, skip + 1, n)[i] = ring[skip + i]
  BY <1>1, <1>2
<1>5. \A i \in 1..n : ring[i] = lines - n + i
  BY DEF SourceInv, RingIsNewest, LatestOf
<1> HIDE DEF n
<1>6. ASSUME NEW i \in 1..k PROVE Newest(ring, ask)[i] = lines - k + i
  <2>1. skip + i \in 1..n /\ i \in 1..(n - skip)
    BY <1>1, <1>2, <1>k
  <2>2. Newest(ring, ask)[i] = lines - n + (skip + i)
    BY <2>1, <1>3, <1>4, <1>5
  <2> QED
    BY <2>2, <1>1, <1>2, <1>k
<1> QED
  BY <1>2, <1>3, <1>4, <1>6, <1>k

-----------------------------------------------------------------------------
(* What the steps do to the record of a stream *)

LEMMA StreamFields ==
    ASSUME NEW r \in Stream
    PROVE  /\ r.kind \in Kinds /\ r.stage \in Stages /\ r.filter \in Modules \cup {All}
           /\ r.follow \in BOOLEAN /\ r.ask \in Nat /\ r.rx \in Nat
           /\ r.pending \in Seq(Nat) /\ r.buf \in Seq(Nat) /\ r.got \in Seq(Nat)
           /\ r.open \in BOOLEAN /\ r.since \in Nat /\ r.base \in Nat
BY StreamAssumption DEF Stream

\* The call that a stream answers stays the same.
SameCall(q, r) ==
    /\ q.kind = r.kind /\ q.filter = r.filter /\ q.follow = r.follow
    /\ q.ask = r.ask /\ q.since = r.since

\* Of a step that changes the stream s and nothing else.
Only(s) ==
    /\ st' \in [Streams -> Stream]
    /\ \A o \in Streams \ {s} : st'[o] = st[o]
    /\ lines' = lines /\ ring' = ring /\ events' = events /\ phase' = phase

LEMMA UnusedFields ==
    /\ Unused \in Stream /\ Unused.kind = "none" /\ Unused.stage = "unused"
    /\ Unused.got = <<>> /\ Unused.buf = <<>> /\ Unused.pending = <<>>
    /\ Unused.rx = 0 /\ Unused.since = 0 /\ Unused.base = 0
    /\ ~Unused.open /\ Unused.filter = All /\ ~Unused.follow
<1>1. (CHOOSE n \in Asks : TRUE) \in Asks
  BY StreamAssumption
<1> QED
  BY <1>1 DEF Unused, Stream, Kinds, Stages

LEMMA WatchFields ==
    ASSUME st \in [Streams -> Stream], events \in Seq(Modules), lines \in Nat,
           NEW s \in Streams, NEW f \in Modules \cup {All}, WatchEvents(s, f)
    PROVE  /\ Only(s) /\ st'[s].kind = "watch" /\ st'[s].stage = "forward"
           /\ st'[s].filter = f /\ st'[s].open /\ st'[s].rx = Len(events) + 1
           /\ st'[s].since = Len(events) /\ st'[s].follow = TRUE
           /\ st'[s].got = <<>> /\ st'[s].buf = <<>> /\ st'[s].pending = <<>>
<1> DEFINE q == [Unused EXCEPT !.kind = "watch", !.stage = "forward",
                    !.filter = f, !.follow = TRUE, !.open = TRUE,
                    !.rx = FirstSeen(Len(events)), !.since = Len(events)]
<1>1. Len(events) \in Nat /\ FirstSeen(Len(events)) = Len(events) + 1
  BY DEF FirstSeen
<1>2. q \in Stream
  <2>1. Unused \in Stream /\ FirstSeen(Len(events)) \in Nat
    BY <1>1, UnusedFields
  <2> QED
    BY <1>1, <2>1 DEF Stream, Kinds, Stages
<1>3. /\ q.kind = "watch" /\ q.stage = "forward"
      /\ q.filter = f /\ q.open /\ q.rx = Len(events) + 1 /\ q.follow = TRUE
      /\ q.since = Len(events) /\ q.got = <<>> /\ q.buf = <<>> /\ q.pending = <<>>
  BY <1>1, UnusedFields DEF Stream
<1>4. st' = [st EXCEPT ![s] = q] /\ lines' = lines /\ ring' = ring /\ events' = events /\ phase' = phase
  BY DEF WatchEvents
<1> HIDE DEF q
<1>5. st'[s] = q /\ Only(s)
  BY <1>2, <1>4 DEF Only
<1> QED
  BY <1>3, <1>5

LEMMA TailFields ==
    ASSUME st \in [Streams -> Stream], lines \in Nat,
           NEW s \in Streams, NEW ask \in Asks, NEW follow \in BOOLEAN, TailLogs(s, ask, follow)
    PROVE  /\ Only(s) /\ st'[s].kind = "tail" /\ st'[s].stage = "subscribed"
           /\ st'[s].open /\ st'[s].rx = lines + 1
           /\ st'[s].since = lines /\ st'[s].base = 0
           /\ st'[s].got = <<>> /\ st'[s].buf = <<>> /\ st'[s].pending = <<>>
<1> DEFINE q == [Unused EXCEPT !.kind = "tail", !.stage = "subscribed",
                    !.follow = follow, !.ask = ask, !.open = TRUE,
                    !.rx = FirstSeen(lines), !.since = lines]
<1>1. FirstSeen(lines) = lines + 1
  BY DEF FirstSeen
<1>2. q \in Stream
  <2>1. Unused \in Stream /\ FirstSeen(lines) \in Nat
    BY <1>1, UnusedFields
  <2> QED
    BY <1>1, <2>1 DEF Stream, Kinds, Stages
<1>3. /\ q.kind = "tail" /\ q.stage = "subscribed"
      /\ q.open /\ q.rx = lines + 1 /\ q.base = 0
      /\ q.since = lines /\ q.got = <<>> /\ q.buf = <<>> /\ q.pending = <<>>
  BY <1>1, UnusedFields DEF Stream
<1>4. st' = [st EXCEPT ![s] = q] /\ lines' = lines /\ ring' = ring /\ events' = events /\ phase' = phase
  BY DEF TailLogs
<1> HIDE DEF q
<1>5. st'[s] = q /\ Only(s)
  BY <1>2, <1>4 DEF Only
<1> QED
  BY <1>3, <1>5

\* A step that gives the record of s the stage g, the sequences p, b, t and o, x, e.
Becomes(s, g, x, p, b_, t, o, e) ==
    /\ Only(s) /\ SameCall(st'[s], st[s])
    /\ st'[s].stage = g /\ st'[s].rx = x /\ st'[s].pending = p
    /\ st'[s].buf = b_ /\ st'[s].got = t /\ st'[s].open = o /\ st'[s].base = e

LEMMA ReadBacklogFields ==
    ASSUME StreamInv, NEW s \in Streams, ReadBacklog(s)
    PROVE  Becomes(s, "forward", st[s].rx, Newest(ring, st[s].ask), st[s].buf,
                   st[s].got, st[s].open, lines)
<1> DEFINE r == st[s]
           n == Newest(ring, r.ask)
           q == [r EXCEPT !.stage = "forward", !.pending = n, !.base = lines]
<1>1. st \in [Streams -> Stream] /\ r \in Stream /\ lines \in Nat
  BY DEF StreamInv, SourceInv
<1>2. n \in Seq(Nat)
  BY <1>1, NewestIs, StreamFields DEF StreamInv
<1> HIDE DEF n
<1>3. st' = [st EXCEPT ![s] = q] /\ lines' = lines /\ ring' = ring /\ events' = events /\ phase' = phase
  BY <1>1 DEF ReadBacklog, n
<1> HIDE DEF r
<1>4. q \in Stream
  BY <1>1, <1>2 DEF Stream, Stages
<1>5. /\ SameCall(q, r) /\ q.stage = "forward" /\ q.pending = n /\ q.base = lines
      /\ q.rx = r.rx /\ q.buf = r.buf /\ q.got = r.got /\ q.open = r.open
  BY <1>1 DEF SameCall, Stream
<1> HIDE DEF q
<1>6. st'[s] = q /\ Only(s)
  BY <1>1, <1>3, <1>4 DEF Only
<1> QED
  BY <1>5, <1>6 DEF Becomes, r, n

LEMMA SentFields ==
    ASSUME StreamInv, NEW s \in Streams, Forward(s), st[s].open
    PROVE  Becomes(s, st[s].stage, st[s].rx, Tail(st[s].pending), Append(st[s].buf, Head(st[s].pending)), st[s].got, st[s].open, st[s].base)
<1> DEFINE r == st[s]
           q == [r EXCEPT !.buf = Append(r.buf, Head(r.pending)), !.pending = Tail(r.pending)]
<1>1. st \in [Streams -> Stream] /\ r \in Stream
  BY DEF StreamInv
<1>2. Append(r.buf, Head(r.pending)) \in Seq(Nat) /\ Tail(r.pending) \in Seq(Nat)
  BY <1>1, StreamFields DEF Forward
<1>3. st' = [st EXCEPT ![s] = q] /\ lines' = lines /\ ring' = ring /\ events' = events /\ phase' = phase
  BY <1>1 DEF Forward
<1> HIDE DEF r
<1>4. q \in Stream
  BY <1>1, <1>2 DEF Stream, Stages
<1>5. /\ SameCall(q, r) /\ q.stage = r.stage /\ q.rx = r.rx /\ q.pending = Tail(r.pending)
      /\ q.buf = Append(r.buf, Head(r.pending)) /\ q.got = r.got /\ q.open = r.open /\ q.base = r.base
  BY <1>1 DEF SameCall, Stream
<1> HIDE DEF q
<1>6. st'[s] = q /\ Only(s)
  BY <1>1, <1>3, <1>4 DEF Only
<1> QED
  BY <1>5, <1>6 DEF Becomes, r

LEMMA UnsentFields ==
    ASSUME StreamInv, NEW s \in Streams, Forward(s), ~st[s].open
    PROVE  Becomes(s, "done", st[s].rx, <<>>, st[s].buf, st[s].got, st[s].open, st[s].base)
<1> DEFINE r == st[s]
           q == [r EXCEPT !.stage = "done", !.pending = <<>>]
<1>1. st \in [Streams -> Stream] /\ r \in Stream
  BY DEF StreamInv
<1>2. <<>> \in Seq(Nat)
  BY <1>1, StreamFields
<1>3. st' = [st EXCEPT ![s] = q] /\ lines' = lines /\ ring' = ring /\ events' = events /\ phase' = phase
  BY <1>1 DEF Forward
<1> HIDE DEF r
<1>4. q \in Stream
  BY <1>1, <1>2 DEF Stream, Stages
<1>5. /\ SameCall(q, r) /\ q.stage = "done" /\ q.rx = r.rx /\ q.pending = <<>>
      /\ q.buf = r.buf /\ q.got = r.got /\ q.open = r.open /\ q.base = r.base
  BY <1>1 DEF SameCall, Stream
<1> HIDE DEF q
<1>6. st'[s] = q /\ Only(s)
  BY <1>1, <1>3, <1>4 DEF Only
<1> QED
  BY <1>5, <1>6 DEF Becomes, r

LEMMA LagFields ==
    ASSUME StreamInv, NEW s \in Streams, Receive(s), Lagged(s)
    PROVE  Becomes(s, "done", st[s].rx, st[s].pending, st[s].buf, st[s].got, st[s].open, st[s].base)
<1> DEFINE r == st[s]
           q == [r EXCEPT !.stage = "done"]
<1>1. st \in [Streams -> Stream] /\ r \in Stream
  BY DEF StreamInv
<1>2. r.stage = "forward"
  BY <1>1, StreamFields DEF Receive
<1>3. st' = [st EXCEPT ![s] = q] /\ lines' = lines /\ ring' = ring /\ events' = events /\ phase' = phase
  BY <1>1 DEF Receive
<1> HIDE DEF r
<1>4. q \in Stream
  BY <1>1, <1>2 DEF Stream, Stages
<1>5. /\ SameCall(q, r) /\ q.stage = "done" /\ q.rx = r.rx /\ q.pending = r.pending
      /\ q.buf = r.buf /\ q.got = r.got /\ q.open = r.open /\ q.base = r.base
  BY <1>1 DEF SameCall, Stream
<1> HIDE DEF q
<1>6. st'[s] = q /\ Only(s)
  BY <1>1, <1>3, <1>4 DEF Only
<1> QED
  BY <1>5, <1>6 DEF Becomes, r

LEMMA WantedFields ==
    ASSUME StreamInv, NEW s \in Streams, Receive(s), ~Lagged(s), Wanted(s, st[s].rx)
    PROVE  Becomes(s, st[s].stage, st[s].rx + 1, <<st[s].rx>>, st[s].buf, st[s].got, st[s].open, st[s].base)
<1> DEFINE r == st[s]
           q == [r EXCEPT !.rx = r.rx + 1, !.pending = <<r.rx>>]
<1>1. st \in [Streams -> Stream] /\ r \in Stream
  BY DEF StreamInv
<1>2. r.rx + 1 \in Nat /\ <<r.rx>> \in Seq(Nat)
  BY <1>1, StreamFields
<1>3. st' = [st EXCEPT ![s] = q] /\ lines' = lines /\ ring' = ring /\ events' = events /\ phase' = phase
  BY <1>1 DEF Receive
<1> HIDE DEF r
<1>4. q \in Stream
  BY <1>1, <1>2 DEF Stream, Stages
<1>5. /\ SameCall(q, r) /\ q.stage = r.stage /\ q.rx = r.rx + 1 /\ q.pending = <<r.rx>>
      /\ q.buf = r.buf /\ q.got = r.got /\ q.open = r.open /\ q.base = r.base
  BY <1>1 DEF SameCall, Stream
<1> HIDE DEF q
<1>6. st'[s] = q /\ Only(s)
  BY <1>1, <1>3, <1>4 DEF Only
<1> QED
  BY <1>5, <1>6 DEF Becomes, r

LEMMA UnwantedFields ==
    ASSUME StreamInv, NEW s \in Streams, Receive(s), ~Lagged(s), ~Wanted(s, st[s].rx)
    PROVE  Becomes(s, st[s].stage, st[s].rx + 1, <<>>, st[s].buf, st[s].got, st[s].open, st[s].base)
<1> DEFINE r == st[s]
           q == [r EXCEPT !.rx = r.rx + 1, !.pending = <<>>]
<1>1. st \in [Streams -> Stream] /\ r \in Stream
  BY DEF StreamInv
<1>2. r.rx + 1 \in Nat /\ <<>> \in Seq(Nat)
  BY <1>1, StreamFields
<1>3. st' = [st EXCEPT ![s] = q] /\ lines' = lines /\ ring' = ring /\ events' = events /\ phase' = phase
  BY <1>1 DEF Receive
<1> HIDE DEF r
<1>4. q \in Stream
  BY <1>1, <1>2 DEF Stream, Stages
<1>5. /\ SameCall(q, r) /\ q.stage = r.stage /\ q.rx = r.rx + 1 /\ q.pending = <<>>
      /\ q.buf = r.buf /\ q.got = r.got /\ q.open = r.open /\ q.base = r.base
  BY <1>1 DEF SameCall, Stream
<1> HIDE DEF q
<1>6. st'[s] = q /\ Only(s)
  BY <1>1, <1>3, <1>4 DEF Only
<1> QED
  BY <1>5, <1>6 DEF Becomes, r

LEMMA BacklogSentFields ==
    ASSUME StreamInv, NEW s \in Streams, BacklogSent(s)
    PROVE  Becomes(s, "done", st[s].rx, st[s].pending, st[s].buf, st[s].got, st[s].open, st[s].base)
<1> DEFINE r == st[s]
           q == [r EXCEPT !.stage = "done"]
<1>1. st \in [Streams -> Stream] /\ r \in Stream
  BY DEF StreamInv
<1>2. r.stage = "forward"
  BY <1>1, StreamFields DEF BacklogSent
<1>3. st' = [st EXCEPT ![s] = q] /\ lines' = lines /\ ring' = ring /\ events' = events /\ phase' = phase
  BY <1>1 DEF BacklogSent
<1> HIDE DEF r
<1>4. q \in Stream
  BY <1>1, <1>2 DEF Stream, Stages
<1>5. /\ SameCall(q, r) /\ q.stage = "done" /\ q.rx = r.rx /\ q.pending = r.pending
      /\ q.buf = r.buf /\ q.got = r.got /\ q.open = r.open /\ q.base = r.base
  BY <1>1 DEF SameCall, Stream
<1> HIDE DEF q
<1>6. st'[s] = q /\ Only(s)
  BY <1>1, <1>3, <1>4 DEF Only
<1> QED
  BY <1>5, <1>6 DEF Becomes, r

LEMMA DeliverFields ==
    ASSUME StreamInv, NEW s \in Streams, Deliver(s)
    PROVE  Becomes(s, st[s].stage, st[s].rx, st[s].pending, Tail(st[s].buf), Append(st[s].got, Head(st[s].buf)), st[s].open, st[s].base)
<1> DEFINE r == st[s]
           q == [r EXCEPT !.got = Append(r.got, Head(r.buf)), !.buf = Tail(r.buf)]
<1>1. st \in [Streams -> Stream] /\ r \in Stream
  BY DEF StreamInv
<1>2. Append(r.got, Head(r.buf)) \in Seq(Nat) /\ Tail(r.buf) \in Seq(Nat)
  BY <1>1, StreamFields DEF Deliver
<1>3. st' = [st EXCEPT ![s] = q] /\ lines' = lines /\ ring' = ring /\ events' = events /\ phase' = phase
  BY <1>1 DEF Deliver
<1> HIDE DEF r
<1>4. q \in Stream
  BY <1>1, <1>2 DEF Stream, Stages
<1>5. /\ SameCall(q, r) /\ q.stage = r.stage /\ q.rx = r.rx /\ q.pending = r.pending
      /\ q.buf = Tail(r.buf) /\ q.got = Append(r.got, Head(r.buf)) /\ q.open = r.open /\ q.base = r.base
  BY <1>1 DEF SameCall, Stream
<1> HIDE DEF q
<1>6. st'[s] = q /\ Only(s)
  BY <1>1, <1>3, <1>4 DEF Only
<1> QED
  BY <1>5, <1>6 DEF Becomes, r

LEMMA EndFields ==
    ASSUME StreamInv, NEW s \in Streams, EndOfStream(s)
    PROVE  Becomes(s, st[s].stage, st[s].rx, st[s].pending, st[s].buf, st[s].got, FALSE, st[s].base)
<1> DEFINE r == st[s]
           q == [r EXCEPT !.open = FALSE]
<1>1. st \in [Streams -> Stream] /\ r \in Stream
  BY DEF StreamInv
<1>2. r.open
  BY <1>1, StreamFields DEF EndOfStream
<1>3. st' = [st EXCEPT ![s] = q] /\ lines' = lines /\ ring' = ring /\ events' = events /\ phase' = phase
  BY <1>1 DEF EndOfStream
<1> HIDE DEF r
<1>4. q \in Stream
  BY <1>1, <1>2 DEF Stream, Stages
<1>5. /\ SameCall(q, r) /\ q.stage = r.stage /\ q.rx = r.rx /\ q.pending = r.pending
      /\ q.buf = r.buf /\ q.got = r.got /\ q.open = FALSE /\ q.base = r.base
  BY <1>1 DEF SameCall, Stream
<1> HIDE DEF q
<1>6. st'[s] = q /\ Only(s)
  BY <1>1, <1>3, <1>4 DEF Only
<1> QED
  BY <1>5, <1>6 DEF Becomes, r

LEMMA DisconnectFields ==
    ASSUME StreamInv, NEW s \in Streams, Disconnect(s)
    PROVE  Becomes(s, st[s].stage, st[s].rx, st[s].pending, <<>>, st[s].got, FALSE, st[s].base)
<1> DEFINE r == st[s]
           q == [r EXCEPT !.open = FALSE, !.buf = <<>>]
<1>1. st \in [Streams -> Stream] /\ r \in Stream
  BY DEF StreamInv
<1>2. <<>> \in Seq(Nat)
  BY <1>1, StreamFields
<1>3. st' = [st EXCEPT ![s] = q] /\ lines' = lines /\ ring' = ring /\ events' = events /\ phase' = phase
  BY <1>1 DEF Disconnect
<1> HIDE DEF r
<1>4. q \in Stream
  BY <1>1, <1>2 DEF Stream, Stages
<1>5. /\ SameCall(q, r) /\ q.stage = r.stage /\ q.rx = r.rx /\ q.pending = r.pending
      /\ q.buf = <<>> /\ q.got = r.got /\ q.open = FALSE /\ q.base = r.base
  BY <1>1 DEF SameCall, Stream
<1> HIDE DEF q
<1>6. st'[s] = q /\ Only(s)
  BY <1>1, <1>3, <1>4 DEF Only
<1> QED
  BY <1>5, <1>6 DEF Becomes, r

-----------------------------------------------------------------------------
(* What a stream has taken *)

LEMMA OneMore ==
    ASSUME NEW x \in Seq(Nat), NEW y \in Seq(Nat), NEW n \in Nat
    PROVE  x \o y \o <<n>> = Append(x \o y \o <<>>, n)
OBVIOUS

LEMMA ConcatIs ==
    ASSUME NEW x \in Seq(Nat), NEW y \in Seq(Nat), NEW z \in Seq(Nat)
    PROVE  /\ x \o y \o z \in Seq(Nat) /\ Len(x \o y \o z) \in Nat
           /\ Len(x \o y \o z) = Len(x) + Len(y) + Len(z)
           /\ Len(x) \in Nat /\ Len(y) \in Nat /\ Len(z) \in Nat
           /\ \A i \in 1..Len(x) : (x \o y \o z)[i] = x[i]
           /\ \A i \in 1..Len(y) : (x \o y \o z)[Len(x) + i] = y[i]
           /\ \A i \in 1..Len(z) : (x \o y \o z)[Len(x) + Len(y) + i] = z[i]
OBVIOUS

LEMMA TakenType ==
    ASSUME NEW r \in Stream
    PROVE  /\ TakenBy(r) \in Seq(Nat) /\ Len(TakenBy(r)) \in Nat
           /\ Len(TakenBy(r)) = Len(r.got) + Len(r.buf) + Len(r.pending)
           /\ Len(r.got) \in Nat /\ Len(r.buf) \in Nat /\ Len(r.pending) \in Nat
<1>1. r.got \in Seq(Nat) /\ r.buf \in Seq(Nat) /\ r.pending \in Seq(Nat)
  BY StreamFields
<1> QED
  BY <1>1, ConcatIs DEF TakenBy

\* Appending an item that is larger than all that was taken.
LEMMA Extended ==
    ASSUME NEW t \in Seq(Nat), NEW n \in Nat, \A d \in TakenSet(t) : d < n, Rising(t)
    PROVE  TakenSet(Append(t, n)) = TakenSet(t) \cup {n} /\ Rising(Append(t, n))
<1> DEFINE u == Append(t, n)
<1>1. /\ Len(u) = Len(t) + 1 /\ Len(t) \in Nat /\ u[Len(t) + 1] = n
      /\ \A i \in 1..Len(t) : u[i] = t[i]
  BY AppendIs
<1>2. \A i \in 1..Len(u) : i \in 1..Len(t) \/ i = Len(t) + 1
  BY <1>1
<1>3. \A i \in 1..Len(t) : i \in 1..Len(u)
  BY <1>1
<1>4. Len(t) + 1 \in 1..Len(u)
  BY <1>1
<1> HIDE DEF u
<1>5. TakenSet(u) = TakenSet(t) \cup {n}
  BY <1>1, <1>2, <1>3, <1>4 DEF TakenSet
<1>6. ASSUME NEW i \in 1..Len(u), NEW j \in 1..Len(u), i < j PROVE u[i] < u[j]
  <2>1. i \in 1..Len(t)
    BY <1>1, <1>6
  <2>2. u[i] = t[i] /\ t[i] \in TakenSet(t)
    BY <1>1, <2>1 DEF TakenSet
  <2>3. CASE j \in 1..Len(t)
    BY <1>1, <1>6, <2>1, <2>2, <2>3 DEF Rising
  <2>4. CASE j = Len(t) + 1
    BY <1>1, <2>2, <2>4
  <2> QED
    BY <1>2, <2>3, <2>4
<1> QED
  BY <1>5, <1>6 DEF Rising, u

\* Sending and reading move the items and leave what was taken.
LEMMA SameTaken ==
    ASSUME NEW q \in Stream, NEW r \in Stream, NEW ev, SameCall(q, r), q.rx = r.rx,
           TakenBy(q) = TakenBy(r), q.open = r.open, WatchExact(r, ev)
    PROVE  WatchExact(q, ev)
BY DEF WatchExact, SameCall, Due

\* A watcher whose receiver moves on by one event.
LEMMA WatchMoves ==
    ASSUME NEW q \in Stream, NEW r \in Stream, NEW ev \in Seq(Modules), SameCall(q, r),
           r.kind = "watch", r.open, r.pending = <<>>, r.since < r.rx, r.rx <= Len(ev),
           q.rx = r.rx + 1, q.buf = r.buf, q.got = r.got,
           \/ r.filter \in {All, ev[r.rx]} /\ q.pending = <<r.rx>>
           \/ r.filter \notin {All, ev[r.rx]} /\ q.pending = <<>>,
           WatchExact(r, ev)
    PROVE  WatchExact(q, ev)
<1> DEFINE t == TakenBy(r)
           u == TakenBy(q)
           D == Due(r, ev)
<1>1. r.rx \in Nat /\ r.since \in Nat /\ q.since = r.since /\ q.filter = r.filter
  BY StreamFields DEF SameCall
<1>2. t \in Seq(Nat) /\ TakenSet(t) = D /\ Rising(t)
  BY TakenType DEF WatchExact
<1>3. \A d \in D : d < r.rx
  BY <1>1 DEF Due
<1>4. r.since + 1 .. q.rx - 1 = (r.since + 1 .. r.rx - 1) \cup {r.rx}
  BY <1>1
<1>5. CASE r.filter \in {All, ev[r.rx]} /\ q.pending = <<r.rx>>
  <2>1. u = Append(t, r.rx)
    <3>1. r.got \in Seq(Nat) /\ r.buf \in Seq(Nat)
      BY StreamFields
    <3>2. u = r.got \o r.buf \o <<r.rx>> /\ t = r.got \o r.buf \o <<>>
      BY <1>5 DEF TakenBy
    <3> QED
      BY <1>1, <3>1, <3>2, OneMore
  <2>2. Due(q, ev) = D \cup {r.rx}
    BY <1>1, <1>4, <1>5 DEF Due
  <2> HIDE DEF t, u, D
  <2>3. TakenSet(u) = D \cup {r.rx} /\ Rising(u)
    BY <1>1, <1>2, <1>3, <2>1, Extended
  <2> QED
    BY <2>2, <2>3 DEF WatchExact, u
<1>6. CASE r.filter \notin {All, ev[r.rx]} /\ q.pending = <<>>
  <2>1. u = t
    BY <1>6 DEF TakenBy
  <2>2. Due(q, ev) = D
    BY <1>1, <1>4, <1>6 DEF Due
  <2> HIDE DEF t, u, D
  <2> QED
    BY <1>2, <2>1, <2>2 DEF WatchExact, u
<1> QED
  BY <1>5, <1>6

-----------------------------------------------------------------------------
(* The lines of a tail *)

LEMMA FullSame ==
    ASSUME NEW q, NEW r, q.ask = r.ask, q.base = r.base, q.since = r.since
    PROVE  \A i : Full(q, i) = Full(r, i)
BY DEF Full

LEMMA SentLenIs ==
    ASSUME NEW r \in Stream, r.since < r.rx
    PROVE  SentLen(r) \in Nat /\ BacklogSize(r.ask, r.base) <= SentLen(r)
<1>1. BacklogSize(r.ask, r.base) \in Nat /\ r.rx \in Nat /\ r.since \in Nat
  BY BacklogIs, StreamFields
<1> DEFINE k == BacklogSize(r.ask, r.base)
<1> HIDE DEF k
<1>2. SentLen(r) = k + (r.rx - 1 - r.since)
  BY DEF SentLen, k
<1>3. k + (r.rx - 1 - r.since) \in Nat /\ k <= k + (r.rx - 1 - r.since)
  BY <1>1 DEF k
<1> QED
  BY <1>2, <1>3 DEF k

LEMMA SentTailing ==
    ASSUME NEW q \in Stream, NEW r \in Stream, SameCall(q, r), Tailing(r), r.since < r.rx,
           r.open, r.pending # <<>>, q.rx = r.rx, q.pending = Tail(r.pending),
           q.buf = Append(r.buf, Head(r.pending)), q.got = r.got, q.open = r.open, q.base = r.base
    PROVE  Tailing(q)
<1> DEFINE g == Len(r.got)
           k == Len(r.buf)
           p == Len(r.pending)
           n == SentLen(r)
<1>1. /\ q.ask = r.ask /\ q.since = r.since
      /\ r.got \in Seq(Nat) /\ r.buf \in Seq(Nat) /\ r.pending \in Seq(Nat)
  BY StreamFields DEF SameCall
<1>2. SentLen(q) = n /\ n \in Nat /\ \A i : Full(q, i) = Full(r, i)
  BY <1>1, SentLenIs, FullSame DEF SentLen
<1>3. /\ Head(r.pending) \in Nat /\ Head(r.pending) = r.pending[1] /\ p \in Nat \ {0}
      /\ Len(q.pending) = p - 1 /\ \A i \in 1..p - 1 : q.pending[i] = r.pending[i + 1]
  BY <1>1, TailIs
<1>4. /\ g \in Nat /\ k \in Nat /\ Len(q.got) = g /\ Len(q.buf) = k + 1
      /\ q.buf[k + 1] = r.pending[1] /\ \A i \in 1..k : q.buf[i] = r.buf[i]
  BY <1>1, <1>3, AppendIs
<1>5. /\ g + k + p = n /\ r.since <= r.base
      /\ \A i \in 1..g : r.got[i] = Full(r, i)
      /\ \A i \in 1..k : r.buf[i] = Full(r, g + i)
      /\ \A i \in 1..p : r.pending[i] = Full(r, n - p + i)
  BY DEF Tailing
<1> HIDE DEF g, k, p, n
<1>6. Len(q.got) + Len(q.buf) + Len(q.pending) = n
  <2>1. g + (k + 1) + (p - 1) = n
    BY <1>2, <1>3, <1>4, <1>5
  <2> QED
    BY <2>1, <1>3, <1>4
<1>7. ASSUME NEW i \in 1..Len(q.buf) PROVE q.buf[i] = Full(q, Len(q.got) + i)
  <2>1. CASE i \in 1..k
    BY <1>2, <1>4, <1>5, <2>1
  <2>2. CASE i = k + 1
    <3>1. n - p + 1 = g + (k + 1) /\ 1 \in 1..p
      BY <1>2, <1>3, <1>4, <1>5
    <3>2. r.pending[1] = Full(r, g + (k + 1))
      BY <3>1, <1>5
    <3> QED
      BY <3>2, <2>2, <1>2, <1>4
  <2> QED
    BY <1>4, <2>1, <2>2
<1>8. ASSUME NEW i \in 1..Len(q.pending)
      PROVE  q.pending[i] = Full(q, SentLen(q) - Len(q.pending) + i)
  <2>0. i \in 1..p - 1
    BY <1>3
  <2>1. i + 1 \in 1..p /\ n - p + (i + 1) = n - (p - 1) + i
    BY <1>2, <1>3, <2>0
  <2>2. q.pending[i] = Full(r, n - p + (i + 1))
    BY <2>0, <2>1, <1>3, <1>5
  <2> QED
    BY <2>1, <2>2, <1>2, <1>3
<1>9. \A i \in 1..Len(q.got) : q.got[i] = Full(q, i)
  BY <1>2, <1>4, <1>5
<1>10. n <= n
  BY <1>2
<1> QED
  BY <1>1, <1>2, <1>5, <1>6, <1>7, <1>8, <1>9, <1>10 DEF Tailing

LEMMA DeliveredTailing ==
    ASSUME NEW q \in Stream, NEW r \in Stream, SameCall(q, r), Tailing(r), r.since < r.rx,
           r.open, r.buf # <<>>, q.rx = r.rx, q.pending = r.pending,
           q.got = Append(r.got, Head(r.buf)), q.buf = Tail(r.buf), q.open = r.open, q.base = r.base
    PROVE  Tailing(q)
<1> DEFINE g == Len(r.got)
           k == Len(r.buf)
           p == Len(r.pending)
           n == SentLen(r)
<1>1. /\ q.ask = r.ask /\ q.since = r.since
      /\ r.got \in Seq(Nat) /\ r.buf \in Seq(Nat) /\ r.pending \in Seq(Nat)
  BY StreamFields DEF SameCall
<1>2. SentLen(q) = n /\ n \in Nat /\ \A i : Full(q, i) = Full(r, i)
  BY <1>1, SentLenIs, FullSame DEF SentLen
<1>3. /\ Head(r.buf) \in Nat /\ Head(r.buf) = r.buf[1] /\ k \in Nat \ {0}
      /\ Len(q.buf) = k - 1 /\ \A i \in 1..k - 1 : q.buf[i] = r.buf[i + 1]
  BY <1>1, TailIs
<1>4. /\ g \in Nat /\ p \in Nat /\ Len(q.got) = g + 1 /\ Len(q.pending) = p
      /\ q.got[g + 1] = r.buf[1] /\ \A i \in 1..g : q.got[i] = r.got[i]
  BY <1>1, <1>3, AppendIs
<1>5. /\ g + k + p = n /\ r.since <= r.base
      /\ \A i \in 1..g : r.got[i] = Full(r, i)
      /\ \A i \in 1..k : r.buf[i] = Full(r, g + i)
      /\ \A i \in 1..p : r.pending[i] = Full(r, n - p + i)
  BY DEF Tailing
<1> HIDE DEF g, k, p, n
<1>6. Len(q.got) + Len(q.buf) + Len(q.pending) = n
  <2>1. (g + 1) + (k - 1) + p = n
    BY <1>2, <1>3, <1>4, <1>5
  <2> QED
    BY <2>1, <1>3, <1>4
<1>7. ASSUME NEW i \in 1..Len(q.got) PROVE q.got[i] = Full(q, i)
  <2>1. CASE i \in 1..g
    BY <1>2, <1>4, <1>5, <2>1
  <2>2. CASE i = g + 1
    <3>1. 1 \in 1..k
      BY <1>3
    <3>2. r.buf[1] = Full(r, g + 1)
      BY <3>1, <1>5
    <3> QED
      BY <3>2, <2>2, <1>2, <1>4
  <2> QED
    BY <1>4, <2>1, <2>2
<1>8. ASSUME NEW i \in 1..Len(q.buf)
      PROVE  q.buf[i] = Full(q, Len(q.got) + i)
  <2>0. i \in 1..k - 1
    BY <1>3
  <2>1. i + 1 \in 1..k /\ g + (i + 1) = (g + 1) + i
    BY <1>3, <1>4, <2>0
  <2>2. q.buf[i] = Full(r, g + (i + 1))
    BY <2>0, <2>1, <1>3, <1>5
  <2>3. Len(q.got) + i = g + (i + 1)
    BY <2>1, <1>4
  <2> QED
    BY <2>2, <2>3, <1>2
<1>9. \A i \in 1..Len(q.pending) : q.pending[i] = Full(q, SentLen(q) - Len(q.pending) + i)
  BY <1>2, <1>4, <1>5
<1>10. n <= n
  BY <1>2
<1> QED
  BY <1>1, <1>2, <1>5, <1>6, <1>7, <1>8, <1>9, <1>10 DEF Tailing

LEMMA ReceivedTailing ==
    ASSUME NEW q \in Stream, NEW r \in Stream, SameCall(q, r), Tailing(r), r.since < r.rx,
           r.pending = <<>>, q.rx = r.rx + 1, q.pending = <<r.rx>>,
           q.got = r.got, q.buf = r.buf, q.open = r.open, q.base = r.base
    PROVE  Tailing(q)
<1> DEFINE g == Len(r.got)
           k == Len(r.buf)
           n == SentLen(r)
           B == BacklogSize(r.ask, r.base)
<1>1. /\ q.ask = r.ask /\ q.since = r.since /\ r.since \in Nat /\ r.rx \in Nat
      /\ r.ask \in Nat /\ r.base \in Nat /\ g \in Nat /\ k \in Nat
  BY StreamFields DEF SameCall
<1>2. B \in Nat /\ n \in Nat /\ n = B + (r.rx - 1 - r.since) /\ SentLen(q) = B + (q.rx - 1 - r.since)
  BY <1>1, SentLenIs, BacklogIs DEF SentLen
<1>3. \A i : Full(q, i) = IF i <= B THEN r.base - B + i ELSE r.since + (i - B)
  BY <1>1 DEF Full
<1>4. \A i : Full(q, i) = Full(r, i)
  BY <1>1, FullSame
<1>5. /\ g + k <= n /\ (r.open => g + k = n) /\ r.since <= r.base
      /\ \A i \in 1..g : r.got[i] = Full(r, i)
      /\ \A i \in 1..k : r.buf[i] = Full(r, g + i)
      /\ ~r.open => r.buf = <<>>
  <2>1. Len(r.pending) = 0 /\ g + k + 0 = g + k
    BY <1>1
  <2> QED
    BY <2>1 DEF Tailing
<1>6. Len(q.pending) = 1 /\ q.pending[1] = r.rx
  OBVIOUS
<1> HIDE DEF g, k, n, B
<1>7. SentLen(q) = n + 1 /\ n + 1 > B /\ n + 1 - B = r.rx - r.since
  BY <1>1, <1>2, SMTT(40)
<1>8. Full(q, n + 1) = r.rx
  <2>1. Full(q, n + 1) = r.since + (n + 1 - B)
    BY <1>1, <1>2, <1>3, <1>7
  <2> QED
    BY <1>1, <1>7, <2>1
<1>9. ASSUME NEW i \in 1..Len(q.pending)
      PROVE  q.pending[i] = Full(q, SentLen(q) - Len(q.pending) + i)
  <2>1. i = 1 /\ (n + 1) - 1 + 1 = n + 1
    BY <1>2, <1>6
  <2>2. SentLen(q) - Len(q.pending) + i = (n + 1) - 1 + 1
    BY <2>1, <1>6, <1>7, Zenon
  <2> QED
    BY <2>1, <2>2, <1>6, <1>8, Zenon
<1>10. g + k + 1 <= n + 1 /\ (r.open => g + k + 1 = n + 1)
  BY <1>1, <1>2, <1>5
<1>11. Len(q.got) = g /\ Len(q.buf) = k
  BY DEF g, k
<1> QED
  BY <1>1, <1>4, <1>5, <1>6, <1>7, <1>9, <1>10, <1>11 DEF Tailing

LEMMA BacklogTailing ==
    ASSUME NEW q \in Stream, q.since <= q.base, q.rx = q.since + 1, q.open,
           q.got = <<>>, q.buf = <<>>, Len(q.pending) = BacklogSize(q.ask, q.base),
           \A i \in 1..Len(q.pending) : q.pending[i] = q.base - Len(q.pending) + i
    PROVE  Tailing(q)
<1> DEFINE B == BacklogSize(q.ask, q.base)
<1>1. B \in Nat /\ q.since \in Nat /\ q.base \in Nat /\ q.rx \in Nat
  BY StreamFields, BacklogIs
<1>2. SentLen(q) = B + (q.rx - 1 - q.since)
  BY DEF SentLen
<1>3. \A i : Full(q, i) = IF i <= B THEN q.base - B + i ELSE q.since + (i - B)
  BY DEF Full
<1> HIDE DEF B
<1>4. SentLen(q) = B /\ Len(q.pending) = B
  BY <1>1, <1>2 DEF B
<1>5. ASSUME NEW i \in 1..Len(q.pending)
      PROVE  q.pending[i] = Full(q, SentLen(q) - Len(q.pending) + i)
  <2>1. B - B + i = i /\ i <= B
    BY <1>1, <1>4
  <2> QED
    BY <1>3, <1>4, <2>1
<1>6. 0 + 0 + B = B /\ B <= B
  BY <1>1
<1>7. Len(q.got) = 0 /\ Len(q.buf) = 0
  OBVIOUS
<1> QED
  BY <1>4, <1>5, <1>6, <1>7 DEF Tailing

\* The client has gone, or the forwarder finds it gone.
LEMMA ClosedTailing ==
    ASSUME NEW q \in Stream, NEW r \in Stream, SameCall(q, r), Tailing(r), r.since < r.rx,
           q.rx = r.rx, q.pending \in {r.pending, <<>>}, q.got = r.got, q.buf = <<>>,
           ~q.open, q.base = r.base
    PROVE  Tailing(q)
<1> DEFINE g == Len(r.got)
           k == Len(r.buf)
           p == Len(r.pending)
           n == SentLen(r)
<1>1. /\ q.ask = r.ask /\ q.since = r.since /\ g \in Nat /\ k \in Nat /\ p \in Nat
  BY StreamFields DEF SameCall
<1>2. SentLen(q) = n /\ n \in Nat /\ \A i : Full(q, i) = Full(r, i)
  BY <1>1, SentLenIs, FullSame DEF SentLen
<1>3. /\ g + k + p <= n /\ r.since <= r.base
      /\ \A i \in 1..g : r.got[i] = Full(r, i)
      /\ \A i \in 1..p : r.pending[i] = Full(r, n - p + i)
  BY DEF Tailing
<1>4. Len(q.got) = g /\ Len(q.buf) = 0 /\ Len(q.pending) \in {p, 0} /\ (q.pending # <<>> => q.pending = r.pending)
  BY <1>1
<1>5. \A i \in 1..Len(q.pending) : q.pending[i] = Full(q, SentLen(q) - Len(q.pending) + i)
  <2>1. CASE q.pending = r.pending
    BY <1>2, <1>3, <2>1
  <2>2. CASE q.pending = <<>>
    BY <2>2
  <2> QED
    BY <2>1, <2>2
<1>6. \A i \in 1..Len(q.got) : q.got[i] = Full(q, i)
  BY <1>2, <1>3
<1> HIDE DEF g, k, p, n
<1>7. g + 0 + p <= n /\ g + 0 + 0 <= n
  BY <1>1, <1>2, <1>3
<1>8. \A i \in 1..Len(q.buf) : q.buf[i] = Full(q, Len(q.got) + i)
  OBVIOUS
<1> QED
  BY <1>1, <1>2, <1>3, <1>4, <1>5, <1>6, <1>7, <1>8 DEF Tailing

-----------------------------------------------------------------------------
(* The steps *)

LEMMA OnlyStep ==
    ASSUME StreamInv, NEW s \in Streams, Only(s), StreamOf(st'[s], lines, events)
    PROVE  StreamInv'
<1>1. SourceInv'
  BY DEF StreamInv, SourceInv, RingIsNewest, Only
<1>2. ASSUME NEW o \in Streams PROVE StreamOf(st'[o], lines', events')
  BY DEF StreamInv, Only
<1> QED
  BY <1>1, <1>2 DEF StreamInv, Only

\* A stream stays what it is when more is published.
LEMMA Later ==
    ASSUME NEW r, NEW l \in Nat, NEW m \in Nat, l <= m,
           NEW ev \in Seq(Modules), NEW fv \in Seq(Modules), Len(ev) <= Len(fv),
           \A n \in 1..Len(ev) : fv[n] = ev[n], StreamOf(r, l, ev)
    PROVE  StreamOf(r, m, fv)
<1>1. r \in Stream /\ StreamShape(r) /\ StreamTimes(r, l, ev) /\ WatchExact(r, ev) /\ Room(r)
  BY DEF StreamOf
<1>2. r.rx \in Nat /\ r.since \in Nat /\ r.base \in Nat /\ Len(ev) \in Nat /\ Len(fv) \in Nat
  BY <1>1, StreamFields
<1>3. StreamTimes(r, m, fv)
  BY <1>1, <1>2 DEF StreamTimes
<1>4. WatchExact(r, fv)
  <2>1. SUFFICES ASSUME r.kind = "watch" PROVE Due(r, fv) = Due(r, ev)
    BY <1>1 DEF WatchExact
  <2>2. r.rx <= Len(ev) + 1
    BY <1>1, <2>1 DEF StreamTimes
  <2>3. \A n \in r.since + 1 .. r.rx - 1 : n \in 1..Len(ev)
    BY <1>2, <2>2
  <2> QED
    BY <2>3 DEF Due
<1> QED
  BY <1>1, <1>3, <1>4 DEF StreamOf

LEMMA PublishStep ==
    ASSUME StreamInv, NEW m \in Modules, Publish(m)
    PROVE  StreamInv'
<1>1. /\ events \in Seq(Modules) /\ lines \in Nat /\ events' = Append(events, m)
      /\ lines' = lines /\ ring' = ring /\ st' = st /\ phase' = phase
  BY DEF StreamInv, SourceInv, Publish
<1>2. /\ events' \in Seq(Modules) /\ Len(events) <= Len(events')
      /\ \A n \in 1..Len(events) : events'[n] = events[n]
  BY <1>1
<1>3. SourceInv'
  BY <1>1, <1>2 DEF StreamInv, SourceInv, RingIsNewest
<1>4. lines <= lines
  BY <1>1
<1>5. ASSUME NEW s \in Streams PROVE StreamOf(st[s], lines, events')
  BY <1>1, <1>2, <1>4, Later DEF StreamInv
<1> QED
  BY <1>1, <1>3, <1>5 DEF StreamInv

LEMMA AppendStep ==
    ASSUME StreamInv, AppendLine
    PROVE  StreamInv'
<1>1. /\ events \in Seq(Modules) /\ lines \in Nat /\ lines' = lines + 1 /\ events' = events
      /\ ring' = Pushed(ring, lines + 1) /\ st' = st /\ phase' = phase
  BY DEF StreamInv, SourceInv, AppendLine
<1>2. SourceInv'
  <2>1. /\ ring' \in Seq(Nat) /\ Len(ring') <= Capacity /\ LatestOf(ring', lines + 1)
        /\ Len(ring') < Capacity => Len(ring') = lines + 1
    BY <1>1, PushedType DEF StreamInv
  <2> QED
    BY <1>1, <2>1 DEF StreamInv, SourceInv, RingIsNewest
<1>3. lines + 1 \in Nat /\ lines <= lines + 1 /\ Len(events) <= Len(events)
  BY <1>1
<1>4. ASSUME NEW s \in Streams PROVE StreamOf(st[s], lines + 1, events)
  BY <1>1, <1>3, Later DEF StreamInv
<1> QED
  BY <1>1, <1>2, <1>4 DEF StreamInv

LEMMA WatchStep ==
    ASSUME StreamInv, NEW s \in Streams, NEW f \in Modules \cup {All}, WatchEvents(s, f)
    PROVE  StreamInv'
<1> DEFINE q == st'[s]
<1>1. st \in [Streams -> Stream] /\ events \in Seq(Modules) /\ lines \in Nat /\ Len(events) \in Nat
  BY DEF StreamInv, SourceInv
<1>2. /\ Only(s) /\ q.kind = "watch" /\ q.stage = "forward"
      /\ q.filter = f /\ q.open /\ q.rx = Len(events) + 1
      /\ q.since = Len(events) /\ q.follow = TRUE
      /\ q.got = <<>> /\ q.buf = <<>> /\ q.pending = <<>>
  BY <1>1, WatchFields
<1>3. q \in Stream
  BY <1>2 DEF Only
<1> HIDE DEF q
<1>4. StreamShape(q) /\ StreamTimes(q, lines, events) /\ Room(q)
  BY <1>1, <1>2, StreamAssumption DEF StreamShape, StreamTimes, Room
<1>5. WatchExact(q, events)
  <2>1. TakenBy(q) = <<>>
    BY <1>2 DEF TakenBy
  <2>2. Due(q, events) = {}
    BY <1>1, <1>2 DEF Due
  <2>3. TakenSet(<<>>) = {} /\ Rising(<<>>)
    BY DEF TakenSet, Rising
  <2> QED
    BY <2>1, <2>2, <2>3 DEF WatchExact
<1>6. StreamOf(q, lines, events)
  BY <1>3, <1>4, <1>5 DEF StreamOf
<1> QED
  BY <1>2, <1>6, OnlyStep DEF q

LEMMA TailStep ==
    ASSUME StreamInv, NEW s \in Streams, NEW ask \in Asks, NEW follow \in BOOLEAN,
           TailLogs(s, ask, follow)
    PROVE  StreamInv'
<1> DEFINE q == st'[s]
<1>1. st \in [Streams -> Stream] /\ lines \in Nat
  BY DEF StreamInv, SourceInv
<1>2. /\ Only(s) /\ q.kind = "tail" /\ q.stage = "subscribed"
      /\ q.open /\ q.rx = lines + 1 /\ q.since = lines /\ q.base = 0
      /\ q.got = <<>> /\ q.buf = <<>> /\ q.pending = <<>>
  BY <1>1, TailFields
<1>3. q \in Stream
  BY <1>2 DEF Only
<1> HIDE DEF q
<1>4. StreamShape(q)
  BY <1>1, <1>2 DEF StreamShape, Fresh
<1>5. StreamTimes(q, lines, events) /\ Room(q) /\ WatchExact(q, events)
  BY <1>1, <1>2, StreamAssumption DEF StreamTimes, Room, WatchExact
<1>6. StreamOf(q, lines, events)
  BY <1>3, <1>4, <1>5 DEF StreamOf
<1> QED
  BY <1>2, <1>6, OnlyStep DEF q

LEMMA BacklogStep ==
    ASSUME StreamInv, NEW s \in Streams, ReadBacklog(s)
    PROVE  StreamInv'
<1> DEFINE q == st'[s]
           r == st[s]
<1>1. /\ r \in Stream /\ StreamShape(r) /\ StreamTimes(r, lines, events)
      /\ WatchExact(r, events) /\ Room(r) /\ lines \in Nat /\ SourceInv
  BY DEF StreamInv, StreamOf, SourceInv
<1>2. /\ Only(s) /\ SameCall(q, r) /\ q.stage = "forward" /\ q.rx = r.rx
      /\ q.pending = Newest(ring, r.ask) /\ q.buf = r.buf /\ q.got = r.got
      /\ q.open = r.open /\ q.base = lines
  BY ReadBacklogFields DEF Becomes
<1>3. q \in Stream
  BY <1>2 DEF Only
<1>4. r.stage = "subscribed"
  BY DEF ReadBacklog
<1> HIDE DEF q, r
<1>5. r.kind = "tail" /\ Fresh(r) /\ r.ask \in Nat /\ r.since \in Nat /\ r.since <= lines
  BY <1>1, <1>4, StreamFields DEF StreamShape, StreamTimes
<1>6. /\ q.ask = r.ask /\ q.since = r.since /\ q.kind = "tail" /\ q.rx = q.since + 1 /\ q.open
      /\ q.got = <<>> /\ q.buf = <<>>
  BY <1>2, <1>5 DEF SameCall, Fresh
<1> DEFINE k == BacklogSize(r.ask, lines)
<1>k. k = BacklogSize(r.ask, lines)
  OBVIOUS
<1> HIDE DEF k
<1>7. Len(q.pending) = k /\ \A i \in 1..k : q.pending[i] = lines - k + i
  <2>1. /\ Len(Newest(ring, r.ask)) = k
        /\ \A i \in 1..k : Newest(ring, r.ask)[i] = lines - k + i
    BY <1>1, <1>5, <1>k, NewestIs
  <2> QED
    BY <1>2, <2>1
<1>8. Tailing(q)
  <2>1. Len(q.pending) = BacklogSize(q.ask, q.base) /\ q.since <= q.base
    BY <1>2, <1>5, <1>6, <1>7 DEF k
  <2>2. \A i \in 1..Len(q.pending) : q.pending[i] = q.base - Len(q.pending) + i
    BY <1>2, <1>7
  <2> QED
    BY <1>3, <1>6, <2>1, <2>2, BacklogTailing
<1>9. StreamShape(q)
  BY <1>1, <1>2, <1>5, <1>6, <1>8 DEF StreamShape
<1>10. StreamTimes(q, lines, events) /\ Room(q) /\ WatchExact(q, events)
  BY <1>1, <1>2, <1>5, <1>6 DEF StreamTimes, Room, WatchExact, SameCall
<1>11. StreamOf(q, lines, events)
  BY <1>3, <1>9, <1>10 DEF StreamOf
<1> QED
  BY <1>2, <1>11, OnlyStep DEF q

LEMMA SentStep ==
    ASSUME StreamInv, NEW s \in Streams, Forward(s), st[s].open
    PROVE  StreamInv'
<1> DEFINE q == st'[s]
           r == st[s]
<1>1. /\ r \in Stream /\ StreamShape(r) /\ StreamTimes(r, lines, events)
      /\ WatchExact(r, events) /\ Room(r) /\ lines \in Nat /\ events \in Seq(Modules)
  BY DEF StreamInv, StreamOf, SourceInv
<1>2. /\ Only(s) /\ SameCall(q, r) /\ q.stage = r.stage /\ q.rx = r.rx /\ q.pending = Tail(r.pending)
      /\ q.buf = Append(r.buf, Head(r.pending)) /\ q.got = r.got /\ q.open = r.open /\ q.base = r.base
  BY SentFields DEF Becomes
<1>3. q \in Stream
  BY <1>2 DEF Only
<1>4. r.stage = "forward" /\ r.pending # <<>> /\ r.open /\ Len(r.buf) < ForwardCap
  BY DEF Forward
<1> HIDE DEF q, r
<1>5. /\ r.kind \in {"tail", "watch"} /\ r.since < r.rx /\ (r.kind = "tail" => Tailing(r))
      /\ q.kind = r.kind /\ q.follow = r.follow /\ q.since = r.since
  BY <1>1, <1>2, <1>4, StreamFields DEF StreamShape, SameCall, Kinds
<1>6. r.kind = "tail" => Tailing(q)
  BY <1>1, <1>2, <1>3, <1>4, <1>5, SentTailing
<1>7. StreamShape(q)
  BY <1>1, <1>2, <1>4, <1>5, <1>6 DEF StreamShape
<1>8. StreamTimes(q, lines, events)
  BY <1>1, <1>2, <1>5 DEF StreamTimes, SameCall
<1>9. Room(q)
  <2>1. r.got \in Seq(Nat) /\ r.buf \in Seq(Nat) /\ r.pending \in Seq(Nat)
    BY <1>1, StreamFields
  <2>2. Head(r.pending) \in Nat
    BY <1>4, <2>1, TailIs
  <2>3. Len(q.buf) = Len(r.buf) + 1 /\ Len(r.buf) \in Nat
    BY <1>2, <2>1, <2>2, AppendIs
  <2> QED
    BY <1>4, <2>3, StreamAssumption DEF Room
<1>10. WatchExact(q, events)
  <2>1. r.got \in Seq(Nat) /\ r.buf \in Seq(Nat) /\ r.pending \in Seq(Nat)
    BY <1>1, StreamFields
  <2>2. TakenBy(q) = TakenBy(r)
    <3>1. TakenBy(q) = r.got \o Append(r.buf, Head(r.pending)) \o Tail(r.pending)
      BY <1>2 DEF TakenBy
    <3>2. r.got \o Append(r.buf, Head(r.pending)) \o Tail(r.pending) = r.got \o r.buf \o r.pending
      BY <1>4, <2>1, Moved
    <3> QED
      BY <3>1, <3>2 DEF TakenBy
  <2> QED
    BY <1>1, <1>2, <1>3, <2>2, SameTaken
<1>11. StreamOf(q, lines, events)
  BY <1>3, <1>7, <1>8, <1>9, <1>10 DEF StreamOf
<1> QED
  BY <1>2, <1>11, OnlyStep DEF q

LEMMA UnsentStep ==
    ASSUME StreamInv, NEW s \in Streams, Forward(s), ~st[s].open
    PROVE  StreamInv'
<1> DEFINE q == st'[s]
           r == st[s]
<1>1. /\ r \in Stream /\ StreamShape(r) /\ StreamTimes(r, lines, events)
      /\ WatchExact(r, events) /\ Room(r) /\ lines \in Nat /\ events \in Seq(Modules)
  BY DEF StreamInv, StreamOf, SourceInv
<1>2. /\ Only(s) /\ SameCall(q, r) /\ q.stage = "done" /\ q.rx = r.rx /\ q.pending = <<>>
      /\ q.buf = r.buf /\ q.got = r.got /\ q.open = r.open /\ q.base = r.base
  BY UnsentFields DEF Becomes
<1>3. q \in Stream
  BY <1>2 DEF Only
<1>4. r.stage = "forward" /\ r.pending # <<>> /\ ~r.open
  BY DEF Forward
<1> HIDE DEF q, r
<1>5. /\ r.kind \in {"tail", "watch"} /\ r.since < r.rx /\ (r.kind = "tail" => Tailing(r))
      /\ q.kind = r.kind /\ q.follow = r.follow /\ q.since = r.since
  BY <1>1, <1>2, <1>4, StreamFields DEF StreamShape, SameCall, Kinds
<1>6. r.kind = "tail" => Tailing(q)
  <2>1. r.kind = "tail" => q.buf = <<>>
    BY <1>2, <1>4, <1>5 DEF Tailing
  <2> QED
    BY <1>1, <1>2, <1>3, <1>4, <1>5, <2>1, ClosedTailing
<1>7. StreamShape(q)
  BY <1>1, <1>2, <1>4, <1>5, <1>6 DEF StreamShape
<1>8. StreamTimes(q, lines, events)
  BY <1>1, <1>2, <1>5 DEF StreamTimes, SameCall
<1>9. Room(q)
  BY <1>1, <1>2 DEF Room
<1>10. WatchExact(q, events)
  BY <1>2, <1>4 DEF WatchExact
<1>11. StreamOf(q, lines, events)
  BY <1>3, <1>7, <1>8, <1>9, <1>10 DEF StreamOf
<1> QED
  BY <1>2, <1>11, OnlyStep DEF q

LEMMA DeliverStep ==
    ASSUME StreamInv, NEW s \in Streams, Deliver(s)
    PROVE  StreamInv'
<1> DEFINE q == st'[s]
           r == st[s]
<1>1. /\ r \in Stream /\ StreamShape(r) /\ StreamTimes(r, lines, events)
      /\ WatchExact(r, events) /\ Room(r) /\ lines \in Nat /\ events \in Seq(Modules)
  BY DEF StreamInv, StreamOf, SourceInv
<1>2. /\ Only(s) /\ SameCall(q, r) /\ q.stage = r.stage /\ q.rx = r.rx /\ q.pending = r.pending
      /\ q.buf = Tail(r.buf) /\ q.got = Append(r.got, Head(r.buf)) /\ q.open = r.open /\ q.base = r.base
  BY DeliverFields DEF Becomes
<1>3. q \in Stream
  BY <1>2 DEF Only
<1>4. r.open /\ r.buf # <<>> /\ r.stage # "subscribed" /\ r.kind # "none"
  BY <1>1 DEF Deliver, StreamShape, Fresh
<1> HIDE DEF q, r
<1>5. /\ r.kind \in {"tail", "watch"} /\ r.since < r.rx /\ (r.kind = "tail" => Tailing(r))
      /\ q.kind = r.kind /\ q.follow = r.follow /\ q.since = r.since
  BY <1>1, <1>2, <1>4, StreamFields DEF StreamShape, SameCall, Kinds
<1>6. r.kind = "tail" => Tailing(q)
  BY <1>1, <1>2, <1>3, <1>4, <1>5, DeliveredTailing
<1>7. StreamShape(q)
  BY <1>1, <1>2, <1>4, <1>5, <1>6 DEF StreamShape
<1>8. StreamTimes(q, lines, events)
  BY <1>1, <1>2, <1>5 DEF StreamTimes, SameCall
<1>9. Room(q)
  <2>1. r.got \in Seq(Nat) /\ r.buf \in Seq(Nat) /\ r.pending \in Seq(Nat)
    BY <1>1, StreamFields
  <2>2. Len(q.buf) = Len(r.buf) - 1 /\ Len(r.buf) \in Nat
    BY <1>2, <1>4, <2>1, TailIs
  <2> QED
    BY <1>1, <2>2, StreamAssumption DEF Room
<1>10. WatchExact(q, events)
  <2>1. r.got \in Seq(Nat) /\ r.buf \in Seq(Nat) /\ r.pending \in Seq(Nat)
    BY <1>1, StreamFields
  <2>2. TakenBy(q) = TakenBy(r)
    <3>1. TakenBy(q) = Append(r.got, Head(r.buf)) \o Tail(r.buf) \o r.pending
      BY <1>2 DEF TakenBy
    <3>2. Append(r.got, Head(r.buf)) \o Tail(r.buf) \o r.pending = r.got \o r.buf \o r.pending
      BY <1>4, <2>1, Read
    <3> QED
      BY <3>1, <3>2 DEF TakenBy
  <2> QED
    BY <1>1, <1>2, <1>3, <2>2, SameTaken
<1>11. StreamOf(q, lines, events)
  BY <1>3, <1>7, <1>8, <1>9, <1>10 DEF StreamOf
<1> QED
  BY <1>2, <1>11, OnlyStep DEF q

LEMMA EndStep ==
    ASSUME StreamInv, NEW s \in Streams, EndOfStream(s)
    PROVE  StreamInv'
<1> DEFINE q == st'[s]
           r == st[s]
<1>1. /\ r \in Stream /\ StreamShape(r) /\ StreamTimes(r, lines, events)
      /\ WatchExact(r, events) /\ Room(r) /\ lines \in Nat /\ events \in Seq(Modules)
  BY DEF StreamInv, StreamOf, SourceInv
<1>2. /\ Only(s) /\ SameCall(q, r) /\ q.stage = r.stage /\ q.rx = r.rx /\ q.pending = r.pending
      /\ q.buf = r.buf /\ q.got = r.got /\ q.open = FALSE /\ q.base = r.base
  BY EndFields DEF Becomes
<1>3. q \in Stream
  BY <1>2 DEF Only
<1>4. r.open /\ r.buf = <<>> /\ r.stage = "done" /\ r.kind # "none"
  BY <1>1 DEF EndOfStream, StreamShape
<1> HIDE DEF q, r
<1>5. /\ r.kind \in {"tail", "watch"} /\ r.since < r.rx /\ (r.kind = "tail" => Tailing(r))
      /\ q.kind = r.kind /\ q.follow = r.follow /\ q.since = r.since
  BY <1>1, <1>2, <1>4, StreamFields DEF StreamShape, SameCall, Kinds
<1>6. r.kind = "tail" => Tailing(q)
  BY <1>1, <1>2, <1>3, <1>4, <1>5, ClosedTailing
<1>7. StreamShape(q)
  BY <1>1, <1>2, <1>4, <1>5, <1>6 DEF StreamShape
<1>8. StreamTimes(q, lines, events)
  BY <1>1, <1>2, <1>5 DEF StreamTimes, SameCall
<1>9. Room(q)
  BY <1>1, <1>2 DEF Room
<1>10. WatchExact(q, events)
  BY <1>2 DEF WatchExact
<1>11. StreamOf(q, lines, events)
  BY <1>3, <1>7, <1>8, <1>9, <1>10 DEF StreamOf
<1> QED
  BY <1>2, <1>11, OnlyStep DEF q

LEMMA DisconnectStep ==
    ASSUME StreamInv, NEW s \in Streams, Disconnect(s)
    PROVE  StreamInv'
<1> DEFINE q == st'[s]
           r == st[s]
<1>1. /\ r \in Stream /\ StreamShape(r) /\ StreamTimes(r, lines, events)
      /\ WatchExact(r, events) /\ Room(r) /\ lines \in Nat /\ events \in Seq(Modules)
  BY DEF StreamInv, StreamOf, SourceInv
<1>2. /\ Only(s) /\ SameCall(q, r) /\ q.stage = r.stage /\ q.rx = r.rx /\ q.pending = r.pending
      /\ q.buf = <<>> /\ q.got = r.got /\ q.open = FALSE /\ q.base = r.base
  BY DisconnectFields DEF Becomes
<1>3. q \in Stream
  BY <1>2 DEF Only
<1>4. r.open /\ r.stage \in {"forward", "done"} /\ r.kind # "none"
  BY <1>1 DEF Disconnect, StreamShape
<1> HIDE DEF q, r
<1>5. /\ r.kind \in {"tail", "watch"} /\ r.since < r.rx /\ (r.kind = "tail" => Tailing(r))
      /\ q.kind = r.kind /\ q.follow = r.follow /\ q.since = r.since
  BY <1>1, <1>2, <1>4, StreamFields DEF StreamShape, SameCall, Kinds
<1>6. r.kind = "tail" => Tailing(q)
  BY <1>1, <1>2, <1>3, <1>4, <1>5, ClosedTailing
<1>7. StreamShape(q)
  BY <1>1, <1>2, <1>4, <1>5, <1>6 DEF StreamShape
<1>8. StreamTimes(q, lines, events)
  BY <1>1, <1>2, <1>5 DEF StreamTimes, SameCall
<1>9. Room(q)
  BY <1>2, StreamAssumption DEF Room
<1>10. WatchExact(q, events)
  BY <1>2 DEF WatchExact
<1>11. StreamOf(q, lines, events)
  BY <1>3, <1>7, <1>8, <1>9, <1>10 DEF StreamOf
<1> QED
  BY <1>2, <1>11, OnlyStep DEF q

LEMMA LagStep ==
    ASSUME StreamInv, NEW s \in Streams, Receive(s), Lagged(s)
    PROVE  StreamInv'
<1> DEFINE q == st'[s]
           r == st[s]
<1>1. /\ r \in Stream /\ StreamShape(r) /\ StreamTimes(r, lines, events)
      /\ WatchExact(r, events) /\ Room(r) /\ lines \in Nat /\ events \in Seq(Modules)
  BY DEF StreamInv, StreamOf, SourceInv
<1>2. /\ Only(s) /\ SameCall(q, r) /\ q.stage = "done" /\ q.rx = r.rx /\ q.pending = r.pending
      /\ q.buf = r.buf /\ q.got = r.got /\ q.open = r.open /\ q.base = r.base
  BY LagFields DEF Becomes
<1>3. q \in Stream
  BY <1>2 DEF Only
<1>4. r.stage = "forward" /\ r.pending = <<>>
  BY DEF Receive
<1> HIDE DEF q, r
<1>5. /\ r.kind \in {"tail", "watch"} /\ r.since < r.rx /\ (r.kind = "tail" => Tailing(r))
      /\ q.kind = r.kind /\ q.follow = r.follow /\ q.since = r.since
  BY <1>1, <1>2, <1>4, StreamFields DEF StreamShape, SameCall, Kinds
<1>6. r.kind = "tail" => Tailing(q)
  <2>1. SentLen(q) = SentLen(r) /\ \A i : Full(q, i) = Full(r, i)
    BY <1>2, FullSame DEF SentLen, SameCall
  <2> QED
    BY <1>2, <1>5, <2>1 DEF Tailing
<1>7. StreamShape(q)
  BY <1>1, <1>2, <1>4, <1>5, <1>6 DEF StreamShape
<1>8. StreamTimes(q, lines, events)
  BY <1>1, <1>2, <1>5 DEF StreamTimes, SameCall
<1>9. Room(q)
  BY <1>1, <1>2 DEF Room
<1>10. WatchExact(q, events)
  <2>1. TakenBy(q) = TakenBy(r)
    BY <1>2 DEF TakenBy
  <2> QED
    BY <1>1, <1>2, <1>3, <2>1, SameTaken
<1>11. StreamOf(q, lines, events)
  BY <1>3, <1>7, <1>8, <1>9, <1>10 DEF StreamOf
<1> QED
  BY <1>2, <1>11, OnlyStep DEF q

LEMMA BacklogSentStep ==
    ASSUME StreamInv, NEW s \in Streams, BacklogSent(s)
    PROVE  StreamInv'
<1> DEFINE q == st'[s]
           r == st[s]
<1>1. /\ r \in Stream /\ StreamShape(r) /\ StreamTimes(r, lines, events)
      /\ WatchExact(r, events) /\ Room(r) /\ lines \in Nat /\ events \in Seq(Modules)
  BY DEF StreamInv, StreamOf, SourceInv
<1>2. /\ Only(s) /\ SameCall(q, r) /\ q.stage = "done" /\ q.rx = r.rx /\ q.pending = r.pending
      /\ q.buf = r.buf /\ q.got = r.got /\ q.open = r.open /\ q.base = r.base
  BY BacklogSentFields DEF Becomes
<1>3. q \in Stream
  BY <1>2 DEF Only
<1>4. r.stage = "forward" /\ r.pending = <<>>
  BY DEF BacklogSent
<1> HIDE DEF q, r
<1>5. /\ r.kind \in {"tail", "watch"} /\ r.since < r.rx /\ (r.kind = "tail" => Tailing(r))
      /\ q.kind = r.kind /\ q.follow = r.follow /\ q.since = r.since
  BY <1>1, <1>2, <1>4, StreamFields DEF StreamShape, SameCall, Kinds
<1>6. r.kind = "tail" => Tailing(q)
  <2>1. SentLen(q) = SentLen(r) /\ \A i : Full(q, i) = Full(r, i)
    BY <1>2, FullSame DEF SentLen, SameCall
  <2> QED
    BY <1>2, <1>5, <2>1 DEF Tailing
<1>7. StreamShape(q)
  BY <1>1, <1>2, <1>4, <1>5, <1>6 DEF StreamShape
<1>8. StreamTimes(q, lines, events)
  BY <1>1, <1>2, <1>5 DEF StreamTimes, SameCall
<1>9. Room(q)
  BY <1>1, <1>2 DEF Room
<1>10. WatchExact(q, events)
  <2>1. TakenBy(q) = TakenBy(r)
    BY <1>2 DEF TakenBy
  <2> QED
    BY <1>1, <1>2, <1>3, <2>1, SameTaken
<1>11. StreamOf(q, lines, events)
  BY <1>3, <1>7, <1>8, <1>9, <1>10 DEF StreamOf
<1> QED
  BY <1>2, <1>11, OnlyStep DEF q

LEMMA WantedStep ==
    ASSUME StreamInv, NEW s \in Streams, Receive(s), ~Lagged(s), Wanted(s, st[s].rx)
    PROVE  StreamInv'
<1> DEFINE q == st'[s]
           r == st[s]
<1>1. /\ r \in Stream /\ StreamShape(r) /\ StreamTimes(r, lines, events)
      /\ WatchExact(r, events) /\ Room(r) /\ lines \in Nat /\ events \in Seq(Modules)
  BY DEF StreamInv, StreamOf, SourceInv
<1>2. /\ Only(s) /\ SameCall(q, r) /\ q.stage = r.stage /\ q.rx = r.rx + 1 /\ q.pending = <<r.rx>>
      /\ q.buf = r.buf /\ q.got = r.got /\ q.open = r.open /\ q.base = r.base
  BY WantedFields DEF Becomes
<1>3. q \in Stream
  BY <1>2 DEF Only
<1>4. /\ r.stage = "forward" /\ r.pending = <<>> /\ r.follow
      /\ r.rx <= (IF r.kind = "watch" THEN Len(events) ELSE lines)
  BY DEF Receive, Published
<1>w. r.kind = "tail" \/ r.filter \in {All, events[r.rx]}
  BY DEF Wanted
<1> HIDE DEF q, r
<1>5. /\ r.kind \in {"tail", "watch"} /\ r.since < r.rx /\ (r.kind = "tail" => Tailing(r))
      /\ q.kind = r.kind /\ q.follow = r.follow /\ q.since = r.since
      /\ r.rx \in Nat /\ r.since \in Nat /\ Len(events) \in Nat
  BY <1>1, <1>2, <1>4, StreamFields, SMTT(40) DEF StreamShape, SameCall, Kinds
<1>6. r.kind = "tail" => Tailing(q)
  BY <1>1, <1>2, <1>3, <1>4, <1>5, ReceivedTailing
<1>7. StreamShape(q)
  BY <1>1, <1>2, <1>4, <1>5, <1>6 DEF StreamShape
<1>8. StreamTimes(q, lines, events)
  BY <1>1, <1>2, <1>4, <1>5 DEF StreamTimes
<1>9. Room(q)
  BY <1>1, <1>2 DEF Room
<1>10. WatchExact(q, events)
  <2>1. SUFFICES ASSUME r.kind = "watch", r.open PROVE WatchExact(q, events)
    BY <1>2, <1>5 DEF WatchExact
  <2>2. r.rx <= Len(events) /\ r.filter \in {All, events[r.rx]}
    BY <1>4, <1>w, <2>1
  <2> QED
    BY <1>1, <1>2, <1>3, <1>4, <1>5, <2>1, <2>2, WatchMoves
<1>11. StreamOf(q, lines, events)
  BY <1>3, <1>7, <1>8, <1>9, <1>10 DEF StreamOf
<1> QED
  BY <1>2, <1>11, OnlyStep DEF q

LEMMA UnwantedStep ==
    ASSUME StreamInv, NEW s \in Streams, Receive(s), ~Lagged(s), ~Wanted(s, st[s].rx)
    PROVE  StreamInv'
<1> DEFINE q == st'[s]
           r == st[s]
<1>1. /\ r \in Stream /\ StreamShape(r) /\ StreamTimes(r, lines, events)
      /\ WatchExact(r, events) /\ Room(r) /\ lines \in Nat /\ events \in Seq(Modules)
  BY DEF StreamInv, StreamOf, SourceInv
<1>2. /\ Only(s) /\ SameCall(q, r) /\ q.stage = r.stage /\ q.rx = r.rx + 1 /\ q.pending = <<>>
      /\ q.buf = r.buf /\ q.got = r.got /\ q.open = r.open /\ q.base = r.base
  BY UnwantedFields DEF Becomes
<1>3. q \in Stream
  BY <1>2 DEF Only
<1>4. /\ r.stage = "forward" /\ r.pending = <<>> /\ r.follow
      /\ r.rx <= (IF r.kind = "watch" THEN Len(events) ELSE lines)
  BY DEF Receive, Published
<1>w. r.kind # "tail" /\ r.filter \notin {All, events[r.rx]}
  BY DEF Wanted
<1> HIDE DEF q, r
<1>5. /\ r.kind \in {"tail", "watch"} /\ r.since < r.rx /\ (r.kind = "tail" => Tailing(r))
      /\ q.kind = r.kind /\ q.follow = r.follow /\ q.since = r.since
      /\ r.rx \in Nat /\ r.since \in Nat /\ Len(events) \in Nat
  BY <1>1, <1>2, <1>4, StreamFields DEF StreamShape, SameCall, Kinds
<1>6. r.kind = "tail" => Tailing(q)
  BY <1>w
<1>7. StreamShape(q)
  BY <1>1, <1>2, <1>4, <1>5, <1>6 DEF StreamShape
<1>8. StreamTimes(q, lines, events)
  BY <1>1, <1>2, <1>4, <1>5 DEF StreamTimes
<1>9. Room(q)
  BY <1>1, <1>2 DEF Room
<1>10. WatchExact(q, events)
  <2>1. SUFFICES ASSUME r.kind = "watch", r.open PROVE WatchExact(q, events)
    BY <1>2, <1>5 DEF WatchExact
  <2>2. r.rx <= Len(events) /\ r.filter \notin {All, events[r.rx]}
    BY <1>4, <1>w, <2>1
  <2> QED
    BY <1>1, <1>2, <1>3, <1>4, <1>5, <2>1, <2>2, WatchMoves
<1>11. StreamOf(q, lines, events)
  BY <1>3, <1>7, <1>8, <1>9, <1>10 DEF StreamOf
<1> QED
  BY <1>2, <1>11, OnlyStep DEF q

LEMMA StreamStep ==
    ASSUME StreamInv, Next
    PROVE  StreamInv'
<1>1. CASE AppendLine
  BY <1>1, AppendStep
<1>2. CASE \E m \in Modules : Publish(m)
  BY <1>2, PublishStep
<1>3. ASSUME NEW s \in Streams,
             \/ \E f \in Modules \cup {All} : WatchEvents(s, f)
             \/ \E ask \in Asks, follow \in BOOLEAN : TailLogs(s, ask, follow)
             \/ ReadBacklog(s) \/ Forward(s) \/ Receive(s) \/ BacklogSent(s)
             \/ Deliver(s) \/ EndOfStream(s) \/ Disconnect(s)
      PROVE  StreamInv'
  <2>1. CASE \E f \in Modules \cup {All} : WatchEvents(s, f)
    BY <2>1, WatchStep
  <2>2. CASE \E ask \in Asks, follow \in BOOLEAN : TailLogs(s, ask, follow)
    BY <2>2, TailStep
  <2>3. CASE ReadBacklog(s)
    BY <2>3, BacklogStep
  <2>4. CASE Forward(s)
    BY <2>4, SentStep, UnsentStep
  <2>5. CASE Receive(s)
    BY <2>5, LagStep, WantedStep, UnwantedStep
  <2>6. CASE BacklogSent(s)
    BY <2>6, BacklogSentStep
  <2>7. CASE Deliver(s)
    BY <2>7, DeliverStep
  <2>8. CASE EndOfStream(s)
    BY <2>8, EndStep
  <2>9. CASE Disconnect(s)
    BY <2>9, DisconnectStep
  <2> QED
    BY <1>3, <2>1, <2>2, <2>3, <2>4, <2>5, <2>6, <2>7, <2>8, <2>9
<1>4. CASE Signal \/ Drained \/ Stopped
  <2>1. /\ lines' = lines /\ ring' = ring /\ events' = events /\ st' = st
        /\ phase' \in {"draining", "stopped", phase}
    BY <1>4 DEF Signal, Drained, Stopped, vars
  <2> QED
    BY <2>1 DEF StreamInv, SourceInv, RingIsNewest
<1> QED
  BY <1>1, <1>2, <1>3, <1>4 DEF Next

LEMMA StreamStart ==
    ASSUME Init
    PROVE  StreamInv
<1>1. lines = 0 /\ ring = <<>> /\ events = <<>> /\ phase = "serving" /\ st = [s \in Streams |-> Unused]
  BY DEF Init
<1>2. SourceInv
  BY <1>1, StreamAssumption DEF SourceInv, RingIsNewest, LatestOf
<1>3. StreamOf(Unused, 0, <<>>)
  <2>1. StreamShape(Unused)
    BY UnusedFields DEF StreamShape
  <2>2. StreamTimes(Unused, 0, <<>>) /\ Room(Unused) /\ WatchExact(Unused, <<>>)
    BY UnusedFields, StreamAssumption DEF StreamTimes, Room, WatchExact
  <2> QED
    BY <2>1, <2>2, UnusedFields DEF StreamOf
<1> QED
  BY <1>1, <1>2, <1>3, UnusedFields DEF StreamInv

-----------------------------------------------------------------------------
(* What the invariant says *)

\* Which of the lines that the forwarder has taken the i-th one still here is.
Idx(r, i) ==
    IF i <= Len(r.got) + Len(r.buf) THEN i
    ELSE SentLen(r) - Len(r.pending) + (i - (Len(r.got) + Len(r.buf)))

LEMMA TakenAt ==
    ASSUME NEW r \in Stream, Tailing(r), r.since < r.rx
    PROVE  /\ \A i \in 1..Len(TakenBy(r)) :
                /\ Idx(r, i) \in 1..SentLen(r)
                /\ TakenBy(r)[i] = Full(r, Idx(r, i))
           /\ \A i, j \in 1..Len(TakenBy(r)) : Idx(r, i) = Idx(r, j) => i = j
           /\ r.open => /\ Len(TakenBy(r)) = SentLen(r)
                        /\ \A i \in 1..SentLen(r) : Idx(r, i) = i
<1> DEFINE g == Len(r.got)
           k == Len(r.buf)
           p == Len(r.pending)
           n == SentLen(r)
           t == TakenBy(r)
<1>1. r.got \in Seq(Nat) /\ r.buf \in Seq(Nat) /\ r.pending \in Seq(Nat)
  BY StreamFields
<1>2. /\ g \in Nat /\ k \in Nat /\ p \in Nat /\ Len(t) = g + k + p
      /\ \A i \in 1..g : t[i] = r.got[i]
      /\ \A i \in 1..k : t[g + i] = r.buf[i]
      /\ \A i \in 1..p : t[g + k + i] = r.pending[i]
  <2> DEFINE x == r.got
             y == r.buf
             z == r.pending
  <2>1. x \in Seq(Nat) /\ y \in Seq(Nat) /\ z \in Seq(Nat)
    BY <1>1
  <2> HIDE DEF x, y, z
  <2>2. /\ Len(x) \in Nat /\ Len(y) \in Nat /\ Len(z) \in Nat
        /\ Len(x \o y \o z) = Len(x) + Len(y) + Len(z)
        /\ \A i \in 1..Len(x) : (x \o y \o z)[i] = x[i]
        /\ \A i \in 1..Len(y) : (x \o y \o z)[Len(x) + i] = y[i]
        /\ \A i \in 1..Len(z) : (x \o y \o z)[Len(x) + Len(y) + i] = z[i]
    BY <2>1, ConcatIs, ZenonT(30)
  <2> QED
    BY <2>2, Zenon DEF TakenBy, x, y, z
<1>3. /\ \A i \in 1..g : r.got[i] = Full(r, i)
      /\ \A i \in 1..k : r.buf[i] = Full(r, g + i)
      /\ \A i \in 1..p : r.pending[i] = Full(r, n - p + i)
      /\ g + k + p <= n /\ (r.open => g + k + p = n)
  BY DEF Tailing
<1>4. n \in Nat
  BY SentLenIs
<1>5. \A i : Idx(r, i) = IF i <= g + k THEN i ELSE n - p + (i - (g + k))
  BY DEF Idx
<1> HIDE DEF g, k, p, n, t
<1>6. ASSUME NEW i \in 1..Len(t) PROVE Idx(r, i) \in 1..n /\ t[i] = Full(r, Idx(r, i))
  <2>1. CASE i <= g
    <3>1. Idx(r, i) = i /\ i \in 1..g /\ i \in 1..n
      BY <1>2, <1>3, <1>4, <1>5, <2>1
    <3> QED
      BY <3>1, <1>2, <1>3
  <2>2. CASE i > g /\ i <= g + k
    <3>1. Idx(r, i) = i /\ i - g \in 1..k /\ i \in 1..n /\ g + (i - g) = i
      BY <1>2, <1>3, <1>4, <1>5, <2>2
    <3>2. t[g + (i - g)] = r.buf[i - g] /\ r.buf[i - g] = Full(r, g + (i - g))
      BY <3>1, <1>2, <1>3
    <3> QED
      BY <3>1, <3>2
  <2>3. CASE i > g + k
    <3>1. /\ Idx(r, i) = n - p + (i - (g + k)) /\ i - (g + k) \in 1..p
          /\ n - p + (i - (g + k)) \in 1..n /\ g + k + (i - (g + k)) = i
      BY <1>2, <1>3, <1>4, <1>5, <2>3
    <3>2. /\ t[g + k + (i - (g + k))] = r.pending[i - (g + k)]
          /\ r.pending[i - (g + k)] = Full(r, n - p + (i - (g + k)))
      BY <3>1, <1>2, <1>3
    <3> QED
      BY <3>1, <3>2
  <2> QED
    BY <1>2, <2>1, <2>2, <2>3
<1>7. ASSUME NEW i \in 1..Len(t), NEW j \in 1..Len(t), Idx(r, i) = Idx(r, j) PROVE i = j
  <2>1. i \in Nat /\ j \in Nat
    BY <1>2
  <2>2. CASE i <= g + k /\ j <= g + k
    BY <1>5, <1>7, <2>2
  <2>3. CASE i > g + k /\ j > g + k
    BY <1>2, <1>4, <1>5, <1>7, <2>1, <2>3
  <2>4. CASE i <= g + k /\ j > g + k
    BY <1>2, <1>3, <1>4, <1>5, <1>7, <2>1, <2>4
  <2>5. CASE i > g + k /\ j <= g + k
    BY <1>2, <1>3, <1>4, <1>5, <1>7, <2>1, <2>5
  <2> QED
    BY <1>2, <2>1, <2>2, <2>3, <2>4, <2>5
<1>8. ASSUME r.open PROVE Len(t) = n /\ \A i \in 1..n : Idx(r, i) = i
  BY <1>2, <1>3, <1>4, <1>5, <1>8
<1> QED
  BY <1>6, <1>7, <1>8 DEF t, n

LEMMA FullIs ==
    ASSUME NEW r \in Stream, NEW B, B = BacklogSize(r.ask, r.base), NEW i \in Nat
    PROVE  /\ i <= B => Full(r, i) = r.base - B + i
           /\ i > B => Full(r, i) = r.since + (i - B)
<1>1. B \in Nat
  BY BacklogIs, StreamFields
<1> QED
  BY <1>1 DEF Full

LEMMA NoGap ==
    ASSUME NEW r \in Stream, Tailing(r), r.since < r.rx, r.open
    PROVE  /\ \A n \in TakenSet(TakenBy(r)) : n .. r.rx - 1 \subseteq TakenSet(TakenBy(r))
           /\ r.since + 1 .. r.rx - 1 \subseteq TakenSet(TakenBy(r))
<1> DEFINE B == BacklogSize(r.ask, r.base)
           N == SentLen(r)
           t == TakenBy(r)
<1>1. /\ B \in Nat /\ B <= r.base /\ N \in Nat /\ B <= N /\ N = B + (r.rx - 1 - r.since)
      /\ r.rx \in Nat /\ r.since \in Nat /\ r.base \in Nat /\ r.since <= r.base
  BY StreamFields, BacklogIs, SentLenIs DEF SentLen, Tailing
<1>2. Len(t) = N /\ \A i \in 1..N : t[i] = Full(r, i)
  BY TakenAt
<1>3. \A i \in Nat : /\ i <= B => Full(r, i) = r.base - B + i
                     /\ i > B => Full(r, i) = r.since + (i - B)
  BY FullIs
<1> HIDE DEF B, N, t
<1>4. ASSUME NEW x \in r.since + 1 .. r.rx - 1 PROVE x \in TakenSet(t)
  <2> DEFINE i == B + (x - r.since)
  <2>1. i \in 1..N /\ i > B /\ r.since + (i - B) = x /\ i \in Nat
    BY <1>1
  <2> HIDE DEF i
  <2>2. t[i] = x
    BY <1>2, <1>3, <2>1
  <2> QED
    BY <1>2, <2>1, <2>2 DEF TakenSet
<1>5. ASSUME NEW x \in Nat, x > r.base - B, x <= r.base PROVE x \in TakenSet(t)
  <2> DEFINE i == x - (r.base - B)
  <2>1. i \in 1..N /\ i <= B /\ r.base - B + i = x /\ i \in Nat
    BY <1>1, <1>5
  <2> HIDE DEF i
  <2>2. t[i] = x
    BY <1>2, <1>3, <2>1
  <2> QED
    BY <1>2, <2>1, <2>2 DEF TakenSet
<1>6. ASSUME NEW n \in TakenSet(t), NEW x \in n .. r.rx - 1 PROVE x \in TakenSet(t)
  <2>1. PICK i \in 1..N : n = t[i]
    BY <1>2 DEF TakenSet
  <2>2. n = Full(r, i) /\ i \in Nat /\ i >= 1
    BY <1>1, <1>2, <2>1
  <2>3. CASE i <= B
    <3>1. n = r.base - B + i
      BY <1>3, <2>2, <2>3
    <3>2. x \in Nat /\ x > r.base - B /\ x <= r.rx - 1
      BY <1>1, <2>2, <2>3, <3>1
    <3>3. x <= r.base \/ x \in r.since + 1 .. r.rx - 1
      BY <1>1, <3>2
    <3> QED
      BY <1>4, <1>5, <3>2, <3>3
  <2>4. CASE i > B
    <3>1. n = r.since + (i - B)
      BY <1>3, <2>2, <2>4
    <3>2. x \in r.since + 1 .. r.rx - 1
      BY <1>1, <2>2, <2>4, <3>1
    <3> QED
      BY <1>4, <3>2
  <2> QED
    BY <1>1, <2>2, <2>3, <2>4
<1> QED
  BY <1>4, <1>6 DEF t

LEMMA Replayed ==
    ASSUME NEW r \in Stream, Tailing(r), r.since < r.rx, r.open,
           NEW B, B = BacklogSize(r.ask, r.base)
    PROVE  Len(TakenBy(r)) >= B /\ \A i \in 1..B : TakenBy(r)[i] = r.base - B + i
<1>1. B \in Nat /\ SentLen(r) \in Nat /\ B <= SentLen(r)
  BY StreamFields, BacklogIs, SentLenIs
<1>2. Len(TakenBy(r)) = SentLen(r) /\ \A i \in 1..SentLen(r) : TakenBy(r)[i] = Full(r, i)
  BY TakenAt
<1>3. ASSUME NEW i \in 1..B PROVE TakenBy(r)[i] = r.base - B + i
  <2>1. i \in 1..SentLen(r) /\ i \in Nat /\ i <= B
    BY <1>1
  <2> QED
    BY <1>2, <2>1, FullIs
<1> QED
  BY <1>1, <1>2, <1>3

\* A line stands at most once in the backlog and at most once in what follows.
LEMMA AtMostTwice ==
    ASSUME NEW r \in Stream, Tailing(r), r.since < r.rx, NEW n \in Nat,
           NEW i \in 1..Len(TakenBy(r)), NEW j \in 1..Len(TakenBy(r)), i # j,
           TakenBy(r)[i] = n, TakenBy(r)[j] = n
    PROVE  /\ n \in r.since + 1 .. r.base
           /\ \A m \in 1..Len(TakenBy(r)) : TakenBy(r)[m] = n => m \in {i, j}
<1> DEFINE B == BacklogSize(r.ask, r.base)
           N == SentLen(r)
           L == Len(TakenBy(r))
<1>1. /\ B \in Nat /\ N \in Nat /\ r.since \in Nat /\ r.base \in Nat /\ B <= r.base
  BY StreamFields, BacklogIs, SentLenIs
<1>2. \A m \in 1..L : Idx(r, m) \in 1..N /\ TakenBy(r)[m] = Full(r, Idx(r, m))
  BY TakenAt
<1>3. \A m, o \in 1..L : Idx(r, m) = Idx(r, o) => m = o
  BY TakenAt
<1>4. \A m \in 1..L : TakenBy(r)[m] = n =>
        \/ Idx(r, m) <= B /\ Idx(r, m) = n - (r.base - B)
        \/ Idx(r, m) > B /\ Idx(r, m) = n - r.since + B
  <2> SUFFICES ASSUME NEW m \in 1..L, TakenBy(r)[m] = n
               PROVE  \/ Idx(r, m) <= B /\ Idx(r, m) = n - (r.base - B)
                      \/ Idx(r, m) > B /\ Idx(r, m) = n - r.since + B
    OBVIOUS
  <2> DEFINE x == Idx(r, m)
  <2>1. x \in Nat /\ n = Full(r, x)
    BY <1>1, <1>2
  <2>2. (x <= B => n = r.base - B + x) /\ (x > B => n = r.since + (x - B))
    BY <2>1, FullIs
  <2> HIDE DEF x, B
  <2>3. \/ x <= B /\ x = n - (r.base - B)
        \/ x > B /\ x = n - r.since + B
    BY <1>1, <2>1, <2>2
  <2> QED
    BY <2>3 DEF x
<1> HIDE DEF B, N
<1>5. Idx(r, i) # Idx(r, j)
  BY <1>3
<1>6. /\ Idx(r, i) \in Nat /\ Idx(r, j) \in Nat /\ Idx(r, i) >= 1 /\ Idx(r, j) >= 1
  BY <1>1, <1>2
<1>7. ASSUME NEW u \in 1..L, NEW v \in 1..L, TakenBy(r)[u] = n, TakenBy(r)[v] = n,
             Idx(r, u) <= B, Idx(r, v) > B
      PROVE  n \in r.since + 1 .. r.base
  <2>1. Idx(r, u) = n - (r.base - B) /\ Idx(r, v) = n - r.since + B 
    <3>1. ~(Idx(r, u) > B) /\ ~(Idx(r, v) <= B)
      BY <1>1, <1>2, <1>7
    <3> QED
      BY <1>4, <1>7, <3>1, Zenon
  <2> DEFINE x == Idx(r, u)
             y == Idx(r, v)
  <2>2. x \in Nat /\ y \in Nat /\ x <= B /\ y > B /\ x = n - (r.base - B) /\ y = n - r.since + B
    BY <1>2, <1>7, <2>1
  <2> HIDE DEF x, y
  <2>3. n <= r.base
    BY <1>1, <2>2
  <2>4. r.since + 1 <= n
    BY <1>1, <2>2
  <2> QED
    BY <1>1, <2>3, <2>4
<1>8. (Idx(r, i) <= B /\ Idx(r, j) > B) \/ (Idx(r, j) <= B /\ Idx(r, i) > B)
  BY <1>1, <1>4, <1>5, <1>6
<1>9. ASSUME NEW m \in 1..L, TakenBy(r)[m] = n PROVE m \in {i, j}
  <2>1. Idx(r, m) = Idx(r, i) \/ Idx(r, m) = Idx(r, j)
    BY <1>1, <1>4, <1>8, <1>9, SMTT(40)
  <2> QED
    BY <1>3, <2>1
<1> QED
  BY <1>7, <1>8, <1>9

LEMMA Twice ==
    ASSUME NEW r \in Stream, StreamShape(r), r.kind = "tail", NEW n \in Nat,
           Occurrences(TakenBy(r), n) > 1
    PROVE  Occurrences(TakenBy(r), n) = 2 /\ n \in r.since + 1 .. r.base
<1> DEFINE t == TakenBy(r)
           S == {i \in DOMAIN t : t[i] = n}
<1>1. t \in Seq(Nat) /\ DOMAIN t = 1..Len(t) /\ Len(t) \in Nat
  <2>1. TakenBy(r) \in Seq(Nat)
    BY TakenType
  <2> QED
    BY <2>1
<1>2. IsFiniteSet(S) /\ Cardinality(S) > 1
  <2>1. IsFiniteSet(1..Len(t))
    BY <1>1, FS_Interval
  <2>2. S \subseteq 1..Len(t)
    BY <1>1
  <2>3. IsFiniteSet(S)
    BY <2>1, <2>2, FS_Subset
  <2> QED
    BY <2>3 DEF Occurrences
<1>3. \E i, j \in S : i # j
  <2> SUFFICES ASSUME \A i, j \in S : i = j PROVE FALSE
    OBVIOUS
  <2>1. CASE S = {}
    BY <1>2, <2>1, FS_EmptySet
  <2>2. CASE S # {}
    <3>1. PICK i \in S : S = {i}
      BY <2>2
    <3>2. Cardinality({i}) = 1
      BY FS_Singleton
    <3> HIDE DEF S
    <3> QED
      BY <1>2, <3>1, <3>2
  <2> QED
    BY <2>1, <2>2
<1>4. PICK i \in S, j \in S : i # j
  BY <1>3
<1>5. i \in 1..Len(t) /\ j \in 1..Len(t) /\ t[i] = n /\ t[j] = n
  BY <1>1, <1>4
<1>6. Tailing(r) /\ r.since < r.rx
  <2>1. r.stage # "subscribed"
    <3> SUFFICES ASSUME r.stage = "subscribed" PROVE FALSE
      OBVIOUS
    <3>1. r.got = <<>> /\ r.buf = <<>> /\ r.pending = <<>>
      BY DEF StreamShape, Fresh
    <3>2. t = <<>> \o <<>> \o <<>>
      BY <3>1 DEF TakenBy
    <3>3. Len(t) = 0
      BY <3>2
    <3> QED
      BY <1>5, <3>3
  <2> QED
    BY <2>1 DEF StreamShape
<1>7. n \in r.since + 1 .. r.base /\ \A m \in 1..Len(t) : t[m] = n => m \in {i, j}
  BY <1>4, <1>5, <1>6, AtMostTwice
<1>8. S = {i, j}
  BY <1>1, <1>5, <1>7
<1> HIDE DEF S, t
<1>9. Cardinality({i, j}) = 2
  <2>1. IsFiniteSet({i}) /\ Cardinality({i}) = 1
    BY FS_Singleton
  <2>2. {i, j} = {i} \cup {j} /\ j \notin {i}
    BY <1>4
  <2> QED
    <3>1. Cardinality({i} \cup {j}) = Cardinality({i}) + 1
      BY <2>1, <2>2, FS_AddElement
    <3>2. Cardinality({i, j}) = 1 + 1
      BY <2>1, <2>2, <3>1, Zenon
    <3> QED
      BY <3>2
<1>10. Occurrences(TakenBy(r), n) = Cardinality(S)
  BY DEF Occurrences, S, t
<1> QED
  BY <1>7, <1>8, <1>9, <1>10

\* The smallest of the three numbers that bound a replay.
LEMMA BacklogIsLeast ==
    ASSUME NEW ask \in Nat, NEW base \in Nat
    PROVE  BacklogSize(ask, base) =
               CHOOSE n \in {ask, Capacity, base} : \A o \in {ask, Capacity, base} : n <= o
<1> DEFINE B == BacklogSize(ask, base)
           P(n) == \A o \in {ask, Capacity, base} : n <= o
           k == CHOOSE n \in {ask, Capacity, base} : P(n)
<1>1. /\ B \in {ask, base, Capacity} /\ B \in Nat /\ B <= ask /\ B <= base /\ B <= Capacity
      /\ Capacity \in Nat
  BY BacklogIs, StreamAssumption
<1> HIDE DEF B
<1>2. B \in {ask, Capacity, base} /\ P(B)
  BY <1>1
<1>3. k \in {ask, Capacity, base} /\ P(k)
  BY <1>2
<1>4. k \in Nat
  BY <1>1, <1>3
<1>5. k <= B /\ B <= k
  BY <1>2, <1>3
<1> HIDE DEF k
<1>6. B = k
  BY <1>1, <1>4, <1>5
<1> QED
  BY <1>6 DEF B, k

LEMMA StreamInvTells ==
    ASSUME StreamInv
    PROVE  StreamsAreExact
<1>1. \A s \in Streams : /\ st[s] \in Stream /\ StreamShape(st[s]) /\ StreamTimes(st[s], lines, events)
                          /\ WatchExact(st[s], events) /\ Room(st[s])
  BY DEF StreamInv, StreamOf
<1>2. \A s \in Streams : /\ Taken(s) = TakenBy(st[s])
                          /\ DOMAIN Taken(s) = 1..Len(TakenBy(st[s]))
                          /\ TakenBy(st[s]) \in Seq(Nat)
  <2> SUFFICES ASSUME NEW s \in Streams
               PROVE  /\ Taken(s) = TakenBy(st[s])
                      /\ DOMAIN Taken(s) = 1..Len(TakenBy(st[s]))
                      /\ TakenBy(st[s]) \in Seq(Nat)
    OBVIOUS
  <2>1. Taken(s) = TakenBy(st[s])
    BY DEF Taken, TakenBy
  <2>2. TakenBy(st[s]) \in Seq(Nat)
    BY <1>1, TakenType
  <2>3. DOMAIN TakenBy(st[s]) = 1..Len(TakenBy(st[s]))
    BY <2>2
  <2> QED
    BY <2>1, <2>2, <2>3
<1>3. TypeOK
  <2>1. SourceInv /\ st \in [Streams -> Stream]
    BY DEF StreamInv
  <2>2. \A s \in Streams : Len(st[s].buf) <= ForwardCap /\ st[s].rx <= Published(s) + 1
    BY <1>1 DEF Room, StreamTimes, Published
  <2> QED
    BY <2>1, <2>2 DEF TypeOK, SourceInv, RingIsNewest
<1>4. WatchIsExact
  <2> SUFFICES ASSUME NEW s \in Streams, st[s].kind = "watch", st[s].open
               PROVE  /\ {Taken(s)[i] : i \in DOMAIN Taken(s)} =
                            {n \in st[s].since + 1 .. st[s].rx - 1 : st[s].filter \in {All, events[n]}}
                      /\ \A i, j \in DOMAIN Taken(s) : i < j => Taken(s)[i] < Taken(s)[j]
    BY DEF WatchIsExact
  <2>1. TakenSet(TakenBy(st[s])) = Due(st[s], events) /\ Rising(TakenBy(st[s]))
    BY <1>1 DEF WatchExact
  <2> QED
    BY <1>2, <2>1 DEF TakenSet, Rising, Due
<1>5. ASSUME NEW s \in Streams, st[s].kind = "tail", st[s].open, st[s].stage # "subscribed"
      PROVE  Tailing(st[s]) /\ st[s].since < st[s].rx
  BY <1>1, <1>5 DEF StreamShape
<1>6. TailHasNoGap
  <2> SUFFICES ASSUME NEW s \in Streams, st[s].kind = "tail", st[s].open, st[s].stage # "subscribed"
               PROVE  /\ \A n \in {Taken(s)[i] : i \in DOMAIN Taken(s)} :
                             n .. st[s].rx - 1 \subseteq {Taken(s)[i] : i \in DOMAIN Taken(s)}
                      /\ st[s].since + 1 .. st[s].rx - 1 \subseteq {Taken(s)[i] : i \in DOMAIN Taken(s)}
    BY DEF TailHasNoGap
  <2>1. {Taken(s)[i] : i \in DOMAIN Taken(s)} = TakenSet(TakenBy(st[s]))
    BY <1>2 DEF TakenSet
  <2>2. /\ \A n \in TakenSet(TakenBy(st[s])) : n .. st[s].rx - 1 \subseteq TakenSet(TakenBy(st[s]))
        /\ st[s].since + 1 .. st[s].rx - 1 \subseteq TakenSet(TakenBy(st[s]))
    BY <1>1, <1>5, NoGap
  <2> QED
    BY <2>1, <2>2
<1>7. TwiceOnlyInTheRace
  <2> SUFFICES ASSUME NEW s \in Streams, NEW n \in 1..lines, st[s].kind = "tail",
                      Occurrences(Taken(s), n) > 1
               PROVE  Occurrences(Taken(s), n) = 2 /\ n \in st[s].since + 1 .. st[s].base
    BY DEF TwiceOnlyInTheRace
  <2>1. n \in Nat
    BY DEF StreamInv, SourceInv
  <2>2. Occurrences(TakenBy(st[s]), n) > 1
    BY <1>2
  <2> QED
    BY <1>1, <1>2, <2>1, <2>2, Twice
<1>8. BacklogIsNewest
  <2> SUFFICES ASSUME NEW s \in Streams, st[s].kind = "tail", st[s].open, st[s].stage # "subscribed",
                      NEW k, k = CHOOSE n \in {st[s].ask, Capacity, st[s].base} :
                                    \A o \in {st[s].ask, Capacity, st[s].base} : n <= o
               PROVE  Len(Taken(s)) >= k /\ \A i \in 1..k : Taken(s)[i] = st[s].base - k + i
    BY DEF BacklogIsNewest
  <2>1. k = BacklogSize(st[s].ask, st[s].base)
    <3>1. st[s].ask \in Nat /\ st[s].base \in Nat
      BY <1>1, StreamFields
    <3> QED
      BY <3>1, BacklogIsLeast
  <2>2. /\ Len(TakenBy(st[s])) >= k
        /\ \A i \in 1..k : TakenBy(st[s])[i] = st[s].base - k + i
    BY <1>1, <1>5, <2>1, Replayed
  <2> QED
    BY <1>2, <2>2
<1> QED
  BY <1>3, <1>4, <1>6, <1>7, <1>8 DEF StreamsAreExact

\* The tray is one of the clients: its steps are steps of the streams.
LEMMA TrayIsAClient ==
    ASSUME TrayNext
    PROVE  Next \/ UNCHANGED vars
<1>1. TrayStream \in Streams
  BY TrayAssumption
<1>2. CASE Subscribe
  BY <1>1, <1>2 DEF Subscribe, Next
<1>3. CASE Received
  BY <1>1, <1>3 DEF Received, Next
<1>4. CASE StreamLost
  BY <1>1, <1>4 DEF StreamLost, Next
<1>5. CASE Quit
  BY <1>1, <1>5 DEF Quit, Next
<1>6. CASE Elsewhere
  BY <1>6 DEF Elsewhere, Next
<1>7. CASE TrayStart \/ FetchSnapshot \/ Rendered \/ RenderedUnreachable \/ PollTick \/ Click
  BY <1>7 DEF TrayStart, FetchSnapshot, Rendered, RenderedUnreachable, PollTick, Click
<1> QED
  BY <1>2, <1>3, <1>4, <1>5, <1>6, <1>7 DEF TrayNext

LEMMA StreamKept ==
    ASSUME StreamInv, Next \/ UNCHANGED vars
    PROVE  StreamInv'
<1>1. CASE Next
  BY <1>1, StreamStep
<1>2. CASE UNCHANGED vars
  BY <1>2 DEF vars, StreamInv, SourceInv, RingIsNewest
<1> QED
  BY <1>1, <1>2

\* WatchEvents and TailLogs (service.rs, broker.rs, logring.rs), for any number of
\* streams, any capacities of the ring and of the channels, and any number of lines
\* and events: a watcher has exactly the events that it asked for, a tail has no hole
\* up to its receiver, repeats a line only if it was appended between its subscription
\* and its backlog, and starts with the newest lines there were.
THEOREM StreamsExact == MCSpec => []StreamsAreExact
<1>1. MCInit => StreamInv
  BY StreamStart DEF MCInit, TrayInit
<1>2. StreamInv /\ [MCNext]_MCVars => StreamInv'
  <2> SUFFICES ASSUME StreamInv, [MCNext]_MCVars PROVE Next \/ UNCHANGED vars
    BY StreamKept
  <2>1. CASE MCNext
    BY <2>1, TrayIsAClient DEF MCNext, streamPart
  <2>2. CASE UNCHANGED MCVars
    BY <2>2 DEF MCVars, streamPart
  <2> QED
    BY <2>1, <2>2
<1>3. StreamInv => StreamsAreExact
  BY StreamInvTells
<1> QED
  BY <1>1, <1>2, <1>3, PTL DEF MCSpec

-----------------------------------------------------------------------------
(* The tray's menu: sequences of any messages *)

IsSequence(q) == Len(q) \in Nat /\ q = [i \in 1..Len(q) |-> q[i]]

LEMMA EmptySequence == IsSequence(<<>>) /\ Len(<<>>) = 0
BY DEF IsSequence

LEMMA SequenceTyped ==
    ASSUME NEW q, IsSequence(q), NEW S, \A i \in 1..Len(q) : q[i] \in S
    PROVE  q \in Seq(S)
<1>1. Len(q) \in Nat /\ q = [i \in 1..Len(q) |-> q[i]]
  BY DEF IsSequence
<1> DEFINE n == Len(q)
           p == [i \in 1..n |-> q[i]]
<1>2. p = q
  BY <1>1
<1> HIDE DEF n
<1>3. n \in Nat /\ p \in [1..n -> S]
  BY <1>1 DEF n
<1> HIDE DEF p
<1>4. p \in Seq(S)
  BY <1>3
<1> QED
  BY <1>2, <1>4

LEMMA TypedSequence ==
    ASSUME NEW S, NEW q \in Seq(S)
    PROVE  IsSequence(q)
BY DEF IsSequence

LEMMA AppendAny ==
    ASSUME NEW q, IsSequence(q), NEW e
    PROVE  /\ IsSequence(Append(q, e)) /\ Len(Append(q, e)) = Len(q) + 1 /\ Len(q) \in Nat
           /\ \A i \in 1..Len(q) : Append(q, e)[i] = q[i]
           /\ Append(q, e)[Len(q) + 1] = e
<1> DEFINE S == {q[i] : i \in 1..Len(q)} \cup {e}
<1>1. q \in Seq(S) /\ e \in S
  BY SequenceTyped
<1> HIDE DEF S
<1>2. Append(q, e) \in Seq(S)
  BY <1>1
<1>3. IsSequence(Append(q, e))
  BY <1>2, TypedSequence
<1> QED
  BY <1>1, <1>3

LEMMA TailAny ==
    ASSUME NEW q, IsSequence(q), q # <<>>
    PROVE  /\ IsSequence(Tail(q)) /\ Len(Tail(q)) = Len(q) - 1 /\ Len(q) \in Nat \ {0}
           /\ Head(q) = q[1]
           /\ \A i \in 1..Len(q) - 1 : Tail(q)[i] = q[i + 1]
<1> DEFINE S == {q[i] : i \in 1..Len(q)}
<1>1. q \in Seq(S)
  BY SequenceTyped
<1> HIDE DEF S
<1>2. Tail(q) \in Seq(S)
  BY <1>1
<1>3. IsSequence(Tail(q))
  BY <1>2, TypedSequence
<1> QED
  BY <1>1, <1>3

-----------------------------------------------------------------------------
(* The tray's menu: what is clicked *)

OneRowEach(m) == \A r1, r2 \in m.rows : r1.name = r2.name => r1 = r2
GoodMenu(m) == m.gen \in Nat /\ OneRowEach(m)

Rendering == {"modules", "status", "commands", "joined", "send"}
TrayPlaces == {"connect", "idle", "act", "gone"} \cup Rendering

\* A message to the shell when it knows the menu m, n renders have begun and the loop is at p: a menu
\* is newer than m, a click was on a menu that is not newer, and if it was on m it
\* was on one of its items.
Message(e, m, n, p) ==
    \/ /\ e.kind = "menu" /\ GoodMenu(e.menu) /\ m.gen < e.menu.gen
       /\ e.menu.gen <= n /\ (p \in Rendering => e.menu.gen < n)
    \/ /\ e.kind = "click"
       /\ \E g \in 0..m.gen : /\ e.id = <<g, Place(e.said)>>
                              /\ g = m.gen => e.said \in Items(m)

NewerMenus(q) ==
    \A i, j \in 1..Len(q) :
        i < j /\ q[i].kind = "menu" /\ q[j].kind = "menu" => q[i].menu.gen < q[j].menu.gen

ChannelInv ==
    /\ IsSequence(tmChannel) /\ NewerMenus(tmChannel)
    /\ \A i \in 1..Len(tmChannel) :
          Message(tmChannel[i], tmIds, tmCount.renders, tmAt)

\* The menu on the screen is the one whose identifiers are known or an older one.
MenusInv ==
    /\ GoodMenu(tmShown) /\ GoodMenu(tmIds) /\ GoodMenu(tmMenu)
    /\ tmShell = "linux" => tmShown = tmIds
    /\ tmShown.gen <= tmIds.gen /\ (tmShown.gen = tmIds.gen => tmShown = tmIds)
    /\ tmIds.gen <= tmCount.renders /\ (tmAt \in Rendering => tmIds.gen < tmCount.renders)
    /\ tmAt = "send" => tmMenu.gen = tmCount.renders

SaidIsDone(q) == IsSequence(q) /\ \A i \in 1..Len(q) : q[i].said = q[i].does

ShellInv ==
    /\ tmAt \in TrayPlaces /\ tmShell \in {"linux", "native"}
    /\ tmCount \in [renders : Nat, clicks : Nat]
    /\ MenusInv /\ ChannelInv /\ SaidIsDone(tmActions)

\* An identifier names one item of a menu: no two items of it have the same place.
LEMMA PlaceIsOwn ==
    ASSUME NEW m, OneRowEach(m), NEW i \in Items(m), NEW j \in Items(m), Place(i) = Place(j)
    PROVE  i = j
<1>1. \A k \in Items(m) :
        \/ k = <<"refresh", AllModules>> \/ k = <<"quit", AllModules>>
        \/ \E r \in m.rows : \/ k = <<IF r.loaded THEN "unload" ELSE "load", r.name>>
                              \/ k = <<"dispatch", r.name>>
  BY DEF Items, FooterItems, LoadUnloadItem, TrayItems
<1>2. \A r \in m.rows : Place(<<IF r.loaded THEN "unload" ELSE "load", r.name>>) = <<"first", r.name>>
  BY DEF Place
<1>3. /\ \A r \in m.rows : Place(<<"dispatch", r.name>>) = <<"dispatch", r.name>>
      /\ Place(<<"refresh", AllModules>>) = <<"refresh", AllModules>>
      /\ Place(<<"quit", AllModules>>) = <<"quit", AllModules>>
  BY DEF Place
<1>4. CASE i = <<"refresh", AllModules>> \/ i = <<"quit", AllModules>>
  <2>1. Place(i) = i
    BY <1>3, <1>4
  <2>2. Place(j) = j \/ \E r \in m.rows : Place(j) = <<"first", r.name>>
    BY <1>1, <1>2, <1>3
  <2> QED
    BY <1>4, <2>1, <2>2
<1>5. CASE \E r \in m.rows : i = <<"dispatch", r.name>>
  <2>1. Place(i) = i
    BY <1>3, <1>5
  <2>2. Place(j) = j \/ \E r \in m.rows : Place(j) = <<"first", r.name>>
    BY <1>1, <1>2, <1>3
  <2> QED
    BY <1>5, <2>1, <2>2
<1>6. CASE \E r \in m.rows : i = <<IF r.loaded THEN "unload" ELSE "load", r.name>>
  <2>1. PICK r \in m.rows : i = <<IF r.loaded THEN "unload" ELSE "load", r.name>>
    BY <1>6
  <2>2. Place(i) = <<"first", r.name>>
    BY <1>2, <2>1
  <2>3. PICK q \in m.rows : j = <<IF q.loaded THEN "unload" ELSE "load", q.name>>
    <3>1. /\ <<"first", r.name>> # <<"refresh", AllModules>> /\ <<"first", r.name>> # <<"quit", AllModules>>
          /\ \A q \in m.rows : <<"first", r.name>> # <<"dispatch", q.name>>
      OBVIOUS
    <3>2. Place(j) = <<"first", r.name>>
      BY <2>2
    <3>3. /\ j # <<"refresh", AllModules>> /\ j # <<"quit", AllModules>>
          /\ \A q \in m.rows : j # <<"dispatch", q.name>>
      BY <1>3, <3>1, <3>2, Zenon
    <3> QED
      BY <1>1, <3>3, Zenon
  <2>4. q.name = r.name
    <3>1. Place(j) = <<"first", q.name>>
      BY <1>2, <2>3, Zenon
    <3>2. <<"first", q.name>> = <<"first", r.name>>
      BY <2>2, <3>1
    <3> QED
      BY <3>2
  <2>5. q = r
    BY <2>4 DEF OneRowEach
  <2> QED
    BY <2>1, <2>3, <2>5
<1> QED
  BY <1>1, <1>4, <1>5, <1>6

LEMMA MessageLater ==
    ASSUME NEW e, NEW m, NEW n \in Nat, NEW o \in Nat, NEW x, NEW y,
           Message(e, m, n, x), (o = n /\ (y \in Rendering => x \in Rendering)) \/ n < o
    PROVE  Message(e, m, o, y)
<1>1. CASE e.kind = "menu" /\ GoodMenu(e.menu) /\ m.gen < e.menu.gen /\ e.menu.gen <= n /\ (x \in Rendering => e.menu.gen < n)
  <2>1. e.menu.gen \in Nat
    BY <1>1 DEF GoodMenu
  <2>2. e.menu.gen <= o /\ (y \in Rendering => e.menu.gen < o)
    BY <1>1, <2>1
  <2> QED
    BY <1>1, <2>2 DEF Message
<1>2. CASE e.kind = "click" /\ \E g \in 0..m.gen : e.id = <<g, Place(e.said)>> /\ (g = m.gen => e.said \in Items(m))
  BY <1>2 DEF Message
<1> QED
  BY <1>1, <1>2 DEF Message

\* The loop goes on and leaves the shell alone.
LEMMA LoopStep ==
    ASSUME ShellInv, UNCHANGED shellVars, tmAt' \in TrayPlaces,
           tmCount' \in [renders : Nat, clicks : Nat],
           \/ tmCount'.renders = tmCount.renders /\ (tmAt' \in Rendering => tmAt \in Rendering)
           \/ tmCount'.renders = tmCount.renders + 1,
           GoodMenu(tmMenu'), tmAt' = "send" => tmMenu'.gen = tmCount'.renders
    PROVE  ShellInv'
<1> DEFINE n == tmCount.renders
           o == tmCount'.renders
<1>1. n \in Nat /\ o \in Nat /\ tmIds.gen \in Nat
  BY DEF ShellInv, MenusInv, GoodMenu
<1>2. tmShell' = tmShell /\ tmChannel' = tmChannel /\ tmShown' = tmShown /\ tmIds' = tmIds /\ tmActions' = tmActions
  BY DEF shellVars
<1>3. (o = n /\ (tmAt' \in Rendering => tmAt \in Rendering)) \/ n < o
  BY <1>1
<1>4. MenusInv'
  <2>1. tmIds.gen <= n /\ (tmAt \in Rendering => tmIds.gen < n)
    BY DEF ShellInv, MenusInv
  <2> HIDE DEF n, o
  <2>2. tmIds.gen <= o /\ (tmAt' \in Rendering => tmIds.gen < o)
    BY <1>1, <1>3, <2>1
  <2> QED
    BY <1>2, <2>2 DEF ShellInv, MenusInv, o
<1>5. ChannelInv'
  <2> HIDE DEF n, o
  <2>1. ASSUME NEW i \in 1..Len(tmChannel)
        PROVE  Message(tmChannel[i], tmIds, o, tmAt')
    <3>1. Message(tmChannel[i], tmIds, n, tmAt)
      BY DEF ShellInv, ChannelInv, n
    <3> QED
      BY <1>1, <1>3, <3>1, MessageLater
  <2> QED
    BY <1>2, <2>1 DEF ShellInv, ChannelInv, o
<1> QED
  BY <1>2, <1>4, <1>5 DEF ShellInv

LEMMA NoMenuFields ==
    /\ GoodMenu(NoMenu)
    /\ \A n \in Nat : GoodMenu([NoMenu EXCEPT !.gen = n]) /\ [NoMenu EXCEPT !.gen = n].gen = n
                      /\ [NoMenu EXCEPT !.gen = n].kind = "unreachable"
BY DEF NoMenu, GoodMenu, OneRowEach

LEMMA BuiltIsGood ==
    ASSUME NEW n \in Nat, NEW R, NEW m,
           m = [gen |-> n, kind |-> "connected", rows |-> {JoinedRow(k) : k \in R}]
    PROVE  GoodMenu(m) /\ m.gen = n
<1>1. \A k \in R : JoinedRow(k).name = k
  BY DEF JoinedRow
<1> QED
  BY <1>1 DEF GoodMenu, OneRowEach

LEMMA RenderSteps ==
    ASSUME ShellInv, Connects \/ Render \/ SnapshotGoesOn \/ MenuBuilt \/ UnreachableBuilt \/ ActionEnds
    PROVE  ShellInv'
<1>1. /\ tmCount \in [renders : Nat, clicks : Nat] /\ GoodMenu(tmMenu) /\ tmCount.renders \in Nat
  BY DEF ShellInv, MenusInv
<1>2. CASE Connects
  <2>1. UNCHANGED shellVars /\ tmMenu' = tmMenu /\ tmCount' = tmCount /\ tmAt' \in {"idle", "gone"}
    BY <1>2 DEF Connects
  <2> QED
    BY <1>1, <2>1, LoopStep DEF TrayPlaces, Rendering
<1>3. CASE Render
  <2>1. UNCHANGED shellVars /\ tmMenu' = tmMenu /\ tmAt' = "modules"
    BY <1>3 DEF Render
  <2>2. tmCount' \in [renders : Nat, clicks : Nat] /\ tmCount'.renders = tmCount.renders + 1
    BY <1>1, <1>3 DEF Render
  <2> QED
    BY <1>1, <2>1, <2>2, LoopStep DEF TrayPlaces, Rendering
<1>4. CASE SnapshotGoesOn
  <2>1. UNCHANGED shellVars /\ tmMenu' = tmMenu /\ tmCount' = tmCount
    BY <1>4 DEF SnapshotGoesOn
  <2>2. tmAt \in {"modules", "status", "commands"} /\ tmAt' \in {"status", "commands", "joined"}
    BY <1>4 DEF SnapshotGoesOn
  <2> QED
    BY <1>1, <2>1, <2>2, LoopStep DEF TrayPlaces, Rendering
<1>5. CASE MenuBuilt
  <2>1. UNCHANGED shellVars /\ tmCount' = tmCount /\ tmAt' = "send" /\ tmAt = "joined"
    BY <1>5 DEF MenuBuilt
  <2>2. GoodMenu(tmMenu') /\ tmMenu'.gen = tmCount.renders
    BY <1>1, <1>5, BuiltIsGood DEF MenuBuilt
  <2> QED
    BY <1>1, <2>1, <2>2, LoopStep DEF TrayPlaces, Rendering
<1>6. CASE UnreachableBuilt
  <2>1. UNCHANGED shellVars /\ tmCount' = tmCount /\ tmAt' = "send" /\ tmAt \in Rendering
    BY <1>6 DEF UnreachableBuilt, Rendering
  <2>2. GoodMenu(tmMenu') /\ tmMenu'.gen = tmCount.renders
    BY <1>1, <1>6, NoMenuFields DEF UnreachableBuilt
  <2> QED
    BY <1>1, <2>1, <2>2, LoopStep DEF TrayPlaces, Rendering
<1>7. CASE ActionEnds
  <2>1. UNCHANGED shellVars /\ tmMenu' = tmMenu /\ tmCount' = tmCount /\ tmAt' = "idle"
    BY <1>7 DEF ActionEnds
  <2> QED
    BY <1>1, <2>1, LoopStep DEF TrayPlaces, Rendering
<1> QED
  BY <1>2, <1>3, <1>4, <1>5, <1>6, <1>7

LEMMA MenuSentStep ==
    ASSUME ShellInv, MenuSent
    PROVE  ShellInv'
<1> DEFINE n == tmCount.renders
           e == [kind |-> "menu", menu |-> tmMenu]
<1>1. /\ tmAt = "send" /\ tmAt' = "idle" /\ tmChannel' = Append(tmChannel, e) /\ tmMenu' = NoMenu
      /\ tmShell' = tmShell /\ tmShown' = tmShown /\ tmIds' = tmIds /\ tmActions' = tmActions
      /\ tmCount' = tmCount
  BY DEF MenuSent
<1>2. n \in Nat /\ tmMenu.gen = n /\ tmIds.gen < n /\ tmIds.gen \in Nat /\ GoodMenu(tmMenu)
  BY <1>1 DEF ShellInv, MenusInv, GoodMenu, Rendering
<1>3. MenusInv'
  <2>1. tmIds.gen <= n
    BY <1>2
  <2> QED
    BY <1>1, <2>1, NoMenuFields DEF ShellInv, MenusInv, Rendering
<1>4. \A i \in 1..Len(tmChannel) : Message(tmChannel[i], tmIds, n, "send")
  BY <1>1 DEF ShellInv, ChannelInv, Rendering
<1>5. e.kind = "menu" /\ e.menu = tmMenu
  OBVIOUS
<1> HIDE DEF n, e
<1>6. Message(e, tmIds, n, "idle")
  <2>1. n <= n
    BY <1>2
  <2> QED
    BY <1>2, <1>5, <2>1 DEF Message, Rendering
<1>7. /\ IsSequence(tmChannel') /\ Len(tmChannel') = Len(tmChannel) + 1 /\ Len(tmChannel) \in Nat
      /\ \A i \in 1..Len(tmChannel) : tmChannel'[i] = tmChannel[i]
      /\ tmChannel'[Len(tmChannel) + 1] = e
  BY <1>1, AppendAny DEF ShellInv, ChannelInv
<1>8. ASSUME NEW i \in 1..Len(tmChannel') PROVE Message(tmChannel'[i], tmIds, n, "idle")
  <2>1. CASE i \in 1..Len(tmChannel)
    BY <1>2, <1>4, <1>7, <2>1, MessageLater DEF Rendering
  <2>2. CASE i = Len(tmChannel) + 1
    BY <1>6, <1>7, <2>2
  <2> QED
    BY <1>7, <2>1, <2>2
<1>9. NewerMenus(tmChannel')
  <2> SUFFICES ASSUME NEW i \in 1..Len(tmChannel'), NEW j \in 1..Len(tmChannel'), i < j,
                      tmChannel'[i].kind = "menu", tmChannel'[j].kind = "menu"
               PROVE  tmChannel'[i].menu.gen < tmChannel'[j].menu.gen
    BY DEF NewerMenus
  <2>1. i \in 1..Len(tmChannel)
    BY <1>7
  <2>2. CASE j \in 1..Len(tmChannel)
    BY <1>7, <2>1, <2>2 DEF ShellInv, ChannelInv, NewerMenus
  <2>3. CASE j = Len(tmChannel) + 1
    <3>1. Message(tmChannel[i], tmIds, n, "send") /\ tmChannel[i].kind = "menu"
      BY <1>4, <1>7, <2>1
    <3>2. tmChannel[i].menu.gen < n
      BY <3>1 DEF Message, Rendering
    <3> QED
      BY <1>2, <1>5, <1>7, <2>1, <2>3, <3>2
  <2> QED
    BY <1>7, <2>2, <2>3
<1>10. ChannelInv'
  BY <1>1, <1>7, <1>8, <1>9 DEF ChannelInv, n
<1> QED
  BY <1>1, <1>3, <1>10 DEF ShellInv, TrayPlaces

LEMMA NewerTail ==
    ASSUME NEW q, IsSequence(q), q # <<>>, NewerMenus(q)
    PROVE  NewerMenus(Tail(q))
<1>1. /\ Len(Tail(q)) = Len(q) - 1 /\ Len(q) \in Nat \ {0}
      /\ \A i \in 1..Len(q) - 1 : Tail(q)[i] = q[i + 1]
  BY TailAny
<1> SUFFICES ASSUME NEW i \in 1..Len(q) - 1, NEW j \in 1..Len(q) - 1, i < j,
                    q[i + 1].kind = "menu", q[j + 1].kind = "menu"
             PROVE  q[i + 1].menu.gen < q[j + 1].menu.gen
  BY <1>1 DEF NewerMenus
<1>2. i + 1 \in 1..Len(q) /\ j + 1 \in 1..Len(q) /\ i + 1 < j + 1
  BY <1>1
<1> QED
  BY <1>2 DEF NewerMenus

LEMMA MenuArrivesStep ==
    ASSUME ShellInv, MenuArrives
    PROVE  ShellInv'
<1> DEFINE n == tmCount.renders
           m == Head(tmChannel).menu
           q == tmChannel
<1>1. /\ q # <<>> /\ Head(q).kind = "menu" /\ tmChannel' = Tail(q) /\ tmIds' = m
      /\ tmShown' = m \/ (tmShell = "native" /\ tmShown' = tmShown)
      /\ tmAt' = tmAt /\ tmMenu' = tmMenu /\ tmShell' = tmShell /\ tmActions' = tmActions
      /\ tmCount' = tmCount
  BY DEF MenuArrives
<1>2. /\ IsSequence(q) /\ IsSequence(Tail(q)) /\ Len(Tail(q)) = Len(q) - 1 /\ Len(q) \in Nat \ {0}
      /\ Head(q) = q[1] /\ \A i \in 1..Len(q) - 1 : Tail(q)[i] = q[i + 1]
  BY <1>1, TailAny DEF ShellInv, ChannelInv
<1>3. \A i \in 1..Len(q) : Message(q[i], tmIds, n, tmAt)
  BY DEF ShellInv, ChannelInv
<1>4. n \in Nat /\ tmIds.gen \in Nat /\ tmShown.gen \in Nat /\ tmShown.gen <= tmIds.gen
  BY DEF ShellInv, MenusInv, GoodMenu
<1>5. /\ GoodMenu(m) /\ m.gen \in Nat /\ tmIds.gen < m.gen /\ m.gen <= n
      /\ tmAt \in Rendering => m.gen < n
  <2>1. 1 \in 1..Len(q)
    BY <1>2
  <2>2. Message(q[1], tmIds, n, tmAt) /\ q[1].kind = "menu" /\ m = q[1].menu
    BY <1>1, <1>2, <1>3, <2>1
  <2> QED
    BY <2>2 DEF Message, GoodMenu
<1>6. MenusInv'
  <2>1. m.gen <= m.gen /\ tmShown.gen <= m.gen /\ tmShown.gen # m.gen
    BY <1>4, <1>5
  <2>2. GoodMenu(tmShown) /\ GoodMenu(tmMenu) /\ (tmAt = "send" => tmMenu.gen = n)
    BY DEF ShellInv, MenusInv
  <2> HIDE DEF m
  <2>3. tmShown' \in {m, tmShown} /\ (tmShell = "linux" => tmShown' = m)
    BY <1>1 DEF ShellInv
  <2> QED
    BY <1>1, <1>5, <2>1, <2>2, <2>3 DEF MenusInv
<1> HIDE DEF m, n
<1>7. ASSUME NEW i \in 1..Len(q) - 1 PROVE Message(q[i + 1], m, n, tmAt)
  <2>1. i + 1 \in 1..Len(q) /\ 1 \in 1..Len(q) /\ 1 < i + 1
    BY <1>2
  <2>2. Message(q[i + 1], tmIds, n, tmAt)
    BY <1>3, <2>1
  <2>3. CASE q[i + 1].kind = "menu"
    <3>1. q[1].kind = "menu" /\ m = q[1].menu /\ NewerMenus(q)
      BY <1>1, <1>2 DEF m, ShellInv, ChannelInv
    <3>2. m.gen < q[i + 1].menu.gen
      BY <2>1, <2>3, <3>1 DEF NewerMenus
    <3> QED
      BY <2>2, <2>3, <3>2 DEF Message
  <2>4. CASE q[i + 1].kind = "click"
    <3>1. PICK g \in 0..tmIds.gen : q[i + 1].id = <<g, Place(q[i + 1].said)>>
      BY <2>2, <2>4 DEF Message
    <3>2. g \in 0..m.gen /\ g # m.gen
      BY <1>4, <1>5
    <3> QED
      BY <2>4, <3>1, <3>2 DEF Message
  <2> QED
    BY <2>2, <2>3, <2>4 DEF Message
<1>8. ChannelInv'
  <2>1. NewerMenus(Tail(q))
    BY <1>1, <1>2, NewerTail DEF ShellInv, ChannelInv
  <2>2. \A i \in 1..Len(Tail(q)) : Message(Tail(q)[i], m, n, tmAt)
    BY <1>2, <1>7
  <2> QED
    BY <1>1, <1>2, <2>1, <2>2 DEF ChannelInv, n, m
<1> QED
  BY <1>1, <1>6, <1>8 DEF ShellInv

LEMMA ClickStep ==
    ASSUME ShellInv, NEW item \in Items(tmShown), UserClicks(item)
    PROVE  ShellInv'
<1> DEFINE n == tmCount.renders
           q == tmChannel
           e == [kind |-> "click", said |-> item, id |-> IdOf(tmShown, item)]
           d == [said |-> item, does |-> item]
<1>1. /\ tmAt' = tmAt /\ tmMenu' = tmMenu /\ tmShell' = tmShell /\ tmShown' = tmShown /\ tmIds' = tmIds
      /\ \/ tmActions' = Append(tmActions, d) /\ tmChannel' = q
         \/ tmActions' = tmActions /\ tmChannel' = Append(q, e)
  BY DEF UserClicks
<1>2. tmCount' \in [renders : Nat, clicks : Nat] /\ tmCount'.renders = n
  BY DEF UserClicks, ShellInv
<1>3. MenusInv'
  BY <1>1, <1>2 DEF ShellInv, MenusInv
<1>4. d.said = d.does
  OBVIOUS
<1>5. e.kind = "click" /\ e.said = item /\ e.id = <<tmShown.gen, Place(item)>>
  BY DEF IdOf
<1> HIDE DEF n, d, e
<1>6. ASSUME SaidIsDone(tmActions) PROVE SaidIsDone(Append(tmActions, d))
  <2>1. /\ IsSequence(Append(tmActions, d)) /\ Len(Append(tmActions, d)) = Len(tmActions) + 1
        /\ Len(tmActions) \in Nat
        /\ \A i \in 1..Len(tmActions) : Append(tmActions, d)[i] = tmActions[i]
        /\ Append(tmActions, d)[Len(tmActions) + 1] = d
    BY <1>6, AppendAny DEF SaidIsDone
  <2>2. \A i \in 1..Len(tmActions) + 1 : i \in 1..Len(tmActions) \/ i = Len(tmActions) + 1
    BY <2>1
  <2> QED
    BY <1>4, <1>6, <2>1, <2>2 DEF SaidIsDone
<1>7. SaidIsDone(tmActions)'
  BY <1>1, <1>6 DEF ShellInv
<1>8. Message(e, tmIds, n, tmAt)
  <2>1. tmShown.gen \in 0..tmIds.gen
    BY DEF ShellInv, MenusInv, GoodMenu
  <2>2. tmShown.gen = tmIds.gen => item \in Items(tmIds)
    BY DEF ShellInv, MenusInv
  <2> QED
    BY <1>5, <2>1, <2>2 DEF Message
<1>9. IsSequence(q) /\ NewerMenus(q) /\ \A i \in 1..Len(q) : Message(q[i], tmIds, n, tmAt)
  BY DEF ShellInv, ChannelInv, n
<1>10. CASE tmChannel' = q
  BY <1>1, <1>2, <1>3, <1>7, <1>9, <1>10 DEF ShellInv, ChannelInv
<1>11. CASE tmChannel' = Append(q, e)
  <2>1. /\ IsSequence(tmChannel') /\ Len(tmChannel') = Len(q) + 1 /\ Len(q) \in Nat
        /\ \A i \in 1..Len(q) : tmChannel'[i] = q[i]
        /\ tmChannel'[Len(q) + 1] = e
    BY <1>9, <1>11, AppendAny
  <2>2. \A i \in 1..Len(q) + 1 : i \in 1..Len(q) \/ i = Len(q) + 1
    BY <2>1
  <2>3. \A i \in 1..Len(tmChannel') : Message(tmChannel'[i], tmIds, n, tmAt)
    BY <1>8, <1>9, <2>1, <2>2
  <2>4. NewerMenus(tmChannel')
    <3> SUFFICES ASSUME NEW i \in 1..Len(q) + 1, NEW j \in 1..Len(q) + 1, i < j,
                        tmChannel'[i].kind = "menu", tmChannel'[j].kind = "menu"
                 PROVE  tmChannel'[i].menu.gen < tmChannel'[j].menu.gen
      BY <2>1 DEF NewerMenus
    <3>1. j # Len(q) + 1
      BY <1>5, <2>1
    <3>2. i \in 1..Len(q) /\ j \in 1..Len(q)
      BY <2>1, <3>1
    <3> QED
      BY <1>9, <2>1, <3>2 DEF NewerMenus
  <2>5. ChannelInv'
    BY <1>1, <1>2, <2>1, <2>3, <2>4 DEF ChannelInv
  <2> QED
    BY <1>1, <1>2, <1>3, <1>7, <2>5 DEF ShellInv
<1> QED
  BY <1>1, <1>10, <1>11

LEMMA ClickArrivesStep ==
    ASSUME ShellInv, ClickArrives
    PROVE  ShellInv'
<1> DEFINE n == tmCount.renders
           q == tmChannel
           c == Head(tmChannel)
           found == {i \in Items(tmIds) : IdOf(tmIds, i) = c.id}
<1>1. /\ q # <<>> /\ c.kind = "click" /\ tmChannel' = Tail(q)
      /\ tmMenu' = tmMenu /\ tmShell' = tmShell /\ tmShown' = tmShown /\ tmIds' = tmIds
      /\ tmCount' = tmCount
      /\ \/ tmActions' = tmActions /\ tmAt' = tmAt
         \/ \E i \in found : /\ tmActions' = Append(tmActions, [said |-> c.said, does |-> i])
                             /\ tmAt' \in {"gone", tmAt}
  BY DEF ClickArrives
<1>2. /\ IsSequence(q) /\ IsSequence(Tail(q)) /\ Len(Tail(q)) = Len(q) - 1 /\ Len(q) \in Nat \ {0}
      /\ c = q[1] /\ \A i \in 1..Len(q) - 1 : Tail(q)[i] = q[i + 1]
  BY <1>1, TailAny DEF ShellInv, ChannelInv
<1>3. \A i \in 1..Len(q) : Message(q[i], tmIds, n, tmAt)
  BY DEF ShellInv, ChannelInv
<1>4. OneRowEach(tmIds) /\ tmIds.gen \in Nat /\ n \in Nat
  BY DEF ShellInv, MenusInv, GoodMenu
<1>5. tmAt' \in {"gone", tmAt}
  BY <1>1
<1>6. MenusInv'
  BY <1>1, <1>5 DEF ShellInv, MenusInv, Rendering
<1>7. ASSUME NEW i \in found PROVE c.said = i
  <2>1. 1 \in 1..Len(q)
    BY <1>2
  <2>2. Message(c, tmIds, n, tmAt)
    BY <1>2, <1>3, <2>1
  <2> HIDE DEF c
  <2>3. PICK g \in 0..tmIds.gen : /\ c.id = <<g, Place(c.said)>>
                                  /\ g = tmIds.gen => c.said \in Items(tmIds)
    BY <1>1, <2>2 DEF Message
  <2>4. i \in Items(tmIds) /\ c.id = <<tmIds.gen, Place(i)>>
    BY <1>7 DEF IdOf
  <2>5. g = tmIds.gen /\ Place(c.said) = Place(i)
    <3>1. <<g, Place(c.said)>> = <<tmIds.gen, Place(i)>>
      BY <2>3, <2>4
    <3> QED
      BY <3>1
  <2> QED
    BY <1>4, <2>3, <2>4, <2>5, PlaceIsOwn
<1>8. SaidIsDone(tmActions)'
  <2>1. SaidIsDone(tmActions)
    BY DEF ShellInv
  <2>2. CASE tmActions' = tmActions
    BY <2>1, <2>2
  <2>3. ASSUME NEW i \in found, tmActions' = Append(tmActions, [said |-> c.said, does |-> i])
        PROVE  SaidIsDone(tmActions)'
    <3> DEFINE d == [said |-> c.said, does |-> i]
    <3>1. d.said = d.does
      BY <1>7, <2>3
    <3> HIDE DEF d, c, found
    <3>2. tmActions' = Append(tmActions, d)
      BY <2>3 DEF d
    <3>3. /\ IsSequence(tmActions') /\ Len(tmActions') = Len(tmActions) + 1
          /\ Len(tmActions) \in Nat
          /\ \A k \in 1..Len(tmActions) : tmActions'[k] = tmActions[k]
          /\ tmActions'[Len(tmActions) + 1] = d
      BY <2>1, <3>2, AppendAny DEF SaidIsDone
    <3>4. \A k \in 1..Len(tmActions) + 1 : k \in 1..Len(tmActions) \/ k = Len(tmActions) + 1
      BY <3>3
    <3> QED
      BY <2>1, <3>1, <3>3, <3>4 DEF SaidIsDone
  <2> QED
    BY <1>1, <2>2, <2>3
<1> HIDE DEF c, n
<1>9. ChannelInv'
  <2>1. NewerMenus(Tail(q))
    BY <1>1, <1>2, NewerTail DEF ShellInv, ChannelInv
  <2>2. ASSUME NEW i \in 1..Len(Tail(q)) PROVE Message(Tail(q)[i], tmIds, n, tmAt')
    <3>1. i \in 1..Len(q) - 1 /\ i + 1 \in 1..Len(q)
      BY <1>2
    <3>2. Message(Tail(q)[i], tmIds, n, tmAt)
      BY <1>2, <1>3, <3>1
    <3> QED
      BY <1>4, <1>5, <3>2, MessageLater DEF Rendering
  <2> QED
    BY <1>1, <1>2, <2>1, <2>2 DEF ChannelInv, n
<1> QED
  BY <1>1, <1>5, <1>6, <1>8, <1>9 DEF ShellInv, TrayPlaces

LEMMA ActionTakenStep ==
    ASSUME ShellInv, ActionTaken
    PROVE  ShellInv'
<1>1. /\ tmAt = "idle" /\ tmActions # <<>> /\ tmActions' = Tail(tmActions)
      /\ tmMenu' = tmMenu /\ tmShell' = tmShell /\ tmChannel' = tmChannel /\ tmShown' = tmShown
      /\ tmIds' = tmIds /\ tmCount' = tmCount
  BY DEF ActionTaken
<1>2. tmAt' \in {"gone", "idle", "act"}
  BY DEF ActionTaken, ActionStep
<1>3. MenusInv'
  BY <1>1, <1>2 DEF ShellInv, MenusInv, Rendering
<1>4. ChannelInv'
  <2>1. tmCount.renders \in Nat
    BY DEF ShellInv
  <2>2. ASSUME NEW i \in 1..Len(tmChannel) PROVE Message(tmChannel[i], tmIds, tmCount.renders, tmAt')
    <3>1. Message(tmChannel[i], tmIds, tmCount.renders, tmAt)
      BY DEF ShellInv, ChannelInv
    <3> QED
      BY <1>2, <2>1, <3>1, MessageLater DEF Rendering
  <2> QED
    BY <1>1, <2>2 DEF ShellInv, ChannelInv
<1>5. SaidIsDone(tmActions)'
  <2>1. SaidIsDone(tmActions)
    BY DEF ShellInv
  <2>2. /\ IsSequence(tmActions') /\ Len(tmActions') = Len(tmActions) - 1 /\ Len(tmActions) \in Nat \ {0}
        /\ \A i \in 1..Len(tmActions) - 1 : tmActions'[i] = tmActions[i + 1]
    BY <1>1, <2>1, TailAny DEF SaidIsDone
  <2>3. \A i \in 1..Len(tmActions) - 1 : i + 1 \in 1..Len(tmActions)
    BY <2>2
  <2> QED
    BY <2>1, <2>2, <2>3 DEF SaidIsDone
<1> QED
  BY <1>1, <1>2, <1>3, <1>4, <1>5 DEF ShellInv, TrayPlaces

LEMMA ShellStep ==
    ASSUME ShellInv, TrayMenuNext \/ UNCHANGED trayMenuVars
    PROVE  ShellInv'
<1>1. CASE UNCHANGED trayMenuVars
  BY <1>1 DEF trayMenuVars, ShellInv, MenusInv, ChannelInv
<1> QED
  BY <1>1, RenderSteps, MenuSentStep, MenuArrivesStep, ClickStep, ClickArrivesStep, ActionTakenStep
     DEF TrayMenuNext, TrayLoopStep

-----------------------------------------------------------------------------
(* The tray's menu: what it shows *)

HistoryInv == DOMAIN dsMods = Names /\ dsAlways \subseteq Loaded /\ Loaded \subseteq dsSeen

CallFields == {"rpc", "name", "at", "todo", "half", "got", "mute", "rows", "code"}
JoinFields == {"rows", "health", "commands"}

\* What a list of modules says of the time since the render began.
RowsTrue(rows, always, seen) ==
    /\ \A n \in always : n \in DOMAIN rows /\ rows[n] # "disabled"
    /\ \A n \in DOMAIN rows \ seen : rows[n] = "disabled"

\* The call of each of fetch_snapshot's steps, and what its answer says.
ModulesCall(c, always, seen) ==
    /\ c.rpc = "modules" /\ c.at \in {"sent", "done", "failed"}
    /\ c.at = "done" => RowsTrue(c.rows, always, seen)
StatusCall(c, seen) ==
    c.rpc = "status" /\ c.at \in {"sent", "each", "done", "failed"} /\ c.got \subseteq seen
CommandsCall(c, always, seen) ==
    /\ c.rpc = "commands" /\ c.name = AllModules /\ c.at \in {"sent", "each", "done", "failed"}
    /\ c.got \subseteq seen
    /\ c.at = "each" => always \subseteq c.got \cup c.todo
    /\ c.at = "done" => always \subseteq c.got

CallInv(p, c, always, seen) ==
    /\ DOMAIN c = CallFields
    /\ p = "modules" => ModulesCall(c, always, seen)
    /\ p = "status" => StatusCall(c, seen)
    /\ p = "commands" => CommandsCall(c, always, seen)

\* The answers that have been joined so far.
JoinInv(p, j, always, seen) ==
    /\ DOMAIN j = JoinFields
    /\ p \in {"status", "commands", "joined"} => RowsTrue(j.rows, always, seen)
    /\ p \in {"commands", "joined"} => j.health \subseteq seen
    /\ p = "joined" => j.commands \subseteq seen /\ always \subseteq j.commands

ShownTrue(p, m, always, seen) ==
    p = "send" /\ m.kind = "connected" =>
        /\ \A n \in always : \E r \in m.rows : r.name = n /\ r.loaded /\ (n \notin Silent => r.commands)
        /\ \A r \in m.rows : r.name \notin seen => ~r.loaded /\ ~r.health /\ ~r.commands

SnapshotInv ==
    /\ HistoryInv
    /\ CallInv(tmAt, dsCall, dsAlways, dsSeen)
    /\ JoinInv(tmAt, tmJoin, dsAlways, dsSeen)
    /\ ShownTrue(tmAt, tmMenu, dsAlways, dsSeen)

\* As the table changes, less was always loaded and more was seen.
LEMMA SaidEarlier ==
    ASSUME NEW p, NEW j, NEW m, NEW always, NEW seen, NEW fewer, NEW more,
           fewer \subseteq always, seen \subseteq more
    PROVE  /\ JoinInv(p, j, always, seen) => JoinInv(p, j, fewer, more)
           /\ ShownTrue(p, m, always, seen) => ShownTrue(p, m, fewer, more)
           /\ \A c : CallInv(p, c, always, seen) => CallInv(p, c, fewer, more)
<1>1. \A rows : RowsTrue(rows, always, seen) => RowsTrue(rows, fewer, more)
  BY DEF RowsTrue
<1>2. JoinInv(p, j, always, seen) => JoinInv(p, j, fewer, more)
  BY <1>1 DEF JoinInv
<1>3. ShownTrue(p, m, always, seen) => ShownTrue(p, m, fewer, more)
  BY DEF ShownTrue
<1>4. \A c : CallInv(p, c, always, seen) => CallInv(p, c, fewer, more)
  BY <1>1 DEF CallInv, ModulesCall, StatusCall, CommandsCall
<1> QED
  BY <1>2, <1>3, <1>4

LEMMA TableMoves ==
    ASSUME HistoryInv, NEW mods, DOMAIN mods = Names, TableBecomes(mods)
    PROVE  HistoryInv' /\ dsAlways' \subseteq dsAlways /\ dsSeen \subseteq dsSeen'
BY DEF HistoryInv, TableBecomes, Loaded

LEMMA TableStays ==
    ASSUME HistoryInv, dsMods' = dsMods, dsSeen' = dsSeen, dsAlways' = dsAlways
    PROVE  HistoryInv'
BY DEF HistoryInv, Loaded

LEMMA NoRpcFields ==
    /\ DOMAIN NoRpc = CallFields /\ NoRpc.rpc = "none" /\ NoRpc.at = "none" /\ NoRpc.got = {}
    /\ NoRpc.name = AllModules /\ NoRpc.half = Ghost /\ NoRpc.mute = {} /\ NoRpc.code = 0
BY DEF NoRpc, CallFields

LEMMA RequestFields ==
    ASSUME NEW rpc, NEW name, Request(rpc, name)
    PROVE  /\ DOMAIN dsCall' = CallFields /\ dsCall'.rpc = rpc /\ dsCall'.name = name
           /\ dsCall'.at \in {"sent", "failed"} /\ dsCall'.got = {} /\ dsCall'.half = Ghost /\ dsCall'.code = 0
BY NoRpcFields DEF Request, CallFields

\* A handler's answer replaces the fields it names.
LEMMA RepliesFields ==
    ASSUME DOMAIN dsCall = CallFields, NEW fields, Replies(fields)
    PROVE  /\ DOMAIN dsCall' = CallFields
           /\ \A f \in CallFields : /\ f \in DOMAIN fields => dsCall'[f] = fields[f]
                                    /\ f \notin DOMAIN fields => dsCall'[f] = dsCall[f]
BY DEF Replies

LEMMA RepliesAt ==
    ASSUME DOMAIN dsCall = CallFields, NEW v0, Replies([at |-> v0])
    PROVE  /\ DOMAIN dsCall' = CallFields /\ dsCall'.rpc = dsCall.rpc /\ dsCall'.name = dsCall.name
           /\ dsCall'.at = v0 /\ dsCall'.got = dsCall.got /\ dsCall'.todo = dsCall.todo /\ dsCall'.rows = dsCall.rows
           /\ dsCall'.half = dsCall.half /\ dsCall'.mute = dsCall.mute /\ dsCall'.code = dsCall.code
<1> DEFINE lit == [at |-> v0]
<1>1. DOMAIN lit = {"at"} /\ lit.at = v0
  OBVIOUS
<1> HIDE DEF lit
<1>2. Replies(lit)
  BY DEF lit
<1> QED
  BY <1>1, <1>2, RepliesFields DEF CallFields

LEMMA RepliesRows ==
    ASSUME DOMAIN dsCall = CallFields, NEW v0, NEW v1, Replies([at |-> v0, rows |-> v1])
    PROVE  /\ DOMAIN dsCall' = CallFields /\ dsCall'.rpc = dsCall.rpc /\ dsCall'.name = dsCall.name
           /\ dsCall'.at = v0 /\ dsCall'.got = dsCall.got /\ dsCall'.todo = dsCall.todo /\ dsCall'.rows = v1
           /\ dsCall'.half = dsCall.half /\ dsCall'.mute = dsCall.mute /\ dsCall'.code = dsCall.code
<1> DEFINE lit == [at |-> v0, rows |-> v1]
<1>1. DOMAIN lit = {"at", "rows"} /\ lit.at = v0 /\ lit.rows = v1
  OBVIOUS
<1> HIDE DEF lit
<1>2. Replies(lit)
  BY DEF lit
<1> QED
  BY <1>1, <1>2, RepliesFields DEF CallFields

LEMMA RepliesNames ==
    ASSUME DOMAIN dsCall = CallFields, NEW v0, NEW v1, Replies([at |-> v0, todo |-> v1])
    PROVE  /\ DOMAIN dsCall' = CallFields /\ dsCall'.rpc = dsCall.rpc /\ dsCall'.name = dsCall.name
           /\ dsCall'.at = v0 /\ dsCall'.got = dsCall.got /\ dsCall'.todo = v1 /\ dsCall'.rows = dsCall.rows
           /\ dsCall'.half = dsCall.half /\ dsCall'.mute = dsCall.mute /\ dsCall'.code = dsCall.code
<1> DEFINE lit == [at |-> v0, todo |-> v1]
<1>1. DOMAIN lit = {"at", "todo"} /\ lit.at = v0 /\ lit.todo = v1
  OBVIOUS
<1> HIDE DEF lit
<1>2. Replies(lit)
  BY DEF lit
<1> QED
  BY <1>1, <1>2, RepliesFields DEF CallFields

LEMMA RepliesGot ==
    ASSUME DOMAIN dsCall = CallFields, NEW v0, NEW v1, Replies([todo |-> v0, got |-> v1])
    PROVE  /\ DOMAIN dsCall' = CallFields /\ dsCall'.rpc = dsCall.rpc /\ dsCall'.name = dsCall.name
           /\ dsCall'.at = dsCall.at /\ dsCall'.got = v1 /\ dsCall'.todo = v0 /\ dsCall'.rows = dsCall.rows
           /\ dsCall'.half = dsCall.half /\ dsCall'.mute = dsCall.mute /\ dsCall'.code = dsCall.code
<1> DEFINE lit == [todo |-> v0, got |-> v1]
<1>1. DOMAIN lit = {"todo", "got"} /\ lit.todo = v0 /\ lit.got = v1
  OBVIOUS
<1> HIDE DEF lit
<1>2. Replies(lit)
  BY DEF lit
<1> QED
  BY <1>1, <1>2, RepliesFields DEF CallFields

LEMMA RepliesTodo ==
    ASSUME DOMAIN dsCall = CallFields, NEW v0, Replies([todo |-> v0])
    PROVE  /\ DOMAIN dsCall' = CallFields /\ dsCall'.rpc = dsCall.rpc /\ dsCall'.name = dsCall.name
           /\ dsCall'.at = dsCall.at /\ dsCall'.got = dsCall.got /\ dsCall'.todo = v0 /\ dsCall'.rows = dsCall.rows
           /\ dsCall'.half = dsCall.half /\ dsCall'.mute = dsCall.mute /\ dsCall'.code = dsCall.code
<1> DEFINE lit == [todo |-> v0]
<1>1. DOMAIN lit = {"todo"} /\ lit.todo = v0
  OBVIOUS
<1> HIDE DEF lit
<1>2. Replies(lit)
  BY DEF lit
<1> QED
  BY <1>1, <1>2, RepliesFields DEF CallFields

LEMMA RepliesHalf ==
    ASSUME DOMAIN dsCall = CallFields, NEW v0, Replies([half |-> v0])
    PROVE  /\ DOMAIN dsCall' = CallFields /\ dsCall'.rpc = dsCall.rpc /\ dsCall'.name = dsCall.name
           /\ dsCall'.at = dsCall.at /\ dsCall'.got = dsCall.got /\ dsCall'.todo = dsCall.todo /\ dsCall'.rows = dsCall.rows
           /\ dsCall'.half = v0 /\ dsCall'.mute = dsCall.mute /\ dsCall'.code = dsCall.code
<1> DEFINE lit == [half |-> v0]
<1>1. DOMAIN lit = {"half"} /\ lit.half = v0
  OBVIOUS
<1> HIDE DEF lit
<1>2. Replies(lit)
  BY DEF lit
<1> QED
  BY <1>1, <1>2, RepliesFields DEF CallFields

LEMMA RepliesMute ==
    ASSUME DOMAIN dsCall = CallFields, NEW v0, NEW v1, Replies([todo |-> v0, mute |-> v1])
    PROVE  /\ DOMAIN dsCall' = CallFields /\ dsCall'.rpc = dsCall.rpc /\ dsCall'.name = dsCall.name
           /\ dsCall'.at = dsCall.at /\ dsCall'.got = dsCall.got /\ dsCall'.todo = v0 /\ dsCall'.rows = dsCall.rows
           /\ dsCall'.half = dsCall.half /\ dsCall'.mute = v1 /\ dsCall'.code = dsCall.code
<1> DEFINE lit == [todo |-> v0, mute |-> v1]
<1>1. DOMAIN lit = {"todo", "mute"} /\ lit.todo = v0 /\ lit.mute = v1
  OBVIOUS
<1> HIDE DEF lit
<1>2. Replies(lit)
  BY DEF lit
<1> QED
  BY <1>1, <1>2, RepliesFields DEF CallFields

LEMMA RepliesHealth ==
    ASSUME DOMAIN dsCall = CallFields, NEW v0, NEW v1, NEW v2, Replies([todo |-> v0, half |-> v1, got |-> v2])
    PROVE  /\ DOMAIN dsCall' = CallFields /\ dsCall'.rpc = dsCall.rpc /\ dsCall'.name = dsCall.name
           /\ dsCall'.at = dsCall.at /\ dsCall'.got = v2 /\ dsCall'.todo = v0 /\ dsCall'.rows = dsCall.rows
           /\ dsCall'.half = v1 /\ dsCall'.mute = dsCall.mute /\ dsCall'.code = dsCall.code
<1> DEFINE lit == [todo |-> v0, half |-> v1, got |-> v2]
<1>1. DOMAIN lit = {"todo", "half", "got"} /\ lit.todo = v0 /\ lit.half = v1 /\ lit.got = v2
  OBVIOUS
<1> HIDE DEF lit
<1>2. Replies(lit)
  BY DEF lit
<1> QED
  BY <1>1, <1>2, RepliesFields DEF CallFields

LEMMA RepliesGone ==
    ASSUME DOMAIN dsCall = CallFields, NEW v0, NEW v1, Replies([todo |-> v0, half |-> v1])
    PROVE  /\ DOMAIN dsCall' = CallFields /\ dsCall'.rpc = dsCall.rpc /\ dsCall'.name = dsCall.name
           /\ dsCall'.at = dsCall.at /\ dsCall'.got = dsCall.got /\ dsCall'.todo = v0 /\ dsCall'.rows = dsCall.rows
           /\ dsCall'.half = v1 /\ dsCall'.mute = dsCall.mute /\ dsCall'.code = dsCall.code
<1> DEFINE lit == [todo |-> v0, half |-> v1]
<1>1. DOMAIN lit = {"todo", "half"} /\ lit.todo = v0 /\ lit.half = v1
  OBVIOUS
<1> HIDE DEF lit
<1>2. Replies(lit)
  BY DEF lit
<1> QED
  BY <1>1, <1>2, RepliesFields DEF CallFields

LEMMA RepliesCode ==
    ASSUME DOMAIN dsCall = CallFields, NEW v0, NEW v1, Replies([at |-> v0, code |-> v1])
    PROVE  /\ DOMAIN dsCall' = CallFields /\ dsCall'.rpc = dsCall.rpc /\ dsCall'.name = dsCall.name
           /\ dsCall'.at = v0 /\ dsCall'.got = dsCall.got /\ dsCall'.todo = dsCall.todo /\ dsCall'.rows = dsCall.rows
           /\ dsCall'.half = dsCall.half /\ dsCall'.mute = dsCall.mute /\ dsCall'.code = v1
<1> DEFINE lit == [at |-> v0, code |-> v1]
<1>1. DOMAIN lit = {"at", "code"} /\ lit.at = v0 /\ lit.code = v1
  OBVIOUS
<1> HIDE DEF lit
<1>2. Replies(lit)
  BY DEF lit
<1> QED
  BY <1>1, <1>2, RepliesFields DEF CallFields

\* The rest of a call that fetch_snapshot made, as the handlers answer it.
LEMMA HandlerKeeps ==
    ASSUME HistoryInv, DOMAIN dsCall = CallFields, HandlerStep
    PROVE  /\ DOMAIN dsCall' = CallFields /\ dsCall'.rpc = dsCall.rpc /\ dsCall'.name = dsCall.name
           /\ HistoryInv' /\ dsAlways' \subseteq dsAlways /\ dsSeen \subseteq dsSeen'
<1> DEFINE G == /\ DOMAIN dsCall' = CallFields /\ dsCall'.rpc = dsCall.rpc /\ dsCall'.name = dsCall.name
                /\ HistoryInv' /\ dsAlways' \subseteq dsAlways /\ dsSeen \subseteq dsSeen'
<1>t. UNCHANGED tableVars => HistoryInv' /\ dsAlways' \subseteq dsAlways /\ dsSeen \subseteq dsSeen'
  BY TableStays DEF tableVars
<1>m. ASSUME NEW n, NEW s, SetModule(n, s)
      PROVE  HistoryInv' /\ dsAlways' \subseteq dsAlways /\ dsSeen \subseteq dsSeen'
  <2>1. DOMAIN [dsMods EXCEPT ![n] = s] = Names
    BY DEF HistoryInv
  <2> QED
    BY <1>m, <2>1, TableMoves DEF SetModule
<1>u. UNCHANGED <<dsMods, dsSeen, dsAlways>> => HistoryInv' /\ dsAlways' \subseteq dsAlways /\ dsSeen \subseteq dsSeen'
  BY TableStays
<1>1. CASE HandlesVersion
  BY <1>1, <1>t, RepliesAt DEF HandlesVersion
<1>2. CASE HandlesListModules
  BY <1>2, <1>t, RepliesRows DEF HandlesListModules
<1>3. CASE HandlesLoad
  BY <1>3, <1>m, <1>u, RepliesAt DEF HandlesLoad
<1>4. CASE HandlesUnload
  BY <1>4, <1>m, <1>u, RepliesAt DEF HandlesUnload
<1>5. CASE ListsNames
  BY <1>5, <1>t, RepliesNames DEF ListsNames
<1>6. CASE ListingReturns
  BY <1>6, <1>t, RepliesAt DEF ListingReturns
<1>7. ASSUME NEW n, AsksCommands(n) PROVE G
  BY <1>7, <1>t, RepliesGot, RepliesTodo DEF AsksCommands
<1>8. ASSUME NEW n, AsksStatus(n) PROVE G
  BY <1>8, <1>t, RepliesHalf, RepliesTodo, RepliesMute DEF AsksStatus
<1>9. ASSUME NEW n, AsksHealth(n) PROVE G
  BY <1>9, <1>t, RepliesHealth, RepliesGone DEF AsksHealth
<1>10. CASE HandlesDispatch
  BY <1>10, <1>t, RepliesAt DEF HandlesDispatch
<1>11. CASE DispatchFails
  BY <1>11, <1>t, RepliesAt DEF DispatchFails
<1>12. CASE HandlesTailLogs
  BY <1>12, <1>t, RepliesAt DEF HandlesTailLogs
<1>13. CASE HandlesUpdate
  BY <1>13, <1>t, RepliesAt, RepliesCode DEF HandlesUpdate
<1>14. ASSUME NEW c, DispatchReturns(c) PROVE G
  BY <1>14, <1>t, RepliesCode DEF DispatchReturns
<1> QED
  BY <1>1, <1>2, <1>3, <1>4, <1>5, <1>6, <1>7, <1>8, <1>9, <1>10, <1>11, <1>12, <1>13, <1>14
     DEF HandlerStep

LEMMA ListedIsTrue ==
    ASSUME HistoryInv
    PROVE  RowsTrue(Listed, dsAlways, dsSeen) /\ DOMAIN Listed = Builtin \cup Loaded
<1>1. DOMAIN Listed = Builtin \cup Loaded /\ \A n \in Builtin \cup Loaded : Listed[n] = dsMods[n]
  BY DEF Listed
<1>2. Loaded = {n \in Names : dsMods[n] # "disabled"} /\ Builtin \subseteq Names
  BY DEF Loaded, Names
<1> QED
  BY <1>1, <1>2 DEF HistoryInv, RowsTrue

LEMMA ModulesAnswered ==
    ASSUME HistoryInv, DOMAIN dsCall = CallFields, HandlerStep, ModulesCall(dsCall, dsAlways, dsSeen)
    PROVE  ModulesCall(dsCall', dsAlways', dsSeen')
<1>1. dsCall.rpc = "modules" /\ dsCall.at \in {"sent", "done", "failed"}
  BY DEF ModulesCall
<1>2. HandlesListModules
  BY <1>1 DEF HandlerStep, Sent, HandlesVersion, HandlesLoad, HandlesUnload, ListsNames, ListingReturns,
        AsksCommands, AsksStatus, AsksHealth, HandlesDispatch, DispatchFails, HandlesTailLogs,
        HandlesUpdate, DispatchReturns
<1>3. dsAlways' = dsAlways /\ dsSeen' = dsSeen
  BY <1>2 DEF HandlesListModules, tableVars
<1>4. dsCall'.rpc = "modules" /\ dsCall'.at = "done" /\ dsCall'.rows = Listed
  BY <1>1, <1>2, RepliesRows DEF HandlesListModules
<1> QED
  BY <1>3, <1>4, ListedIsTrue DEF ModulesCall

LEMMA StatusAnswered ==
    ASSUME HistoryInv, DOMAIN dsCall = CallFields, HandlerStep, StatusCall(dsCall, dsSeen)
    PROVE  StatusCall(dsCall', dsSeen')
<1>1. dsCall.rpc = "status" /\ dsCall.at \in {"sent", "each", "done", "failed"} /\ dsCall.got \subseteq dsSeen
  BY DEF StatusCall
<1>2. \/ ListsNames \/ ListingReturns
      \/ \E n : AsksStatus(n) \/ AsksHealth(n)
  BY <1>1 DEF HandlerStep, Sent, HandlesVersion, HandlesListModules, HandlesLoad, HandlesUnload,
        AsksCommands, HandlesDispatch, DispatchFails, HandlesTailLogs, HandlesUpdate, DispatchReturns
<1>3. dsCall'.rpc = "status" /\ dsSeen' = dsSeen
  BY <1>1, <1>2, HandlerKeeps DEF ListsNames, ListingReturns, AsksStatus, AsksHealth, tableVars
<1>4. CASE ListsNames
  <2>1. dsCall'.at = "each" /\ dsCall'.got = dsCall.got
    BY <1>4, RepliesNames DEF ListsNames
  <2> QED
    BY <1>1, <1>3, <2>1 DEF StatusCall
<1>5. CASE ListingReturns
  <2>1. dsCall'.at \in {"failed", "done"} /\ dsCall'.got = dsCall.got
    BY <1>5, RepliesAt DEF ListingReturns
  <2> QED
    BY <1>1, <1>3, <2>1 DEF StatusCall
<1>6. ASSUME NEW n, AsksStatus(n) PROVE StatusCall(dsCall', dsSeen')
  <2>1. dsCall'.at = dsCall.at /\ dsCall'.got = dsCall.got
    BY <1>6, RepliesHalf, RepliesTodo, RepliesMute DEF AsksStatus
  <2> QED
    BY <1>1, <1>3, <2>1 DEF StatusCall
<1>7. ASSUME NEW n, AsksHealth(n) PROVE StatusCall(dsCall', dsSeen')
  <2>1. dsCall'.at = dsCall.at
    BY <1>7, RepliesHealth, RepliesGone DEF AsksHealth
  <2>2. dsCall'.got = dsCall.got \/ (n \in Loaded /\ dsCall'.got = dsCall.got \cup {n})
    BY <1>7, RepliesHealth, RepliesGone DEF AsksHealth
  <2> QED
    BY <1>1, <1>3, <2>1, <2>2 DEF StatusCall, HistoryInv
<1> QED
  BY <1>2, <1>4, <1>5, <1>6, <1>7

LEMMA CommandsAnswered ==
    ASSUME HistoryInv, DOMAIN dsCall = CallFields, HandlerStep, CommandsCall(dsCall, dsAlways, dsSeen)
    PROVE  CommandsCall(dsCall', dsAlways', dsSeen')
<1>1. /\ dsCall.rpc = "commands" /\ dsCall.at \in {"sent", "each", "done", "failed"}
      /\ dsCall.name = AllModules /\ dsCall.got \subseteq dsSeen
      /\ dsCall.at = "each" => dsAlways \subseteq dsCall.got \cup dsCall.todo
  BY DEF CommandsCall
<1>2. ListsNames \/ ListingReturns \/ \E n : AsksCommands(n)
  BY <1>1 DEF HandlerStep, Sent, HandlesVersion, HandlesListModules, HandlesLoad, HandlesUnload,
        AsksStatus, AsksHealth, HandlesDispatch, DispatchFails, HandlesTailLogs, HandlesUpdate, DispatchReturns
<1>3. dsCall'.rpc = "commands" /\ dsCall'.name = AllModules /\ dsSeen' = dsSeen /\ dsAlways' = dsAlways
  BY <1>1, <1>2, HandlerKeeps DEF ListsNames, ListingReturns, AsksCommands, tableVars
<1>4. CASE ListsNames
  <2>1. dsCall'.at = "each" /\ dsCall'.got = dsCall.got /\ dsCall'.todo = DOMAIN Listed
    BY <1>1, <1>4, RepliesNames DEF ListsNames
  <2>2. dsAlways \subseteq DOMAIN Listed
    BY ListedIsTrue DEF HistoryInv
  <2> QED
    BY <1>1, <1>3, <2>1, <2>2 DEF CommandsCall
<1>5. CASE ListingReturns
  <2>1. dsCall'.at = "done" /\ dsCall'.got = dsCall.got /\ dsCall.at = "each" /\ dsCall.todo = {}
    BY <1>1, <1>5, RepliesAt DEF ListingReturns
  <2> QED
    BY <1>1, <1>3, <2>1 DEF CommandsCall
<1>6. ASSUME NEW n, AsksCommands(n) PROVE CommandsCall(dsCall', dsAlways', dsSeen')
  <2>1. CASE n \in Loaded
    <3>1. /\ dsCall.at = "each" /\ dsCall'.at = "each"
          /\ dsCall'.got = dsCall.got \cup {n} /\ dsCall'.todo = dsCall.todo \ {n}
      BY <1>6, <2>1, RepliesGot DEF AsksCommands
    <3> QED
      BY <1>1, <1>3, <2>1, <3>1 DEF CommandsCall, HistoryInv
  <2>2. CASE n \notin Loaded
    <3>1. /\ dsCall.at = "each" /\ dsCall'.at = "each"
          /\ dsCall'.got = dsCall.got /\ dsCall'.todo = dsCall.todo \ {n}
      BY <1>6, <2>2, RepliesTodo DEF AsksCommands, Skipped
    <3> QED
      BY <1>1, <1>3, <2>2, <3>1 DEF CommandsCall, HistoryInv
  <2> QED
    BY <2>1, <2>2
<1> QED
  BY <1>2, <1>4, <1>5, <1>6

LEMMA ServiceStep ==
    ASSUME SnapshotInv, ServiceApiStep, UNCHANGED trayMenuVars
    PROVE  SnapshotInv'
<1>0. /\ HistoryInv /\ CallInv(tmAt, dsCall, dsAlways, dsSeen) /\ JoinInv(tmAt, tmJoin, dsAlways, dsSeen)
      /\ ShownTrue(tmAt, tmMenu, dsAlways, dsSeen) /\ DOMAIN dsCall = CallFields
      /\ tmAt' = tmAt /\ tmJoin' = tmJoin /\ tmMenu' = tmMenu
  BY DEF SnapshotInv, CallInv, trayMenuVars
<1>1. SUFFICES /\ HistoryInv' /\ dsAlways' \subseteq dsAlways /\ dsSeen \subseteq dsSeen'
               /\ CallInv(tmAt, dsCall', dsAlways', dsSeen')
  BY <1>0, SaidEarlier DEF SnapshotInv
<1>2. CASE HandlerStep
  <2>1. /\ HistoryInv' /\ dsAlways' \subseteq dsAlways /\ dsSeen \subseteq dsSeen'
        /\ DOMAIN dsCall' = CallFields
    BY <1>0, <1>2, HandlerKeeps
  <2>2. /\ tmAt = "modules" => ModulesCall(dsCall', dsAlways', dsSeen')
        /\ tmAt = "status" => StatusCall(dsCall', dsSeen')
        /\ tmAt = "commands" => CommandsCall(dsCall', dsAlways', dsSeen')
    BY <1>0, <1>2, ModulesAnswered, StatusAnswered, CommandsAnswered DEF CallInv
  <2> QED
    BY <2>1, <2>2 DEF CallInv
<1>3. CASE DaemonStops
  <2>1. /\ HistoryInv' /\ dsAlways' \subseteq dsAlways /\ dsSeen \subseteq dsSeen'
    BY <1>0, <1>3, TableMoves DEF DaemonStops
  <2>2. CASE dsCall.at = "none"
    <3>1. dsCall' = NoRpc /\ tmAt \notin {"modules", "status", "commands"}
      BY <1>0, <1>3, <2>2 DEF DaemonStops, CallInv, ModulesCall, StatusCall, CommandsCall
    <3> QED
      BY <2>1, <3>1, NoRpcFields DEF CallInv
  <2>3. CASE dsCall.at # "none"
    <3>1. /\ DOMAIN dsCall' = CallFields /\ dsCall'.at = "failed" /\ dsCall'.rpc = dsCall.rpc
          /\ dsCall'.name = dsCall.name /\ dsCall'.got = dsCall.got
      BY <1>0, <1>3, <2>3 DEF DaemonStops, CallFields
    <3> QED
      BY <1>0, <2>1, <3>1 DEF CallInv, ModulesCall, StatusCall, CommandsCall
  <2> QED
    BY <2>2, <2>3
<1>4. CASE \/ \E n \in Names, s \in {"disabled", "running"} : OthersChange(n, s)
           \/ \E enabled \in {{}, Builtin} : DaemonStarts(enabled)
  <2>1. PICK mods : DOMAIN mods = Names /\ TableBecomes(mods) /\ dsCall' = dsCall
    BY <1>0, <1>4 DEF OthersChange, DaemonStarts, SetModule, HistoryInv
  <2>2. /\ HistoryInv' /\ dsAlways' \subseteq dsAlways /\ dsSeen \subseteq dsSeen'
    BY <1>0, <2>1, TableMoves
  <2> QED
    BY <1>0, <2>1, <2>2, SaidEarlier
<1> QED
  BY <1>2, <1>3, <1>4 DEF ServiceApiStep

\* A step of the loop that leaves the history alone.
LEMMA LoopKeepsHistory ==
    ASSUME SnapshotInv, dsMods' = dsMods, dsSeen' = dsSeen, dsAlways' = dsAlways,
           CallInv(tmAt', dsCall', dsAlways, dsSeen), JoinInv(tmAt', tmJoin', dsAlways, dsSeen),
           ShownTrue(tmAt', tmMenu', dsAlways, dsSeen)
    PROVE  SnapshotInv'
BY TableStays DEF SnapshotInv

LEMMA WatchedIsKept ==
    ASSUME HistoryInv, Watched
    PROVE  HistoryInv'
BY DEF HistoryInv, Watched, Loaded

LEMMA JoinedNothing == DOMAIN NothingJoined = JoinFields
BY DEF NothingJoined, JoinFields

\* A place of the loop where no answer has been promised.
Elsewhere0 == {"connect", "idle", "act", "gone"}

LEMMA Quiet ==
    ASSUME NEW p \in Elsewhere0, NEW c, NEW j, NEW m, NEW always, NEW seen,
           DOMAIN c = CallFields, DOMAIN j = JoinFields
    PROVE  CallInv(p, c, always, seen) /\ JoinInv(p, j, always, seen) /\ ShownTrue(p, m, always, seen)
BY DEF Elsewhere0, CallInv, JoinInv, ShownTrue

LEMMA SnapshotGoesOnStep ==
    ASSUME SnapshotInv, SnapshotGoesOn
    PROVE  SnapshotInv'
<1>1. /\ CallInv(tmAt, dsCall, dsAlways, dsSeen) /\ JoinInv(tmAt, tmJoin, dsAlways, dsSeen)
      /\ DOMAIN tmJoin = JoinFields /\ dsCall.at = "done"
      /\ dsMods' = dsMods /\ dsSeen' = dsSeen /\ dsAlways' = dsAlways /\ tmMenu' = tmMenu
  BY DEF SnapshotInv, JoinInv, SnapshotGoesOn, Answered, tableVars
<1>2. CASE /\ tmAt = "modules" /\ tmAt' = "status" /\ tmJoin' = [tmJoin EXCEPT !.rows = dsCall.rows]
           /\ Request("status", AllModules)
  <2>1. DOMAIN tmJoin' = JoinFields /\ tmJoin'.rows = dsCall.rows
    BY <1>1, <1>2 DEF JoinFields
  <2>2. RowsTrue(dsCall.rows, dsAlways, dsSeen)
    BY <1>1, <1>2 DEF CallInv, ModulesCall
  <2>3. /\ DOMAIN dsCall' = CallFields /\ dsCall'.rpc = "status" /\ dsCall'.at \in {"sent", "failed"} /\ dsCall'.got = {}
    BY <1>2, RequestFields
  <2>4. CallInv("status", dsCall', dsAlways, dsSeen)
    BY <2>3 DEF CallInv, StatusCall
  <2>5. JoinInv("status", tmJoin', dsAlways, dsSeen) /\ ShownTrue("status", tmMenu', dsAlways, dsSeen)
    BY <2>1, <2>2 DEF JoinInv, ShownTrue
  <2> QED
    BY <1>1, <1>2, <2>4, <2>5, LoopKeepsHistory
<1>3. CASE /\ tmAt = "status" /\ tmAt' = "commands" /\ tmJoin' = [tmJoin EXCEPT !.health = dsCall.got]
           /\ Request("commands", AllModules)
  <2>1. DOMAIN tmJoin' = JoinFields /\ tmJoin'.rows = tmJoin.rows /\ tmJoin'.health = dsCall.got
    BY <1>1, <1>3 DEF JoinFields
  <2>2. RowsTrue(tmJoin.rows, dsAlways, dsSeen) /\ dsCall.got \subseteq dsSeen
    BY <1>1, <1>3 DEF CallInv, StatusCall, JoinInv
  <2>3. /\ DOMAIN dsCall' = CallFields /\ dsCall'.rpc = "commands" /\ dsCall'.name = AllModules
        /\ dsCall'.at \in {"sent", "failed"} /\ dsCall'.got = {}
    BY <1>3, RequestFields
  <2>4. CallInv("commands", dsCall', dsAlways, dsSeen)
    BY <2>3 DEF CallInv, CommandsCall
  <2>5. JoinInv("commands", tmJoin', dsAlways, dsSeen) /\ ShownTrue("commands", tmMenu', dsAlways, dsSeen)
    BY <2>1, <2>2 DEF JoinInv, ShownTrue
  <2> QED
    BY <1>1, <1>3, <2>4, <2>5, LoopKeepsHistory
<1>4. CASE tmAt = "commands" /\ tmAt' = "joined" /\ tmJoin' = [tmJoin EXCEPT !.commands = dsCall.got] /\ HangUp
  <2>1. /\ DOMAIN tmJoin' = JoinFields /\ tmJoin'.rows = tmJoin.rows /\ tmJoin'.health = tmJoin.health
        /\ tmJoin'.commands = dsCall.got
    BY <1>1, <1>4 DEF JoinFields
  <2>2. /\ RowsTrue(tmJoin.rows, dsAlways, dsSeen) /\ tmJoin.health \subseteq dsSeen
        /\ dsCall.got \subseteq dsSeen /\ dsAlways \subseteq dsCall.got
    BY <1>1, <1>4 DEF CallInv, CommandsCall, JoinInv
  <2>3. CallInv("joined", dsCall', dsAlways, dsSeen)
    BY <1>4, NoRpcFields DEF HangUp, CallInv
  <2>4. JoinInv("joined", tmJoin', dsAlways, dsSeen) /\ ShownTrue("joined", tmMenu', dsAlways, dsSeen)
    BY <2>1, <2>2 DEF JoinInv, ShownTrue
  <2> QED
    BY <1>1, <1>4, <2>3, <2>4, LoopKeepsHistory
<1> QED
  BY <1>2, <1>3, <1>4 DEF SnapshotGoesOn

LEMMA MenuBuiltStep ==
    ASSUME SnapshotInv, MenuBuilt
    PROVE  SnapshotInv'
<1>1. /\ dsMods' = dsMods /\ dsSeen' = dsSeen /\ dsAlways' = dsAlways /\ dsCall' = dsCall
      /\ tmAt = "joined" /\ tmAt' = "send" /\ tmJoin' = NothingJoined
  BY DEF MenuBuilt, serviceApiVars
<1>2. /\ RowsTrue(tmJoin.rows, dsAlways, dsSeen) /\ tmJoin.health \subseteq dsSeen
      /\ tmJoin.commands \subseteq dsSeen /\ dsAlways \subseteq tmJoin.commands
      /\ DOMAIN dsCall = CallFields
  BY <1>1 DEF SnapshotInv, CallInv, JoinInv
<1>3. tmMenu'.rows = {JoinedRow(n) : n \in DOMAIN tmJoin.rows}
  BY DEF MenuBuilt
<1>4. \A n : /\ JoinedRow(n).name = n /\ (JoinedRow(n).loaded <=> tmJoin.rows[n] # "disabled")
             /\ (JoinedRow(n).health <=> n \in tmJoin.health)
             /\ (JoinedRow(n).commands <=> n \in tmJoin.commands /\ n \notin Silent)
  BY DEF JoinedRow, CommandsOf
<1>5. ASSUME NEW n \in dsAlways
      PROVE  \E r \in tmMenu'.rows : r.name = n /\ r.loaded /\ (n \notin Silent => r.commands)
  <2>1. n \in DOMAIN tmJoin.rows /\ tmJoin.rows[n] # "disabled" /\ n \in tmJoin.commands
    BY <1>2 DEF RowsTrue
  <2> QED
    BY <1>3, <1>4, <2>1
<1>6. ASSUME NEW r \in tmMenu'.rows, r.name \notin dsSeen
      PROVE  ~r.loaded /\ ~r.health /\ ~r.commands
  <2>1. PICK n \in DOMAIN tmJoin.rows : r = JoinedRow(n)
    BY <1>3
  <2>2. n \notin dsSeen
    BY <1>4, <1>6, <2>1
  <2>3. tmJoin.rows[n] = "disabled" /\ n \notin tmJoin.health /\ n \notin tmJoin.commands
    BY <1>2, <2>1, <2>2 DEF RowsTrue
  <2> QED
    BY <1>4, <2>1, <2>3
<1>7. ShownTrue("send", tmMenu', dsAlways, dsSeen)
  BY <1>5, <1>6 DEF ShownTrue
<1>8. CallInv("send", dsCall, dsAlways, dsSeen) /\ JoinInv("send", NothingJoined, dsAlways, dsSeen)
  BY <1>2, JoinedNothing DEF CallInv, JoinInv
<1> QED
  BY <1>1, <1>7, <1>8, LoopKeepsHistory

LEMMA OtherLoopSteps ==
    ASSUME SnapshotInv, Connects \/ Render \/ UnreachableBuilt \/ MenuSent \/ ActionTaken \/ ActionEnds,
           tmCount.renders \in Nat
    PROVE  SnapshotInv'
<1>0. HistoryInv /\ DOMAIN dsCall = CallFields /\ DOMAIN tmJoin = JoinFields
  BY DEF SnapshotInv, CallInv, JoinInv
<1>1. CASE Connects
  <2>1. /\ dsMods' = dsMods /\ dsSeen' = dsSeen /\ dsAlways' = dsAlways /\ dsCall' = dsCall
        /\ tmAt' \in Elsewhere0 /\ tmJoin' = tmJoin
    BY <1>1 DEF Connects, serviceApiVars, Elsewhere0
  <2> QED
    BY <1>0, <2>1, Quiet, LoopKeepsHistory
<1>2. CASE Render
  <2>1. HistoryInv' /\ tmAt' = "modules" /\ tmJoin' = NothingJoined
    BY <1>0, <1>2, WatchedIsKept DEF Render
  <2>2. /\ DOMAIN dsCall' = CallFields /\ dsCall'.rpc = "modules" /\ dsCall'.at \in {"sent", "failed"}
    BY <1>2, RequestFields DEF Render
  <2>3. CallInv("modules", dsCall', dsAlways', dsSeen')
    BY <2>2 DEF CallInv, ModulesCall
  <2>4. JoinInv("modules", tmJoin', dsAlways', dsSeen') /\ ShownTrue("modules", tmMenu', dsAlways', dsSeen')
    BY <2>1, JoinedNothing DEF JoinInv, ShownTrue
  <2> QED
    BY <2>1, <2>3, <2>4 DEF SnapshotInv
<1>3. CASE UnreachableBuilt
  <2>1. /\ dsMods' = dsMods /\ dsSeen' = dsSeen /\ dsAlways' = dsAlways /\ dsCall' = NoRpc
        /\ tmAt' = "send" /\ tmJoin' = NothingJoined
    BY <1>3 DEF UnreachableBuilt, tableVars, HangUp
  <2>2. tmMenu'.kind = "unreachable"
    BY <1>3, NoMenuFields DEF UnreachableBuilt
  <2>3. CallInv("send", NoRpc, dsAlways, dsSeen) /\ JoinInv("send", NothingJoined, dsAlways, dsSeen)
    BY NoRpcFields, JoinedNothing DEF CallInv, JoinInv
  <2>4. ShownTrue("send", tmMenu', dsAlways, dsSeen)
    BY <2>2 DEF ShownTrue
  <2> QED
    BY <2>1, <2>3, <2>4, LoopKeepsHistory
<1>4. CASE MenuSent
  <2>1. HistoryInv' /\ tmAt' \in Elsewhere0 /\ tmJoin' = tmJoin /\ dsCall' = dsCall
    BY <1>0, <1>4, WatchedIsKept DEF MenuSent, Elsewhere0
  <2> QED
    BY <1>0, <2>1, Quiet DEF SnapshotInv
<1>5. CASE ActionTaken
  <2>1. /\ dsMods' = dsMods /\ dsSeen' = dsSeen /\ dsAlways' = dsAlways /\ tmJoin' = tmJoin
    BY <1>5 DEF ActionTaken, tableVars
  <2>2. tmAt' \in Elsewhere0
    BY <1>5 DEF ActionTaken, ActionStep, Elsewhere0
  <2>3. DOMAIN dsCall' = CallFields
    BY <1>0, <1>5, RequestFields DEF ActionTaken
  <2> QED
    BY <1>0, <2>1, <2>2, <2>3, Quiet, LoopKeepsHistory
<1>6. CASE ActionEnds
  <2>1. /\ dsMods' = dsMods /\ dsSeen' = dsSeen /\ dsAlways' = dsAlways /\ tmJoin' = tmJoin
        /\ tmAt' \in Elsewhere0 /\ dsCall' = NoRpc
    BY <1>6 DEF ActionEnds, tableVars, HangUp, Elsewhere0
  <2> QED
    BY <1>0, <2>1, Quiet, LoopKeepsHistory, NoRpcFields
<1> QED
  BY <1>1, <1>2, <1>3, <1>4, <1>5, <1>6

LEMMA ShellKeepsSnapshot ==
    ASSUME SnapshotInv, MenuArrives \/ ClickArrives \/ \E item \in Items(tmShown) : UserClicks(item)
    PROVE  SnapshotInv'
<1>1. /\ dsMods' = dsMods /\ dsSeen' = dsSeen /\ dsAlways' = dsAlways /\ dsCall' = dsCall
      /\ tmJoin' = tmJoin /\ tmMenu' = tmMenu
  BY DEF MenuArrives, ClickArrives, UserClicks, serviceApiVars
<1>2. tmAt' \in {tmAt, "gone"}
  BY DEF MenuArrives, ClickArrives, UserClicks
<1>3. DOMAIN dsCall = CallFields /\ DOMAIN tmJoin = JoinFields
  BY DEF SnapshotInv, CallInv, JoinInv
<1>4. CASE tmAt' = tmAt
  BY <1>1, <1>4, LoopKeepsHistory DEF SnapshotInv
<1>5. CASE tmAt' = "gone"
  BY <1>1, <1>3, <1>5, Quiet, LoopKeepsHistory DEF Elsewhere0
<1> QED
  BY <1>2, <1>4, <1>5

LEMMA SnapshotStep ==
    ASSUME ShellInv, SnapshotInv, TrayMenuNext \/ UNCHANGED menuPart
    PROVE  SnapshotInv'
<1>1. tmCount.renders \in Nat
  BY DEF ShellInv
<1>2. CASE UNCHANGED menuPart
  <2>1. /\ dsMods' = dsMods /\ dsSeen' = dsSeen /\ dsAlways' = dsAlways /\ dsCall' = dsCall
        /\ tmJoin' = tmJoin /\ tmMenu' = tmMenu /\ tmAt' = tmAt
    BY <1>2 DEF menuPart, serviceApiVars, trayMenuVars
  <2> QED
    BY <2>1, LoopKeepsHistory DEF SnapshotInv
<1> QED
  BY <1>1, <1>2, SnapshotGoesOnStep, MenuBuiltStep, OtherLoopSteps, ShellKeepsSnapshot, ServiceStep
     DEF TrayMenuNext, TrayLoopStep

\* The behaviours in which the tray's menu is exercised, and the others.
MenuInv == IF part = "menu" THEN ShellInv /\ SnapshotInv ELSE TrayMenuInit

LEMMA MenuStart ==
    ASSUME MCInit
    PROVE  MenuInv
<1>1. TrayMenuInit /\ ServiceApiInit
  BY DEF MCInit
<1>2. /\ tmShell \in {"linux", "native"} /\ tmAt = "connect" /\ tmJoin = NothingJoined /\ tmMenu = NoMenu
      /\ tmChannel = <<>> /\ tmShown = NoMenu /\ tmIds = NoMenu /\ tmActions = <<>>
      /\ tmCount = [renders |-> 0, clicks |-> 0]
  BY <1>1 DEF TrayMenuInit
<1>3. NoMenu.gen = 0
  BY DEF NoMenu
<1>4. MenusInv
  BY <1>2, <1>3, NoMenuFields DEF MenusInv, Rendering
<1>5. ChannelInv /\ SaidIsDone(tmActions)
  BY <1>2, EmptySequence DEF ChannelInv, SaidIsDone, NewerMenus
<1>6. ShellInv
  BY <1>2, <1>4, <1>5 DEF ShellInv, TrayPlaces
<1>7. HistoryInv /\ dsCall = NoRpc
  BY <1>1 DEF ServiceApiInit, HistoryInv
<1>8. SnapshotInv
  BY <1>2, <1>7, NoRpcFields, JoinedNothing, Quiet DEF SnapshotInv, Elsewhere0
<1> QED
  BY <1>1, <1>6, <1>8 DEF MenuInv

LEMMA MenuStep ==
    ASSUME MenuInv, [MCNext]_MCVars
    PROVE  MenuInv'
<1>1. part' = part
  BY DEF MCNext, MCVars
<1>2. CASE part = "menu"
  <2>1. ShellInv /\ SnapshotInv
    BY <1>2 DEF MenuInv
  <2>2. TrayMenuNext \/ UNCHANGED menuPart
    BY <1>2 DEF MCNext, MCVars
  <2>3. TrayMenuNext \/ UNCHANGED trayMenuVars
    BY <2>2 DEF menuPart
  <2>4. ShellInv' /\ SnapshotInv'
    BY <2>1, <2>2, <2>3, ShellStep, SnapshotStep
  <2> QED
    BY <1>1, <1>2, <2>4 DEF MenuInv
<1>3. CASE part # "menu"
  <2>1. TrayMenuInit /\ UNCHANGED trayMenuVars
    BY <1>3 DEF MenuInv, MCNext, MCVars, menuPart
  <2>2. TrayMenuInit'
    BY <2>1 DEF TrayMenuInit, trayMenuVars
  <2> QED
    BY <1>1, <1>3, <2>2 DEF MenuInv
<1> QED
  BY <1>2, <1>3

LEMMA MenuInvTells ==
    ASSUME MenuInv
    PROVE  MenuIsTrue
<1>1. CASE part = "menu"
  <2>1. TrayMenuTypeOK
    BY <1>1 DEF MenuInv, ShellInv, MenusInv, SaidIsDone, TrayMenuTypeOK, TrayPlaces, Rendering
  <2>2. MenuIsSnapshot
    BY <1>1 DEF MenuInv, SnapshotInv, ShownTrue, MenuIsSnapshot
  <2> QED
    BY <2>1, <2>2 DEF MenuIsTrue
<1>2. CASE part # "menu"
  <2>1. tmAt = "connect" /\ tmShown = NoMenu /\ tmIds = NoMenu /\ tmActions = <<>>
    BY <1>2 DEF MenuInv, TrayMenuInit
  <2> QED
    BY <2>1 DEF MenuIsTrue, TrayMenuTypeOK, MenuIsSnapshot
<1> QED
  BY <1>1, <1>2

\* The tray (snapshot.rs, penguin-tray-model, tray_native.rs, daemon_loop.rs), for any
\* modules and any number of renders, clicks and changes of the table: a click does
\* what its item said even when the menu was replaced on its way, and a menu made
\* from three answers offers to unload, with its commands, what was loaded all along,
\* and only to load what never was.
THEOREM MenuTrue == MCSpec => []MenuIsTrue
<1>1. MCInit => MenuInv
  BY MenuStart
<1>2. MenuInv /\ [MCNext]_MCVars => MenuInv'
  BY MenuStep
<1>3. MenuInv => MenuIsTrue
  BY MenuInvTells
<1> QED
  BY <1>1, <1>2, <1>3, PTL DEF MCSpec

-----------------------------------------------------------------------------
(* The command line: the verbs *)

CliFields == {"at", "verb", "name", "yes", "client", "tree", "found", "shown", "mute", "code", "exit", "asked"}

CliShape(c) ==
    /\ DOMAIN c = CliFields
    /\ c.exit \in 0..255 /\ c.code \in Int /\ c.tree \subseteq Names /\ c.shown \subseteq Names
    /\ c.at \in {"idle", "dial", "discover", "parse", "call", "stream", "confirm", "apply", "done"}
    /\ c.at = "apply" => c.yes \/ c.asked
    /\ c.at \in {"dial", "discover"} => c.found = FALSE
    /\ c.at \in {"confirm", "apply"} => c.verb = "update"

TableInv == HistoryInv /\ dsSeen \subseteq Names

\* What the answer to each verb says of the time since the command began.
ListCall(r, always) ==
    /\ r.rpc = "modules" /\ r.at \in {"sent", "done", "failed"}
    /\ r.at = "done" => always \cup Builtin \subseteq DOMAIN r.rows /\ DOMAIN r.rows \subseteq Names
LoadCall(r, seen) ==
    r.rpc = "load" /\ r.at \in {"sent", "done", "failed"} /\ (r.at = "done" => r.name \in seen)
UnloadCall(r, always) ==
    r.rpc = "unload" /\ r.at \in {"sent", "done", "failed"} /\ (r.at = "done" => r.name \notin always)
StateCall(r, always, seen) ==
    /\ StatusCall(r, seen)
    /\ r.at = "sent" => r.got = {} /\ r.half = Ghost
    /\ r.at = "each" => r.half = Ghost \/ r.half \in r.todo
    /\ r.at = "done" => r.half = Ghost
    /\ IF r.name = AllModules
       THEN /\ r.at = "each" => always \subseteq r.got \cup r.mute \cup r.todo
            /\ r.at = "done" => always \subseteq r.got \cup r.mute
       ELSE /\ r.at = "each" => r.todo \subseteq {r.name} /\ r.got \subseteq {r.name}
            /\ r.at = "done" => r.name \in seen
DispatchCall(r, ran) ==
    /\ r.rpc = "dispatch" /\ r.at \in {"sent", "running", "done", "failed"} /\ r.code \in Int
    /\ ran = IF r.at = "sent" THEN 0 ELSE IF r.at = "failed" THEN ran ELSE 1
OtherCall(r) == r.rpc \in {"version", "logs", "check", "apply"} /\ r.at \in {"sent", "done", "failed"}

VerbCall(v, r, always, seen, ran) ==
    /\ v = "modules" => ListCall(r, always)
    /\ v = "load" => LoadCall(r, seen)
    /\ v = "unload" => UnloadCall(r, always)
    /\ v = "status" => StateCall(r, always, seen)
    /\ v = "dispatch" => DispatchCall(r, ran)
    /\ v \notin {"modules", "load", "unload", "status", "dispatch"} => OtherCall(r)

\* The call that an invocation has under way, place by place.
CliCall(c, r, always, seen, ran) ==
    /\ DOMAIN r = CallFields
    /\ c.at \in {"idle", "dial", "parse", "confirm", "done"} => r.at = "none"
    /\ c.at \in {"dial", "discover", "parse"} => ran = 0
    /\ c.at = "discover" => CommandsCall(r, always, seen)
    /\ c.at = "call" => r.name = c.name /\ VerbCall(c.verb, r, always, seen, ran)
    /\ c.at = "stream" => c.verb = "dispatch" /\ r.rpc = "dispatch" /\ r.at \in {"done", "failed"} /\ ran = 1
    /\ c.at = "apply" => OtherCall(r)

\* The command tree, and what an exit code of 0 said.
TreeTrue(c, always, seen) ==
    c.at = "parse" /\ c.found => (always \ Silent) \ StaticVerbs \subseteq c.tree /\ c.tree \subseteq seen
OutcomeTrue(c, always, seen, ran) ==
    c.at = "done" /\ c.exit = 0 =>
        /\ c.verb = "load" => c.name \in seen
        /\ c.verb = "unload" => c.name \notin always
        /\ c.verb = "status" /\ c.name # AllModules => c.name \in seen
        /\ c.verb = "status" /\ c.name = AllModules => always \subseteq c.shown \cup c.mute /\ c.shown \subseteq seen
        /\ c.verb = "modules" => always \cup Builtin \subseteq c.shown
        /\ c.verb = "dispatch" => ran = 1 /\ c.code <= 0

VerbInv ==
    /\ CliShape(cl) /\ CliCall(cl, dsCall, dsAlways, dsSeen, dsRan)
    /\ TreeTrue(cl, dsAlways, dsSeen) /\ OutcomeTrue(cl, dsAlways, dsSeen, dsRan)

\* Until there is an invocation there is nothing to say of it.
CliInv == TableInv /\ IF part = "cli" THEN VerbInv ELSE cl = NotRun

-----------------------------------------------------------------------------
(* The command line: its words *)

FlagWords == {"--socket", "-socket", "="}
NoFlag(w, k) == \A j \in 1..k : w[j] \notin FlagWords
OneFlag(w, f, k) == w[f] \in FlagWords /\ \A j \in 1..k : j # f => w[j] \notin FlagWords
ValueAt(w, f) == IF w[f] = "=" THEN "b" ELSE w[f + 1]

\* What the scan has found among the first k words, if they name the socket once at most.
ScanTrue(w, k, dialled) ==
    /\ NoFlag(w, k) => dialled = Nowhere
    /\ \A f \in 1..k : OneFlag(w, f, k) /\ (w[f] = "=" \/ f < Len(w)) => dialled = ValueAt(w, f)

\* What clap has found, if it has no objection yet and no argument spells the flag.
ParseTrue(w, k, p) ==
    p.ok /\ (\A i \in DOMAIN p.args : p.args[i] \notin FlagWords) =>
        IF p.mode = "value" THEN k > 0 /\ w[k] = "--socket" /\ NoFlag(w, k - 1)
        ELSE \/ p.socket = Nowhere /\ NoFlag(w, k)
             \/ \E f \in 1..k : /\ OneFlag(w, f, k) /\ p.socket = ValueAt(w, f) /\ p.socket # Nowhere
                                /\ w[f] = "=" \/ f < k

LineFields == {"at", "words", "trailing", "i", "dialled", "parsed"}
ParsedFields == {"mode", "socket", "args", "ok"}
WordsInv(l) ==
    /\ DOMAIN l = LineFields /\ l.words \in Seq(Words) /\ l.i \in 1..Len(l.words) + 1
    /\ l.at = "scan" => l.parsed = NothingParsed /\ ScanTrue(l.words, l.i - 1, l.dialled)
    /\ l.at \in {"parse", "run"} =>
        /\ DOMAIN l.parsed = ParsedFields /\ l.parsed.mode \in {"flags", "words", "value"}
        /\ l.parsed.args \in Seq(Words) /\ l.parsed.ok \in BOOLEAN
        /\ ScanTrue(l.words, Len(l.words), l.dialled) /\ ParseTrue(l.words, l.i - 1, l.parsed)
    /\ l.at = "run" => l.i = Len(l.words) + 1 /\ l.parsed.ok /\ l.parsed.mode # "value"

\* The code is that of the last final chunk.
CodeIsLast(chunks, code) ==
    \/ code = 0 /\ \A i \in DOMAIN chunks : ~chunks[i].final
    \/ \E i \in DOMAIN chunks : /\ chunks[i].final /\ chunks[i].code = code
                                /\ \A j \in (i + 1)..Len(chunks) : ~chunks[j].final

CommandFields == {"at", "spec", "n", "flag", "in", "deep"}
DispatchFields == {"at", "spec", "n", "flag", "in", "path", "flags", "from", "given", "code", "chunks"}
LineInv ==
    \/ ln.at \in {"scan", "parse", "run"} /\ WordsInv(ln)
    \/ ln.at = "command" /\ DOMAIN ln = CommandFields /\ ln.spec \in Specs /\ ln.n \in 0..MaxWords
    \/ ln.at = "rejected"
    \/ /\ ln.at = "sent" /\ DOMAIN ln = DispatchFields /\ ln.given \in 0..MaxWords /\ Len(ln.path) \in 1..2
       /\ ln.chunks \in Seq([final : BOOLEAN, code : {0, 3}]) /\ CodeIsLast(ln.chunks, ln.code)
       /\ GivenFitsSpec

LEMMA WordsAreSequences == Lines \subseteq Seq(Words)
<1>1. ASSUME NEW w \in Lines PROVE w \in Seq(Words)
  <2>1. PICK m \in 0..MaxWords : w \in [1..m -> Words]
    BY DEF Lines, SeqOf
  <2> QED
    BY <2>1, CommandLineAssumption
<1> QED
  BY <1>1

LEMMA NothingParsedFields ==
    /\ DOMAIN NothingParsed = ParsedFields /\ NothingParsed.mode = "flags" /\ NothingParsed.socket = Nowhere
    /\ NothingParsed.args = << >> /\ NothingParsed.ok = TRUE
BY DEF NothingParsed, ParsedFields

LEMMA LineBegins ==
    ASSUME LineInit
    PROVE  LineInv
<1>1. ASSUME NEW words \in Lines, NEW trailing \in BOOLEAN,
             ln = [at |-> "scan", words |-> words, trailing |-> trailing, i |-> 1,
                   dialled |-> Nowhere, parsed |-> NothingParsed]
      PROVE  LineInv
  <2>1. /\ DOMAIN ln = LineFields /\ ln.at = "scan" /\ ln.words = words /\ ln.i = 1
        /\ ln.dialled = Nowhere /\ ln.parsed = NothingParsed
    BY <1>1 DEF LineFields
  <2>2. words \in Seq(Words) /\ Len(words) \in Nat
    BY WordsAreSequences
  <2>3. ScanTrue(words, 0, Nowhere)
    BY DEF ScanTrue, NoFlag
  <2> QED
    BY <2>1, <2>2, <2>3 DEF LineInv, WordsInv
<1>2. ASSUME NEW spec \in Specs, NEW n \in 0..MaxWords, NEW flag \in Typed, NEW in \in Stdins, NEW deep \in BOOLEAN,
             ln = [at |-> "command", spec |-> spec, n |-> n, flag |-> flag, in |-> in, deep |-> deep]
      PROVE  LineInv
  BY <1>2 DEF LineInv, CommandFields
<1> QED
  BY <1>1, <1>2 DEF LineInit

\* One more word.
LEMMA ScanGoesOn ==
    ASSUME NEW w \in Seq(Words), NEW k \in 0..Len(w) - 1, NEW d, ScanTrue(w, k, d)
    PROVE  /\ w[k + 1] = "=" => ScanTrue(w, k + 1, "b")
           /\ w[k + 1] \in {"--socket", "-socket"} /\ k + 1 < Len(w) => ScanTrue(w, k + 2, w[k + 2])
           /\ w[k + 1] # "=" /\ (w[k + 1] \notin {"--socket", "-socket"} \/ k + 1 = Len(w)) => ScanTrue(w, k + 1, d)
<1>0. Len(w) \in Nat /\ k \in Nat
  OBVIOUS
<1>1. ASSUME w[k + 1] = "=" PROVE ScanTrue(w, k + 1, "b")
  <2>1. k + 1 \in 1..k + 1 /\ w[k + 1] \in FlagWords
    BY <1>0, <1>1 DEF FlagWords
  <2>2. ~NoFlag(w, k + 1)
    BY <2>1 DEF NoFlag
  <2>3. ASSUME NEW f \in 1..k + 1, OneFlag(w, f, k + 1) PROVE "b" = ValueAt(w, f)
    BY <1>1, <2>1, <2>3 DEF OneFlag, ValueAt
  <2> QED
    BY <2>2, <2>3 DEF ScanTrue
<1>2. ASSUME w[k + 1] \in {"--socket", "-socket"}, k + 1 < Len(w) PROVE ScanTrue(w, k + 2, w[k + 2])
  <2>1. k + 1 \in 1..k + 2 /\ w[k + 1] \in FlagWords /\ w[k + 1] # "=" /\ (k + 1) + 1 = k + 2
    BY <1>0, <1>2 DEF FlagWords
  <2>2. ~NoFlag(w, k + 2)
    BY <2>1 DEF NoFlag
  <2>3. ASSUME NEW f \in 1..k + 2, OneFlag(w, f, k + 2) PROVE w[k + 2] = ValueAt(w, f)
    BY <2>1, <2>3 DEF OneFlag, ValueAt
  <2> QED
    BY <2>2, <2>3 DEF ScanTrue
<1>3. ASSUME w[k + 1] # "=", w[k + 1] \notin {"--socket", "-socket"} \/ k + 1 = Len(w) PROVE ScanTrue(w, k + 1, d)
  <2>0. k + 1 \in 1..k + 1 /\ \A j \in 1..k : j \in 1..k + 1
    BY <1>0
  <2>1. NoFlag(w, k + 1) => NoFlag(w, k)
    BY <2>0 DEF NoFlag
  <2>2. ASSUME NEW f \in 1..k + 1, OneFlag(w, f, k + 1), w[f] = "=" \/ f < Len(w) PROVE d = ValueAt(w, f)
    <3>1. CASE f = k + 1
      BY <1>3, <2>2, <3>1 DEF OneFlag, FlagWords
    <3>2. CASE f # k + 1
      <4>1. f \in 1..k /\ OneFlag(w, f, k)
        BY <1>0, <2>0, <2>2, <3>2 DEF OneFlag
      <4> QED
        BY <2>2, <4>1 DEF ScanTrue
    <3> QED
      BY <3>1, <3>2
  <2> QED
    BY <2>1, <2>2 DEF ScanTrue
<1> QED
  BY <1>1, <1>2, <1>3

LEMMA ScanStep ==
    ASSUME LineInv, ExtractSocketOverride \/ Scanned
    PROVE  LineInv'
<1> DEFINE w == ln.words
<1>0. ln.at = "scan" /\ WordsInv(ln)
  BY DEF LineInv, ExtractSocketOverride, Scanned
<1>1. /\ DOMAIN ln = LineFields /\ w \in Seq(Words) /\ ln.i \in 1..Len(w) + 1 /\ Len(w) \in Nat
      /\ ln.parsed = NothingParsed /\ ScanTrue(w, ln.i - 1, ln.dialled)
  BY <1>0 DEF WordsInv
<1>2. ASSUME ExtractSocketOverride PROVE LineInv'
  <2> DEFINE k == ln.i - 1
  <2>0. k \in 0..Len(w) - 1 /\ ln.i = k + 1 /\ ln.i + 1 = k + 2 /\ k \in Nat
    BY <1>1, <1>2 DEF ExtractSocketOverride
  <2>k. ScanTrue(w, k, ln.dialled)
    BY <1>1
  <2>1. \E i \in 1..Len(w) + 1 : \E d : ln' = [ln EXCEPT !.i = i, !.dialled = d] /\ ScanTrue(w, i - 1, d)
    <3>1. CASE w[k + 1] = "=" /\ ln' = [ln EXCEPT !.i = ln.i + 1, !.dialled = "b"]
      <4>1. ScanTrue(w, k + 1, "b") /\ ln.i + 1 \in 1..Len(w) + 1 /\ (ln.i + 1) - 1 = k + 1
        BY <1>1, <2>0, <3>1, ScanGoesOn
      <4> QED
        BY <3>1, <4>1
    <3>2. CASE /\ w[k + 1] \in {"--socket", "-socket"} /\ ln.i < Len(w)
               /\ ln' = [ln EXCEPT !.i = ln.i + 2, !.dialled = w[k + 2]]
      <4>0. k + 1 < Len(w) /\ ln.i + 2 \in 1..Len(w) + 1 /\ (ln.i + 2) - 1 = k + 2
        BY <1>1, <2>0, <3>2
      <4> HIDE DEF k
      <4>1. ScanTrue(w, k + 2, w[k + 2])
        BY <1>1, <2>0, <2>k, <3>2, <4>0, ScanGoesOn
      <4> QED
        BY <3>2, <4>0, <4>1
    <3>3. CASE /\ w[k + 1] # "=" /\ (w[k + 1] \notin {"--socket", "-socket"} \/ ln.i = Len(w))
               /\ ln' = [ln EXCEPT !.i = ln.i + 1]
      <4>1. ScanTrue(w, k + 1, ln.dialled) /\ ln.i + 1 \in 1..Len(w) + 1 /\ (ln.i + 1) - 1 = k + 1
        BY <1>1, <2>0, <3>3, ScanGoesOn
      <4>2. [ln EXCEPT !.i = ln.i + 1] = [ln EXCEPT !.i = ln.i + 1, !.dialled = ln.dialled]
        BY <1>1 DEF LineFields
      <4> QED
        BY <3>3, <4>1, <4>2
    <3> HIDE DEF k
    <3> QED
      BY <1>2, <2>0, <3>1, <3>2, <3>3 DEF ExtractSocketOverride
  <2>i. PICK i \in 1..Len(w) + 1 : \E d : ln' = [ln EXCEPT !.i = i, !.dialled = d] /\ ScanTrue(w, i - 1, d)
    BY <2>1
  <2>2. PICK d : ln' = [ln EXCEPT !.i = i, !.dialled = d] /\ ScanTrue(w, i - 1, d)
    BY <2>i
  <2>3. /\ DOMAIN ln' = LineFields /\ ln'.at = "scan" /\ ln'.words = w /\ ln'.i = i /\ ln'.dialled = d
        /\ ln'.parsed = NothingParsed
    BY <1>0, <1>1, <2>2 DEF LineFields
  <2> QED
    BY <1>1, <2>2, <2>3 DEF LineInv, WordsInv
<1>3. ASSUME Scanned PROVE LineInv'
  <2>1. /\ DOMAIN ln' = LineFields /\ ln'.at = "parse" /\ ln'.words = w /\ ln'.i = 1 /\ ln'.dialled = ln.dialled
        /\ ln'.parsed = NothingParsed
    BY <1>0, <1>1, <1>3 DEF Scanned, LineFields
  <2>2. ln.i - 1 = Len(w)
    BY <1>1, <1>3 DEF Scanned
  <2>3. ParseTrue(w, 0, NothingParsed)
    BY NothingParsedFields DEF ParseTrue, NoFlag
  <2>4. NothingParsed.args \in Seq(Words)
    BY NothingParsedFields
  <2>5. ln'.i \in 1..Len(w) + 1 /\ ln'.i - 1 = 0
    BY <1>1, <2>1
  <2>6. ScanTrue(w, Len(w), ln'.dialled) /\ ParseTrue(w, ln'.i - 1, ln'.parsed)
    BY <1>1, <2>1, <2>2, <2>3, <2>5
  <2>7. DOMAIN ln'.parsed = ParsedFields /\ ln'.parsed.mode = "flags" /\ ln'.parsed.ok \in BOOLEAN
        /\ ln'.parsed.args \in Seq(Words)
    BY <2>1, <2>4, NothingParsedFields
  <2> QED
    BY <1>1, <2>1, <2>5, <2>6, <2>7 DEF LineInv, WordsInv
<1> QED
  BY <1>2, <1>3

\* An argument more: what is there stays as it was.
LEMMA ArgumentsGrow ==
    ASSUME NEW args \in Seq(Words), NEW word \in Words,
           \A i \in DOMAIN Append(args, word) : Append(args, word)[i] \notin FlagWords
    PROVE  word \notin FlagWords /\ \A i \in DOMAIN args : args[i] \notin FlagWords
<1> DEFINE more == Append(args, word)
<1>1. /\ Len(args) \in Nat /\ DOMAIN args = 1..Len(args) /\ DOMAIN more = 1..Len(args) + 1
      /\ more[Len(args) + 1] = word /\ \A i \in 1..Len(args) : more[i] = args[i]
  OBVIOUS
<1>2. Len(args) + 1 \in 1..Len(args) + 1 /\ \A i \in 1..Len(args) : i \in 1..Len(args) + 1
  BY <1>1
<1> HIDE DEF more
<1>3. \A i \in DOMAIN more : more[i] \notin FlagWords
  BY DEF more
<1> QED
  BY <1>1, <1>2, <1>3

\* A word that does not spell the flag.
LEMMA OtherWord ==
    ASSUME NEW w \in Seq(Words), NEW k \in 0..Len(w) - 1, w[k + 1] \notin FlagWords
    PROVE  /\ NoFlag(w, k) => NoFlag(w, k + 1)
           /\ \A f \in 1..k : OneFlag(w, f, k) => f \in 1..k + 1 /\ OneFlag(w, f, k + 1)
           /\ \A f \in 1..k : f < k => f < k + 1
<1>1. \A j \in 1..k + 1 : j \in 1..k \/ j = k + 1
  OBVIOUS
<1>2. \A j \in 1..k : j \in 1..k + 1 /\ (j < k => j < k + 1)
  OBVIOUS
<1> QED
  BY <1>1, <1>2 DEF NoFlag, OneFlag

LEMMA ClapGoesOn ==
    ASSUME NEW w \in Seq(Words), NEW k \in 0..Len(w) - 1, NEW p, ParseTrue(w, k, p),
           DOMAIN p = ParsedFields, p.mode \in {"flags", "words", "value"},
           p.args \in Seq(Words), p.ok \in BOOLEAN
    PROVE  LET q == ClapStep(p, w[k + 1])
           IN  /\ ParseTrue(w, k + 1, q) /\ DOMAIN q = ParsedFields /\ q.mode \in {"flags", "words", "value"}
               /\ q.args \in Seq(Words) /\ q.ok \in BOOLEAN
<1> DEFINE word == w[k + 1]
           q == ClapStep(p, word)
           G == /\ ParseTrue(w, k + 1, q) /\ DOMAIN q = ParsedFields /\ q.mode \in {"flags", "words", "value"}
                /\ q.args \in Seq(Words) /\ q.ok \in BOOLEAN
           Free(args) == \A i \in DOMAIN args : args[i] \notin FlagWords
<1>0. /\ Len(w) \in Nat /\ k \in Nat /\ k + 1 \in 1..Len(w) /\ k + 1 > 0 /\ (k + 1) - 1 = k
      /\ k + 1 \in 1..k + 1 /\ k < k + 1 /\ (k > 0 => k \in 1..k /\ k \in 1..k + 1)
      /\ \A j \in 1..k + 1 : j \in 1..k \/ j = k + 1
      /\ \A j \in 1..k : j \in 1..k - 1 \/ j = k
  OBVIOUS
<1>w. word \in Words
  BY <1>0
<1>v. "x" # "default" /\ "b" # "default" /\ Nowhere = "default" /\ FlagWords = {"--socket", "-socket", "="}
  BY DEF Nowhere, FlagWords
<1>g. SUFFICES G
  OBVIOUS
<1> HIDE DEF word, q
<1>1. CASE p.mode = "value"
  <2>1. q = [p EXCEPT !.ok = p.ok /\ word = "x", !.socket = word, !.mode = "flags"]
    BY <1>1 DEF q, ClapStep
  <2>2. DOMAIN q = ParsedFields /\ q.mode = "flags" /\ q.args = p.args /\ q.socket = word /\ q.ok = (p.ok /\ word = "x")
    BY <2>1 DEF ParsedFields
  <2>3. ASSUME q.ok, Free(q.args)
        PROVE  \E f \in 1..k + 1 : /\ OneFlag(w, f, k + 1) /\ q.socket = ValueAt(w, f) /\ q.socket # Nowhere
                                   /\ w[f] = "=" \/ f < k + 1
    <3>1. p.ok /\ word = "x" /\ k > 0 /\ w[k] = "--socket" /\ NoFlag(w, k - 1)
      BY <1>1, <2>2, <2>3 DEF ParseTrue
    <3>2. OneFlag(w, k, k + 1)
      BY <1>0, <1>v, <3>1 DEF OneFlag, NoFlag, word
    <3>3. ValueAt(w, k) = word
      BY <3>1 DEF ValueAt, word
    <3> QED
      BY <1>0, <1>v, <2>2, <3>1, <3>2, <3>3
  <2>4. ParseTrue(w, k + 1, q)
    BY <2>2, <2>3 DEF ParseTrue
  <2>5. q.ok \in BOOLEAN
    BY <2>2
  <2>6. q.mode \in {"flags", "words", "value"} /\ q.args \in Seq(Words)
    BY <2>2
  <2> QED
    BY <2>2, <2>4, <2>5, <2>6
<1>2. ASSUME p.mode # "value", word \notin FlagWords, DOMAIN q = ParsedFields, q.mode \in {"flags", "words"},
             q.socket = p.socket, q.ok => p.ok, Free(q.args) => Free(p.args)
      PROVE  ParseTrue(w, k + 1, q)
  <2>1. ASSUME q.ok, Free(q.args)
        PROVE  \/ q.socket = Nowhere /\ NoFlag(w, k + 1)
               \/ \E f \in 1..k + 1 : /\ OneFlag(w, f, k + 1) /\ q.socket = ValueAt(w, f) /\ q.socket # Nowhere
                                      /\ w[f] = "=" \/ f < k + 1
    <3>1. \/ p.socket = Nowhere /\ NoFlag(w, k)
          \/ \E f \in 1..k : /\ OneFlag(w, f, k) /\ p.socket = ValueAt(w, f) /\ p.socket # Nowhere
                             /\ w[f] = "=" \/ f < k
      BY <1>2, <2>1 DEF ParseTrue
    <3> QED
      BY <1>2, <3>1, OtherWord DEF word
  <2> QED
    BY <1>2, <2>1 DEF ParseTrue
<1>3. CASE p.mode # "value" /\ word = "--" /\ q = [p EXCEPT !.mode = "words"]
  <2>1. /\ DOMAIN q = ParsedFields /\ q.mode = "words" /\ q.args = p.args /\ q.socket = p.socket /\ q.ok = p.ok
    BY <1>3 DEF ParsedFields
  <2>2. word \notin FlagWords
    BY <1>3, <1>v
  <2>3. ParseTrue(w, k + 1, q)
    BY <1>2, <1>3, <2>1, <2>2
  <2>4. q.ok \in BOOLEAN /\ q.mode \in {"flags", "words", "value"} /\ q.args \in Seq(Words)
    BY <2>1
  <2> QED
    BY <2>1, <2>3, <2>4
<1>4. ASSUME NEW ok \in BOOLEAN, NEW mode \in {"flags", "words"}, p.mode # "value", ok => p.ok,
             q = [p EXCEPT !.args = Append(p.args, word), !.ok = ok, !.mode = mode]
      PROVE  G
  <2>1. /\ DOMAIN q = ParsedFields /\ q.mode = mode /\ q.args = Append(p.args, word) /\ q.socket = p.socket /\ q.ok = ok
    BY <1>4 DEF ParsedFields
  <2>2. q.args \in Seq(Words)
    BY <1>w, <2>1
  <2>3. Free(q.args) => word \notin FlagWords /\ Free(p.args)
    BY <1>w, <2>1, ArgumentsGrow
  <2>4. CASE Free(q.args)
    BY <1>2, <1>4, <2>1, <2>2, <2>3, <2>4
  <2>5. CASE ~Free(q.args)
    BY <2>1, <2>2, <2>5 DEF ParseTrue
  <2> QED
    BY <2>4, <2>5
<1>5. CASE p.mode # "value" /\ word = "--socket" /\ q = [p EXCEPT !.mode = "value", !.ok = p.ok /\ p.socket = Nowhere]
  <2>1. /\ DOMAIN q = ParsedFields /\ q.mode = "value" /\ q.args = p.args /\ q.ok = (p.ok /\ p.socket = Nowhere)
    BY <1>5 DEF ParsedFields
  <2>2. ASSUME q.ok, Free(q.args) PROVE k + 1 > 0 /\ w[k + 1] = "--socket" /\ NoFlag(w, (k + 1) - 1)
    BY <1>0, <1>5, <2>1, <2>2 DEF ParseTrue, word
  <2>3. ParseTrue(w, k + 1, q)
    BY <2>1, <2>2 DEF ParseTrue
  <2>4. q.ok \in BOOLEAN
    BY <2>1
  <2>5. q.mode \in {"flags", "words", "value"} /\ q.args \in Seq(Words)
    BY <2>1
  <2> QED
    BY <2>1, <2>3, <2>4, <2>5
<1>6. CASE p.mode # "value" /\ word = "=" /\ q = [p EXCEPT !.socket = "b", !.ok = p.ok /\ p.socket = Nowhere]
  <2>1. /\ DOMAIN q = ParsedFields /\ q.mode = p.mode /\ q.args = p.args /\ q.ok = (p.ok /\ p.socket = Nowhere)
        /\ q.socket = "b"
    BY <1>6 DEF ParsedFields
  <2>2. ASSUME q.ok, Free(q.args)
        PROVE  OneFlag(w, k + 1, k + 1) /\ q.socket = ValueAt(w, k + 1) /\ q.socket # Nowhere /\ w[k + 1] = "="
    <3>1. NoFlag(w, k)
      BY <1>6, <2>1, <2>2 DEF ParseTrue
    <3> QED
      BY <1>0, <1>v, <1>6, <2>1, <3>1 DEF OneFlag, NoFlag, ValueAt, word
  <2>3. ParseTrue(w, k + 1, q)
    BY <1>0, <1>6, <2>1, <2>2 DEF ParseTrue
  <2>4. q.ok \in BOOLEAN
    BY <2>1
  <2>5. q.mode \in {"flags", "words", "value"} /\ q.args \in Seq(Words)
    BY <2>1
  <2> QED
    BY <2>1, <2>3, <2>4, <2>5
<1>7. CASE p.mode = "words"
  <2>1. q = [p EXCEPT !.args = Append(p.args, word)]
    BY <1>7 DEF q, ClapStep
  <2>2. q = [p EXCEPT !.args = Append(p.args, word), !.ok = p.ok, !.mode = "words"]
    BY <1>7, <2>1 DEF ParsedFields
  <2>3. "words" \in {"flags", "words"} /\ p.mode # "value"
    BY <1>7
  <2> HIDE DEF G
  <2> QED
    BY ONLY <1>4, <2>2, <2>3, p.ok \in BOOLEAN
<1>8. CASE p.mode = "flags"
  <2>1. CASE word = "--"
    <3>1. q = [p EXCEPT !.mode = "words"]
      BY <1>8, <2>1 DEF q, ClapStep
    <3> QED
      BY <1>3, <1>8, <2>1, <3>1
  <2>2. CASE word = "--socket"
    <3>1. q = [p EXCEPT !.mode = "value", !.ok = p.ok /\ p.socket = Nowhere]
      BY <1>8, <2>2 DEF q, ClapStep
    <3> QED
      BY <1>5, <1>8, <2>2, <3>1
  <2>3. CASE word = "="
    <3>1. q = [p EXCEPT !.socket = "b", !.ok = p.ok /\ p.socket = Nowhere]
      BY <1>8, <2>3 DEF q, ClapStep
    <3> QED
      BY <1>6, <1>8, <2>3, <3>1
  <2>4. CASE word \notin {"--", "--socket", "="}
    <3> DEFINE ok == p.ok /\ (word = "x" \/ ln.trailing)
               mode == IF ln.trailing THEN "words" ELSE "flags"
    <3>1. q = [p EXCEPT !.args = Append(p.args, word), !.ok = ok, !.mode = mode]
      BY <1>8, <2>4 DEF q, ClapStep
    <3>2. ok \in BOOLEAN /\ mode \in {"flags", "words"} /\ (ok => p.ok)
      OBVIOUS
    <3> HIDE DEF ok, mode
    <3>3. p.mode # "value"
      BY <1>8
    <3> HIDE DEF G
    <3> QED
      BY ONLY <1>4, <3>1, <3>2, <3>3
  <2> QED
    BY <2>1, <2>2, <2>3, <2>4
<1> QED
  BY <1>1, <1>7, <1>8

LEMMA ParseStep ==
    ASSUME LineInv, ClapParse \/ LineParsed
    PROVE  LineInv'
<1> DEFINE w == ln.words
<1>0. ln.at = "parse" /\ WordsInv(ln)
  BY DEF LineInv, ClapParse, LineParsed
<1>1. /\ DOMAIN ln = LineFields /\ w \in Seq(Words) /\ ln.i \in 1..Len(w) + 1 /\ Len(w) \in Nat
      /\ DOMAIN ln.parsed = ParsedFields /\ ln.parsed.mode \in {"flags", "words", "value"}
      /\ ln.parsed.args \in Seq(Words)
      /\ ScanTrue(w, Len(w), ln.dialled) /\ ParseTrue(w, ln.i - 1, ln.parsed)
  BY <1>0 DEF WordsInv
<1>b. ln.parsed.ok \in BOOLEAN
  BY <1>0 DEF WordsInv
<1>2. ASSUME ClapParse PROVE LineInv'
  <2> DEFINE k == ln.i - 1
             q == ClapStep(ln.parsed, w[k + 1])
  <2>0. k \in 0..Len(w) - 1 /\ k + 1 = ln.i /\ ln.i + 1 \in 1..Len(w) + 1 /\ (ln.i + 1) - 1 = k + 1
    BY <1>1, <1>2 DEF ClapParse
  <2>1. ParseTrue(w, k, ln.parsed)
    BY <1>1
  <2>2. ln' = [ln EXCEPT !.i = ln.i + 1, !.parsed = q]
    BY <1>2, <2>0 DEF ClapParse
  <2> HIDE DEF k
  <2>3. /\ ParseTrue(w, k + 1, q) /\ DOMAIN q = ParsedFields /\ q.mode \in {"flags", "words", "value"}
        /\ q.args \in Seq(Words) /\ q.ok \in BOOLEAN
    BY <1>1, <1>b, <2>0, <2>1, ClapGoesOn
  <2> HIDE DEF q
  <2>4. /\ DOMAIN ln' = LineFields /\ ln'.at = "parse" /\ ln'.words = w /\ ln'.i = ln.i + 1
        /\ ln'.dialled = ln.dialled /\ ln'.parsed = q
    BY <1>0, <1>1, <2>2 DEF LineFields
  <2>5. ParseTrue(w, ln'.i - 1, q)
    BY <2>0, <2>3, <2>4
  <2>6. ln'.parsed.ok \in BOOLEAN
    BY <2>3, <2>4
  <2>7. /\ DOMAIN ln'.parsed = ParsedFields /\ ln'.parsed.mode \in {"flags", "words", "value"}
        /\ ln'.parsed.args \in Seq(Words) /\ ScanTrue(ln'.words, Len(ln'.words), ln'.dialled)
        /\ ParseTrue(ln'.words, ln'.i - 1, ln'.parsed)
    BY <1>1, <2>3, <2>4, <2>5
  <2>8. ln'.words \in Seq(Words) /\ ln'.i \in 1..Len(ln'.words) + 1
    BY <1>1, <2>0, <2>4
  <2> QED
    BY <2>4, <2>6, <2>7, <2>8 DEF LineInv, WordsInv
<1>3. ASSUME LineParsed PROVE LineInv'
  <2>1. CASE ClapAccepts(ln.parsed)
    <3>1. ln' = [ln EXCEPT !.at = "run"]
      BY <1>3, <2>1 DEF LineParsed
    <3>2. /\ DOMAIN ln' = LineFields /\ ln'.at = "run" /\ ln'.words = w /\ ln'.i = ln.i
          /\ ln'.dialled = ln.dialled /\ ln'.parsed = ln.parsed
      BY <1>1, <3>1 DEF LineFields
    <3>3. ln.parsed.ok /\ ln.parsed.mode # "value"
      BY <2>1 DEF ClapAccepts
    <3>4. ln.i = Len(w) + 1
      BY <1>1, <1>3 DEF LineParsed
    <3>5. WordsInv(ln')
      BY <1>1, <1>b, <3>2, <3>3, <3>4 DEF WordsInv
    <3> QED
      BY <3>2, <3>5 DEF LineInv
  <2>2. CASE ~ClapAccepts(ln.parsed)
    <3>1. ln'.at = "rejected"
      BY <1>3, <2>2 DEF LineParsed
    <3> QED
      BY <3>1 DEF LineInv
  <2> QED
    BY <2>1, <2>2
<1> QED
  BY <1>2, <1>3

\* A module gets a number of arguments that it declared.
LEMMA CountFits ==
    ASSUME NEW spec \in Specs, NEW n \in 0..MaxWords, NEW in, ArgsPositional(spec, n),
           NEW given, given = Count(n, ApplyStdinFallback(n, in))
    PROVE  /\ given \in 0..MaxWords
           /\ IF spec.max = 0 THEN n = 0 /\ given \in {0, 1}
              ELSE given >= spec.min /\ (spec.max < 0 \/ given <= spec.max)
<1>1. spec.min \in {-1, 0, 1} /\ spec.max \in {-1, 0, 1, 2} /\ MaxWords \in Nat \ {0} /\ n \in Nat
  BY CommandLineAssumption DEF Specs
<1>2. CASE n > 0
  <2>1. given = n
    BY <1>2 DEF Count, ApplyStdinFallback
  <2> QED
    BY <1>1, <1>2, <2>1 DEF ArgsPositional
<1>3. CASE n = 0
  <2>1. given \in {0, 1}
    BY <1>3 DEF Count, ApplyStdinFallback
  <2> QED
    BY <1>1, <1>3, <2>1 DEF ArgsPositional
<1> QED
  BY <1>1, <1>2, <1>3

LEMMA CommandStep ==
    ASSUME LineInv, CommandParsed
    PROVE  LineInv'
<1> DEFINE kind == FlagKind(ln.spec.type)
           from == ApplyStdinFallback(ln.n, ln.in)
           given == Count(ln.n, from)
<1>0. ln.at = "command" /\ ln.spec \in Specs /\ ln.n \in 0..MaxWords
  BY DEF LineInv, CommandParsed
<1>1. CASE ~ArgsPositional(ln.spec, ln.n) \/ ln.flag \notin BuildFlagArg(kind) \/ (ln.deep /\ ~ln.spec.group)
  <2>1. ln' = [at |-> "rejected"]
    BY <1>1 DEF CommandParsed
  <2>2. ln'.at = "rejected"
    BY <2>1
  <2> QED
    BY <2>2 DEF LineInv
<1>2. CASE ~(~ArgsPositional(ln.spec, ln.n) \/ ln.flag \notin BuildFlagArg(kind) \/ (ln.deep /\ ~ln.spec.group))
  <2>1. ArgsPositional(ln.spec, ln.n)
    BY <1>2
  <2>2. ln' = [at |-> "sent", spec |-> ln.spec, n |-> ln.n, flag |-> ln.flag, in |-> ln.in,
               path |-> PathOf(ln.spec, ln.deep), flags |-> CollectFlags(kind, ln.flag),
               from |-> from, given |-> given, code |-> 0, chunks |-> << >>]
    BY <1>2 DEF CommandParsed
  <2>3. /\ given \in 0..MaxWords
        /\ IF ln.spec.max = 0 THEN ln.n = 0 /\ given \in {0, 1}
           ELSE given >= ln.spec.min /\ (ln.spec.max < 0 \/ given <= ln.spec.max)
    BY <1>0, <2>1, CountFits
  <2> HIDE DEF kind, from, given
  <2>4. /\ DOMAIN ln' = DispatchFields /\ ln'.at = "sent" /\ ln'.spec = ln.spec /\ ln'.n = ln.n
        /\ ln'.path = PathOf(ln.spec, ln.deep) /\ ln'.given = given /\ ln'.code = 0 /\ ln'.chunks = << >>
    BY <2>2 DEF DispatchFields
  <2>5. Len(PathOf(ln.spec, ln.deep)) \in 1..2
    BY DEF PathOf
  <2>6. << >> \in Seq([final : BOOLEAN, code : {0, 3}]) /\ DOMAIN << >> = {}
    OBVIOUS
  <2>7. CodeIsLast(ln'.chunks, ln'.code)
    BY <2>4, <2>6 DEF CodeIsLast
  <2>8. GivenFitsSpec'
    BY <2>3, <2>4 DEF GivenFitsSpec
  <2> QED
    BY <2>3, <2>4, <2>5, <2>6, <2>7, <2>8 DEF LineInv
<1> QED
  BY <1>1, <1>2

\* Record keeps the code of the last final chunk.
LEMMA RecordIsLast ==
    ASSUME NEW chunks \in Seq([final : BOOLEAN, code : {0, 3}]), NEW code, CodeIsLast(chunks, code),
           NEW chunk \in [final : BOOLEAN, code : {0, 3}]
    PROVE  CodeIsLast(Append(chunks, chunk), Record(code, chunk))
<1> DEFINE more == Append(chunks, chunk)
           n == Len(chunks)
<1>1. /\ n \in Nat /\ DOMAIN chunks = 1..n /\ DOMAIN more = 1..n + 1 /\ Len(more) = n + 1
      /\ more[n + 1] = chunk /\ \A i \in 1..n : more[i] = chunks[i]
  OBVIOUS
<1>2. /\ n + 1 \in 1..n + 1 /\ \A i \in 1..n : i \in 1..n + 1
      /\ \A i \in 1..n + 1 : i \in 1..n \/ i = n + 1
      /\ ((n + 1) + 1)..(n + 1) = {}
      /\ \A i \in 1..n : \A j \in (i + 1)..(n + 1) : j \in (i + 1)..n \/ j = n + 1
      /\ \A i \in 1..n : \A j \in (i + 1)..n : j \in 1..n
  BY <1>1
<1> HIDE DEF more
<1>3. CASE chunk.final
  <2>1. Record(code, chunk) = chunk.code
    BY <1>3 DEF Record
  <2> QED
    BY <1>1, <1>2, <1>3, <2>1 DEF CodeIsLast, more
<1>4. CASE ~chunk.final
  <2>1. Record(code, chunk) = code
    BY <1>4 DEF Record
  <2> HIDE DEF n
  <2>2. CASE code = 0 /\ \A i \in DOMAIN chunks : ~chunks[i].final
    <3>1. \A i \in DOMAIN more : ~more[i].final
      BY <1>1, <1>2, <1>4, <2>2
    <3> QED
      BY <2>1, <2>2, <3>1 DEF CodeIsLast, more
  <2>3. ASSUME NEW i \in DOMAIN chunks, chunks[i].final, chunks[i].code = code,
               \A j \in (i + 1)..Len(chunks) : ~chunks[j].final
        PROVE  CodeIsLast(more, code)
    <3>1. i \in DOMAIN more /\ more[i].final /\ more[i].code = code
      BY <1>1, <1>2, <2>3
    <3>2. \A j \in (i + 1)..Len(more) : ~more[j].final
      BY <1>1, <1>2, <1>4, <2>3 DEF n
    <3> QED
      BY <3>1, <3>2 DEF CodeIsLast
  <2> QED
    BY <2>1, <2>2, <2>3 DEF CodeIsLast, more
<1> QED
  BY <1>3, <1>4

LEMMA ChunkStep ==
    ASSUME LineInv, NEW chunk \in [final : BOOLEAN, code : {0, 3}], ChunkReceived(chunk)
    PROVE  LineInv'
<1>1. /\ ln.at = "sent" /\ DOMAIN ln = DispatchFields /\ ln.given \in 0..MaxWords /\ Len(ln.path) \in 1..2
      /\ ln.chunks \in Seq([final : BOOLEAN, code : {0, 3}]) /\ CodeIsLast(ln.chunks, ln.code)
      /\ GivenFitsSpec
  BY DEF LineInv, ChunkReceived
<1>2. ln' = [ln EXCEPT !.code = Record(ln.code, chunk), !.chunks = Append(ln.chunks, chunk)]
  BY DEF ChunkReceived
<1>3. /\ DOMAIN ln' = DispatchFields /\ ln'.at = "sent" /\ ln'.spec = ln.spec /\ ln'.n = ln.n
      /\ ln'.path = ln.path /\ ln'.given = ln.given
      /\ ln'.code = Record(ln.code, chunk) /\ ln'.chunks = Append(ln.chunks, chunk)
  BY <1>1, <1>2 DEF DispatchFields
<1>4. CodeIsLast(ln'.chunks, ln'.code)
  BY <1>1, <1>3, RecordIsLast
<1>5. ln'.chunks \in Seq([final : BOOLEAN, code : {0, 3}])
  BY <1>1, <1>3
<1>6. GivenFitsSpec'
  BY <1>1, <1>3 DEF GivenFitsSpec
<1> QED
  BY <1>1, <1>3, <1>4, <1>5, <1>6 DEF LineInv

LEMMA LineStep ==
    ASSUME LineInv, LineNext \/ UNCHANGED lineVars
    PROVE  LineInv'
<1>1. CASE UNCHANGED lineVars
  <2>1. ln' = ln
    BY <1>1 DEF lineVars
  <2>2. GivenFitsSpec' = GivenFitsSpec
    BY <2>1 DEF GivenFitsSpec
  <2> QED
    BY <2>1, <2>2 DEF LineInv
<1>2. ASSUME NEW final \in BOOLEAN, NEW code \in {0, 3}, ChunkReceived([final |-> final, code |-> code])
      PROVE  LineInv'
  BY <1>2, ChunkStep
<1> QED
  BY <1>1, <1>2, ScanStep, ParseStep, CommandStep DEF LineNext

\* What the invariant says of a line that is over.
LEMMA LineInvTells ==
    ASSUME LineInv
    PROVE  LineTypeOK /\ DialledIsParsed /\ GivenFitsSpec
<1>1. LineTypeOK /\ GivenFitsSpec
  BY DEF LineInv, LineTypeOK, CodeIsLast, GivenFitsSpec
<1>2. DialledIsParsed
  <2> DEFINE w == ln.words
  <2>1. SUFFICES ASSUME ln.at = "run", \A i \in DOMAIN ln.parsed.args : ln.parsed.args[i] \notin FlagWords
                 PROVE  ln.dialled = ln.parsed.socket
    BY DEF DialledIsParsed, FlagWords
  <2>2. /\ w \in Seq(Words) /\ Len(w) \in Nat /\ ln.i = Len(w) + 1 /\ ln.parsed.ok /\ ln.parsed.mode # "value"
        /\ ScanTrue(w, Len(w), ln.dialled) /\ ParseTrue(w, ln.i - 1, ln.parsed)
    BY <2>1 DEF LineInv, WordsInv
  <2>3. ParseTrue(w, Len(w), ln.parsed)
    BY <2>2
  <2>4. \/ ln.parsed.socket = Nowhere /\ NoFlag(w, Len(w))
        \/ \E f \in 1..Len(w) : /\ OneFlag(w, f, Len(w)) /\ ln.parsed.socket = ValueAt(w, f)
                                /\ w[f] = "=" \/ f < Len(w)
    BY <2>1, <2>2, <2>3 DEF ParseTrue
  <2> QED
    BY <2>2, <2>4 DEF ScanTrue
<1> QED
  BY <1>1, <1>2

-----------------------------------------------------------------------------
(* The command line: each step of a verb *)

\* As the table changes, what was said stays true.
LEMMA VerbEarlier ==
    ASSUME NEW c, NEW r, NEW always, NEW seen, NEW ran, NEW fewer, NEW more,
           fewer \subseteq always, seen \subseteq more
    PROVE  /\ CliCall(c, r, always, seen, ran) => CliCall(c, r, fewer, more, ran)
           /\ TreeTrue(c, always, seen) => TreeTrue(c, fewer, more)
           /\ OutcomeTrue(c, always, seen, ran) => OutcomeTrue(c, fewer, more, ran)
<1>1. CommandsCall(r, always, seen) => CommandsCall(r, fewer, more)
  BY DEF CommandsCall
<1>2. ListCall(r, always) => ListCall(r, fewer)
  BY DEF ListCall
<1>3. LoadCall(r, seen) => LoadCall(r, more)
  BY DEF LoadCall
<1>4. UnloadCall(r, always) => UnloadCall(r, fewer)
  BY DEF UnloadCall
<1>5. StateCall(r, always, seen) => StateCall(r, fewer, more)
  BY DEF StateCall, StatusCall
<1>6. VerbCall(c.verb, r, always, seen, ran) => VerbCall(c.verb, r, fewer, more, ran)
  BY <1>2, <1>3, <1>4, <1>5 DEF VerbCall
<1>7. CliCall(c, r, always, seen, ran) => CliCall(c, r, fewer, more, ran)
  BY <1>1, <1>6 DEF CliCall
<1>8. TreeTrue(c, always, seen) => TreeTrue(c, fewer, more)
  BY DEF TreeTrue
<1>9. OutcomeTrue(c, always, seen, ran) => OutcomeTrue(c, fewer, more, ran)
  BY DEF OutcomeTrue
<1> QED
  BY <1>7, <1>8, <1>9

\* The history of the table.
LEMMA TableKept ==
    ASSUME TableInv, NEW mods, DOMAIN mods = Names, TableBecomes(mods)
    PROVE  TableInv' /\ dsAlways' \subseteq dsAlways /\ dsSeen \subseteq dsSeen'
<1>1. HistoryInv' /\ dsAlways' \subseteq dsAlways /\ dsSeen \subseteq dsSeen'
  BY TableMoves DEF TableInv
<1>2. dsSeen' \subseteq Names
  BY DEF TableInv, TableBecomes
<1> QED
  BY <1>1, <1>2 DEF TableInv

LEMMA TableSame ==
    ASSUME TableInv, UNCHANGED <<dsMods, dsSeen, dsAlways>>
    PROVE  TableInv' /\ dsAlways' \subseteq dsAlways /\ dsSeen \subseteq dsSeen'
BY TableStays DEF TableInv

LEMMA TableWatched ==
    ASSUME TableInv, Watched
    PROVE  TableInv'
<1>1. dsSeen' \subseteq Names
  BY DEF Watched, Loaded
<1> QED
  BY <1>1, WatchedIsKept DEF TableInv

LEMMA HandlerTable ==
    ASSUME TableInv, HandlerStep
    PROVE  TableInv' /\ dsAlways' \subseteq dsAlways /\ dsSeen \subseteq dsSeen'
<1> DEFINE G == TableInv' /\ dsAlways' \subseteq dsAlways /\ dsSeen \subseteq dsSeen'
<1>1. ASSUME NEW n, NEW s, SetModule(n, s) PROVE G
  <2>1. DOMAIN [dsMods EXCEPT ![n] = s] = Names
    BY DEF TableInv, HistoryInv
  <2> QED
    BY <1>1, <2>1, TableKept DEF SetModule
<1>2. UNCHANGED tableVars => UNCHANGED <<dsMods, dsSeen, dsAlways>>
  BY DEF tableVars
<1>3. \/ UNCHANGED <<dsMods, dsSeen, dsAlways>>
      \/ SetModule(dsCall.name, "running") \/ SetModule(dsCall.name, "disabled")
  BY <1>2 DEF HandlerStep, HandlesVersion, HandlesListModules, HandlesLoad, HandlesUnload, ListsNames, ListingReturns,
        AsksCommands, AsksStatus, AsksHealth, HandlesDispatch, DispatchFails, HandlesTailLogs,
        HandlesUpdate, DispatchReturns
<1> QED
  BY <1>1, <1>3, TableSame

LEMMA ServiceTable ==
    ASSUME TableInv, ServiceApiStep
    PROVE  TableInv' /\ dsAlways' \subseteq dsAlways /\ dsSeen \subseteq dsSeen'
<1>1. CASE DaemonStops
  BY <1>1, TableKept DEF DaemonStops
<1>2. ASSUME NEW n, NEW s, OthersChange(n, s)
      PROVE  TableInv' /\ dsAlways' \subseteq dsAlways /\ dsSeen \subseteq dsSeen'
  <2>1. DOMAIN [dsMods EXCEPT ![n] = s] = Names
    BY DEF TableInv, HistoryInv
  <2> QED
    BY <1>2, <2>1, TableKept DEF OthersChange, SetModule
<1>3. ASSUME NEW enabled, DaemonStarts(enabled)
      PROVE  TableInv' /\ dsAlways' \subseteq dsAlways /\ dsSeen \subseteq dsSeen'
  BY <1>3, TableKept DEF DaemonStarts
<1> QED
  BY <1>1, <1>2, <1>3, HandlerTable DEF ServiceApiStep

\* A call that nobody made, or that is over, has no handler.
LEMMA NoHandler ==
    ASSUME dsCall.at \in {"none", "done", "failed"}
    PROVE  ~HandlerStep
BY DEF HandlerStep, HandlesVersion, HandlesListModules, HandlesLoad, HandlesUnload, ListsNames, ListingReturns, Sent,
       AsksCommands, AsksStatus, AsksHealth, HandlesDispatch, DispatchFails, HandlesTailLogs,
       HandlesUpdate, DispatchReturns

\* Only a dispatch runs a command.
LEMMA RanByDispatch ==
    ASSUME HandlerStep, dsCall.rpc # "dispatch"
    PROVE  dsRan' = dsRan
BY DEF HandlerStep, HandlesVersion, HandlesListModules, HandlesLoad, HandlesUnload, ListsNames, ListingReturns, Sent,
       AsksCommands, AsksStatus, AsksHealth, HandlesDispatch, DispatchFails, HandlesTailLogs,
       HandlesUpdate, DispatchReturns

LEMMA ListAnswered ==
    ASSUME TableInv, DOMAIN dsCall = CallFields, HandlerStep, ListCall(dsCall, dsAlways)
    PROVE  ListCall(dsCall', dsAlways')
<1>1. dsCall.rpc = "modules" /\ dsCall.at \in {"sent", "done", "failed"}
  BY DEF ListCall
<1>2. HandlesListModules
  BY <1>1 DEF HandlerStep, Sent, HandlesVersion, HandlesLoad, HandlesUnload, ListsNames, ListingReturns,
        AsksCommands, AsksStatus, AsksHealth, HandlesDispatch, DispatchFails, HandlesTailLogs,
        HandlesUpdate, DispatchReturns
<1>3. dsAlways' = dsAlways /\ dsCall'.rpc = "modules" /\ dsCall'.at = "done" /\ dsCall'.rows = Listed
  BY <1>1, <1>2, RepliesRows DEF HandlesListModules, tableVars
<1>4. DOMAIN Listed = Builtin \cup Loaded /\ dsAlways \subseteq Loaded /\ Loaded \subseteq Names /\ Builtin \subseteq Names
  BY ListedIsTrue DEF TableInv, HistoryInv, Loaded, Names
<1> QED
  BY <1>3, <1>4 DEF ListCall

LEMMA LoadAnswered ==
    ASSUME TableInv, DOMAIN dsCall = CallFields, HandlerStep, LoadCall(dsCall, dsSeen)
    PROVE  LoadCall(dsCall', dsSeen')
<1>1. dsCall.rpc = "load" /\ dsCall.at \in {"sent", "done", "failed"}
  BY DEF LoadCall
<1>2. HandlesLoad
  BY <1>1 DEF HandlerStep, Sent, HandlesVersion, HandlesListModules, HandlesUnload, ListsNames, ListingReturns,
        AsksCommands, AsksStatus, AsksHealth, HandlesDispatch, DispatchFails, HandlesTailLogs,
        HandlesUpdate, DispatchReturns
<1>3. dsCall'.rpc = "load" /\ dsCall'.name = dsCall.name /\ dsCall'.at \in {"done", "failed"}
  BY <1>1, <1>2, RepliesAt DEF HandlesLoad
<1>4. ASSUME dsCall'.at = "done" PROVE dsCall.name \in dsSeen'
  <2>1. CASE dsCall.name \in Loaded
    BY <1>2, <2>1, HandlerTable DEF HandlesLoad, TableInv, HistoryInv
  <2>2. CASE dsCall.name \notin Loaded
    <3>1. dsCall.name \in Names /\ SetModule(dsCall.name, "running")
      BY <1>2, <1>4, <2>2, RepliesAt DEF HandlesLoad
    <3>2. [dsMods EXCEPT ![dsCall.name] = "running"][dsCall.name] = "running"
      BY <3>1 DEF TableInv, HistoryInv
    <3> QED
      BY <3>1, <3>2 DEF SetModule, TableBecomes
  <2> QED
    BY <2>1, <2>2
<1> QED
  BY <1>3, <1>4 DEF LoadCall

LEMMA UnloadAnswered ==
    ASSUME TableInv, DOMAIN dsCall = CallFields, HandlerStep, UnloadCall(dsCall, dsAlways)
    PROVE  UnloadCall(dsCall', dsAlways')
<1>1. dsCall.rpc = "unload" /\ dsCall.at \in {"sent", "done", "failed"}
  BY DEF UnloadCall
<1>2. HandlesUnload
  BY <1>1 DEF HandlerStep, Sent, HandlesVersion, HandlesListModules, HandlesLoad, ListsNames, ListingReturns,
        AsksCommands, AsksStatus, AsksHealth, HandlesDispatch, DispatchFails, HandlesTailLogs,
        HandlesUpdate, DispatchReturns
<1>3. dsCall'.rpc = "unload" /\ dsCall'.name = dsCall.name /\ dsCall'.at \in {"done", "failed"}
  BY <1>1, <1>2, RepliesAt DEF HandlesUnload
<1>4. dsCall.name \notin dsAlways'
  <2>1. CASE dsCall.name \notin Loaded
    BY <1>2, <2>1, HandlerTable DEF TableInv, HistoryInv
  <2>2. CASE dsCall.name \in Loaded
    <3>1. dsCall.name \in Names /\ SetModule(dsCall.name, "disabled")
      BY <1>2, <2>2 DEF HandlesUnload, Loaded
    <3>2. [dsMods EXCEPT ![dsCall.name] = "disabled"][dsCall.name] = "disabled"
      BY <3>1 DEF TableInv, HistoryInv
    <3> QED
      BY <3>1, <3>2 DEF SetModule, TableBecomes
  <2> QED
    BY <2>1, <2>2
<1> QED
  BY <1>3, <1>4 DEF UnloadCall

LEMMA DispatchAnswered ==
    ASSUME DOMAIN dsCall = CallFields, HandlerStep, DispatchCall(dsCall, dsRan)
    PROVE  DispatchCall(dsCall', dsRan')
<1>1. /\ dsCall.rpc = "dispatch" /\ dsCall.at \in {"sent", "running", "done", "failed"} /\ dsCall.code \in Int
      /\ dsCall.at = "sent" => dsRan = 0
      /\ dsCall.at = "running" => dsRan = 1
  BY DEF DispatchCall
<1>2. HandlesDispatch \/ DispatchFails \/ \E c \in ModuleCodes : DispatchReturns(c)
  BY <1>1 DEF HandlerStep, Sent, HandlesVersion, HandlesListModules, HandlesLoad, HandlesUnload, ListsNames,
        ListingReturns, AsksCommands, AsksStatus, AsksHealth, HandlesTailLogs, HandlesUpdate
<1>3. CASE HandlesDispatch
  <2>1. dsRan = 0 /\ dsCall'.rpc = "dispatch" /\ dsCall'.code = dsCall.code
    BY <1>1, <1>3, RepliesAt DEF HandlesDispatch, Sent
  <2>2. \/ dsCall'.at = "running" /\ dsRan' = dsRan + 1
        \/ dsCall'.at = "failed" /\ dsRan' = dsRan
    BY <1>3, RepliesAt DEF HandlesDispatch
  <2> QED
    BY <1>1, <2>1, <2>2 DEF DispatchCall
<1>4. CASE DispatchFails
  <2>1. dsCall'.at = "failed" /\ dsRan' = dsRan /\ dsCall'.rpc = "dispatch" /\ dsCall'.code = dsCall.code
    BY <1>1, <1>4, RepliesAt DEF DispatchFails
  <2> QED
    BY <1>1, <2>1 DEF DispatchCall
<1>5. ASSUME NEW c \in ModuleCodes, DispatchReturns(c) PROVE DispatchCall(dsCall', dsRan')
  <2>1. /\ dsCall.at = "running" /\ dsCall'.at = "done" /\ dsRan' = dsRan /\ dsCall'.rpc = "dispatch"
        /\ dsCall'.code = c
    BY <1>1, <1>5, RepliesCode DEF DispatchReturns
  <2>2. c \in Int
    BY DEF ModuleCodes
  <2> QED
    BY <1>1, <2>1, <2>2 DEF DispatchCall
<1> QED
  BY <1>2, <1>3, <1>4, <1>5

LEMMA OtherAnswered ==
    ASSUME DOMAIN dsCall = CallFields, HandlerStep, OtherCall(dsCall)
    PROVE  OtherCall(dsCall')
<1>1. dsCall.rpc \in {"version", "logs", "check", "apply"} /\ dsCall.at \in {"sent", "done", "failed"}
  BY DEF OtherCall
<1>2. HandlesVersion \/ HandlesTailLogs \/ HandlesUpdate
  BY <1>1 DEF HandlerStep, Sent, HandlesListModules, HandlesLoad, HandlesUnload, ListsNames, ListingReturns,
        AsksCommands, AsksStatus, AsksHealth, HandlesDispatch, DispatchFails, DispatchReturns
<1>3. dsCall'.rpc = dsCall.rpc /\ dsCall'.at \in {"done", "failed"}
  BY <1>2, RepliesAt, RepliesCode DEF HandlesVersion, HandlesTailLogs, HandlesUpdate
<1> QED
  BY <1>1, <1>3 DEF OtherCall

LEMMA StateAnswered ==
    ASSUME TableInv, DOMAIN dsCall = CallFields, HandlerStep, StateCall(dsCall, dsAlways, dsSeen)
    PROVE  StateCall(dsCall', dsAlways', dsSeen')
<1> DEFINE r == dsCall
<1>0. StatusCall(r, dsSeen) /\ HistoryInv
  BY DEF StateCall, TableInv
<1>s. StatusCall(dsCall', dsSeen')
  BY <1>0, StatusAnswered
<1>1. /\ r.rpc = "status" /\ r.got \subseteq dsSeen /\ r.at \in {"sent", "each", "done", "failed"}
      /\ r.at = "sent" => r.got = {} /\ r.half = Ghost
      /\ r.at = "each" => r.half = Ghost \/ r.half \in r.todo
      /\ r.name = AllModules /\ r.at = "each" => dsAlways \subseteq r.got \cup r.mute \cup r.todo
      /\ r.name # AllModules /\ r.at = "each" => r.todo \subseteq {r.name} /\ r.got \subseteq {r.name}
  BY DEF StateCall, StatusCall
<1>2. \/ ListsNames \/ ListingReturns
      \/ \E n \in Names \cup {Ghost} : AsksStatus(n)
      \/ \E n \in Names : AsksHealth(n)
  BY <1>1 DEF HandlerStep, Sent, HandlesVersion, HandlesListModules, HandlesLoad, HandlesUnload,
        AsksCommands, HandlesDispatch, DispatchFails, HandlesTailLogs, HandlesUpdate, DispatchReturns
<1>3. dsCall'.rpc = "status" /\ dsCall'.name = r.name /\ dsSeen' = dsSeen /\ dsAlways' = dsAlways
  BY <1>0, <1>1, <1>2, HandlerKeeps DEF ListsNames, ListingReturns, AsksStatus, AsksHealth, tableVars
<1>4. dsAlways \subseteq Loaded /\ Loaded \subseteq dsSeen
  BY <1>0 DEF HistoryInv
<1>5. CASE ListsNames
  <2>1. /\ r.at = "sent" /\ dsCall'.at = "each" /\ dsCall'.got = r.got /\ dsCall'.half = r.half
        /\ dsCall'.todo = IF r.name = AllModules THEN DOMAIN Listed ELSE {r.name}
    BY <1>5, RepliesNames DEF ListsNames
  <2>2. dsAlways \subseteq DOMAIN Listed
    BY <1>0, <1>4, ListedIsTrue
  <2> QED
    BY <1>s, <1>1, <1>3, <2>1, <2>2 DEF StateCall
<1>6. CASE ListingReturns
  <2>1. /\ r.at = "each" /\ r.todo = {} /\ dsCall'.got = r.got /\ dsCall'.half = r.half /\ dsCall'.mute = r.mute
        /\ dsCall'.at = IF r.name # AllModules /\ r.got = {} THEN "failed" ELSE "done"
    BY <1>6, RepliesAt DEF ListingReturns
  <2>2. r.half = Ghost /\ (r.name # AllModules /\ r.got # {} => r.name \in dsSeen)
    BY <1>1, <2>1
  <2> QED
    BY <1>s, <1>1, <1>3, <2>1, <2>2 DEF StateCall
<1>7. ASSUME NEW n \in Names \cup {Ghost}, AsksStatus(n) PROVE StateCall(dsCall', dsAlways', dsSeen')
  <2>0. r.at = "each" /\ n \in r.todo /\ r.half = Ghost
    BY <1>7 DEF AsksStatus
  <2>1. /\ dsCall'.at = "each" /\ dsCall'.got = r.got
        /\ \/ n \in Loaded /\ dsCall'.half = n /\ dsCall'.todo = r.todo /\ dsCall'.mute = r.mute
           \/ n \in Loaded /\ dsCall'.half = Ghost /\ dsCall'.todo = r.todo \ {n} /\ dsCall'.mute = r.mute \cup {n}
           \/ n \notin Loaded /\ dsCall'.half = Ghost /\ dsCall'.todo = r.todo \ {n} /\ dsCall'.mute = r.mute
    BY <1>7, <2>0, RepliesHalf, RepliesTodo, RepliesMute DEF AsksStatus, Skipped
  <2>2. r.name = AllModules => dsAlways \subseteq dsCall'.got \cup dsCall'.mute \cup dsCall'.todo
    BY <1>1, <1>4, <2>0, <2>1
  <2>3. r.name # AllModules => dsCall'.todo \subseteq {r.name} /\ dsCall'.got \subseteq {r.name}
    BY <1>1, <2>0, <2>1
  <2>4. dsCall'.half = Ghost \/ dsCall'.half \in dsCall'.todo
    BY <2>0, <2>1
  <2> QED
    BY <1>s, <1>3, <2>1, <2>2, <2>3, <2>4 DEF StateCall
<1>8. ASSUME NEW n \in Names, AsksHealth(n) PROVE StateCall(dsCall', dsAlways', dsSeen')
  <2>0. r.at = "each" /\ r.half = n /\ n # Ghost /\ n \in r.todo
    BY <1>1, <1>8, ServiceAssumption DEF AsksHealth
  <2>1. /\ dsCall'.at = "each" /\ dsCall'.half = Ghost /\ dsCall'.todo = r.todo \ {n} /\ dsCall'.mute = r.mute
        /\ \/ n \in Loaded /\ dsCall'.got = r.got \cup {n}
           \/ n \notin Loaded /\ dsCall'.got = r.got
    BY <1>8, <2>0, RepliesHealth, RepliesGone DEF AsksHealth, Skipped
  <2>2. r.name = AllModules => dsAlways \subseteq dsCall'.got \cup dsCall'.mute \cup dsCall'.todo
    BY <1>1, <1>4, <2>0, <2>1
  <2>3. r.name # AllModules => dsCall'.todo \subseteq {r.name} /\ dsCall'.got \subseteq {r.name}
    BY <1>1, <2>0, <2>1
  <2> QED
    BY <1>s, <1>3, <2>1, <2>2, <2>3 DEF StateCall
<1> QED
  BY <1>2, <1>5, <1>6, <1>7, <1>8

\* The daemon's side of an invocation.
LEMMA CallAnswered ==
    ASSUME TableInv, HandlerStep, CliCall(cl, dsCall, dsAlways, dsSeen, dsRan)
    PROVE  CliCall(cl, dsCall', dsAlways', dsSeen', dsRan')
<1>0. DOMAIN dsCall = CallFields /\ HistoryInv /\ dsCall.at \notin {"none", "done", "failed"}
  BY NoHandler DEF CliCall, TableInv
<1>1. DOMAIN dsCall' = CallFields /\ dsCall'.rpc = dsCall.rpc /\ dsCall'.name = dsCall.name
  BY <1>0, HandlerKeeps
<1>2. cl.at \notin {"idle", "dial", "parse", "confirm", "done", "stream"}
  BY <1>0 DEF CliCall
<1>3. CASE cl.at = "discover"
  <2>1. CommandsCall(dsCall, dsAlways, dsSeen) /\ dsRan = 0
    BY <1>3 DEF CliCall
  <2>2. CommandsCall(dsCall', dsAlways', dsSeen') /\ dsCall.rpc = "commands"
    BY <1>0, <2>1, CommandsAnswered DEF CommandsCall
  <2>3. dsRan' = 0
    BY <2>1, <2>2, RanByDispatch
  <2> QED
    BY <1>1, <1>3, <2>2, <2>3 DEF CliCall
<1>4. CASE cl.at = "call"
  <2>1. dsCall.name = cl.name /\ VerbCall(cl.verb, dsCall, dsAlways, dsSeen, dsRan)
    BY <1>4 DEF CliCall
  <2>2. VerbCall(cl.verb, dsCall', dsAlways', dsSeen', dsRan')
    BY <1>0, <2>1, ListAnswered, LoadAnswered, UnloadAnswered, StateAnswered, DispatchAnswered, OtherAnswered
       DEF VerbCall
  <2> QED
    BY <1>1, <1>4, <2>1, <2>2 DEF CliCall
<1>5. CASE cl.at = "apply"
  BY <1>0, <1>1, <1>5, OtherAnswered DEF CliCall
<1>6. CASE cl.at \notin {"discover", "call", "apply"}
  BY <1>1, <1>2, <1>6 DEF CliCall
<1> QED
  BY <1>3, <1>4, <1>5, <1>6

\* A call that its daemon left behind.
LEMMA CallFailed ==
    ASSUME CliCall(cl, dsCall, dsAlways, dsSeen, dsRan), DaemonStops
    PROVE  CliCall(cl, dsCall', dsAlways, dsSeen, dsRan)
<1>0. DOMAIN dsCall = CallFields
  BY DEF CliCall
<1>1. CASE dsCall.at = "none"
  <2>1. dsCall' = NoRpc /\ DOMAIN dsCall' = CallFields /\ dsCall'.at = "none"
    BY <1>1, NoRpcFields DEF DaemonStops
  <2>2. cl.at \notin {"discover", "call", "stream", "apply"}
    <3>1. cl.at # "call"
      BY <1>1 DEF CliCall, VerbCall, ListCall, LoadCall, UnloadCall, StateCall, StatusCall, DispatchCall, OtherCall
    <3> QED
      BY <1>1, <3>1 DEF CliCall, CommandsCall, OtherCall
  <2> QED
    BY <2>1, <2>2 DEF CliCall
<1>2. CASE dsCall.at # "none"
  <2>1. /\ DOMAIN dsCall' = CallFields /\ dsCall'.at = "failed" /\ dsCall'.rpc = dsCall.rpc
        /\ dsCall'.name = dsCall.name /\ dsCall'.got = dsCall.got /\ dsCall'.code = dsCall.code
    BY <1>0, <1>2 DEF DaemonStops, CallFields
  <2>2. VerbCall(cl.verb, dsCall, dsAlways, dsSeen, dsRan) => VerbCall(cl.verb, dsCall', dsAlways, dsSeen, dsRan)
    BY <2>1 DEF VerbCall, ListCall, LoadCall, UnloadCall, StateCall, StatusCall, DispatchCall, OtherCall
  <2>3. CommandsCall(dsCall, dsAlways, dsSeen) => CommandsCall(dsCall', dsAlways, dsSeen)
    BY <2>1 DEF CommandsCall
  <2> QED
    BY <1>2, <2>1, <2>2, <2>3 DEF CliCall, OtherCall
<1> QED
  BY <1>1, <1>2

LEMMA DaemonSide ==
    ASSUME TableInv, VerbInv, ServiceApiStep, cl' = cl
    PROVE  TableInv' /\ VerbInv'
<1>0. /\ CliShape(cl) /\ CliCall(cl, dsCall, dsAlways, dsSeen, dsRan)
      /\ TreeTrue(cl, dsAlways, dsSeen) /\ OutcomeTrue(cl, dsAlways, dsSeen, dsRan)
  BY DEF VerbInv
<1>1. TableInv' /\ dsAlways' \subseteq dsAlways /\ dsSeen \subseteq dsSeen'
  BY ServiceTable
<1>2. TreeTrue(cl, dsAlways', dsSeen')
  BY <1>0, <1>1, VerbEarlier
<1>3. CASE HandlerStep
  <2>1. CliCall(cl, dsCall', dsAlways', dsSeen', dsRan')
    BY <1>0, <1>3, CallAnswered
  <2>2. cl.at # "done"
    BY <1>0, <1>3, NoHandler DEF CliCall
  <2>3. OutcomeTrue(cl, dsAlways', dsSeen', dsRan')
    BY <2>2 DEF OutcomeTrue
  <2> QED
    BY <1>0, <1>1, <1>2, <2>1, <2>3 DEF VerbInv
<1>4. CASE DaemonStops
  <2>1. dsRan' = dsRan /\ CliCall(cl, dsCall', dsAlways, dsSeen, dsRan)
    BY <1>0, <1>4, CallFailed DEF DaemonStops
  <2>2. CliCall(cl, dsCall', dsAlways', dsSeen', dsRan) /\ OutcomeTrue(cl, dsAlways', dsSeen', dsRan)
    BY <1>0, <1>1, <2>1, VerbEarlier
  <2> QED
    BY <1>0, <1>1, <1>2, <2>1, <2>2 DEF VerbInv
<1>5. CASE \/ \E n \in Names, s \in {"disabled", "running"} : OthersChange(n, s)
           \/ \E enabled \in {{}, Builtin} : DaemonStarts(enabled)
  <2>1. dsRan' = dsRan /\ dsCall' = dsCall
    BY <1>5 DEF OthersChange, DaemonStarts
  <2>2. CliCall(cl, dsCall, dsAlways', dsSeen', dsRan) /\ OutcomeTrue(cl, dsAlways', dsSeen', dsRan)
    BY <1>0, <1>1, VerbEarlier
  <2> QED
    BY <1>0, <1>1, <1>2, <2>1, <2>2 DEF VerbInv
<1> QED
  BY <1>3, <1>4, <1>5 DEF ServiceApiStep

\* A step of pdcli that leaves the table alone.
LEMMA CliMoves ==
    ASSUME TableInv, UNCHANGED <<dsMods, dsSeen, dsAlways>>, dsRan' = dsRan,
           CliShape(cl'), CliCall(cl', dsCall', dsAlways, dsSeen, dsRan),
           TreeTrue(cl', dsAlways, dsSeen), OutcomeTrue(cl', dsAlways, dsSeen, dsRan)
    PROVE  TableInv' /\ VerbInv'
BY TableSame DEF VerbInv

LEMMA NotRunFields ==
    /\ DOMAIN NotRun = CliFields /\ NotRun.at = "idle" /\ NotRun.exit = 0 /\ NotRun.code = 0
    /\ NotRun.tree = {} /\ NotRun.shown = {} /\ NotRun.found = FALSE
BY DEF NotRun, CliFields

LEMMA InvokeStep ==
    ASSUME TableInv, VerbInv, NEW verb \in StaticVerbs \cup {"flag", "none", "dispatch"}, NEW name, NEW yes,
           Invoke(verb, name, yes)
    PROVE  TableInv' /\ VerbInv'
<1>1. TableInv' /\ dsRan' = 0 /\ dsCall' = dsCall /\ dsCall = NoRpc
  BY TableWatched DEF Invoke, Watched
<1>2. /\ DOMAIN cl' = CliFields /\ cl'.at = (IF verb = "flag" THEN "done" ELSE "dial")
      /\ cl'.verb = (IF verb = "dispatch" /\ name \in StaticVerbs THEN name ELSE verb)
      /\ cl'.exit = 0 /\ cl'.code = 0 /\ cl'.tree = {} /\ cl'.shown = {} /\ cl'.found = FALSE
  BY NotRunFields DEF Invoke, CliFields
<1>3. CliShape(cl')
  BY <1>2 DEF CliShape
<1>4. CliCall(cl', dsCall', dsAlways', dsSeen', dsRan')
  BY <1>1, <1>2, NoRpcFields DEF CliCall
<1>5. TreeTrue(cl', dsAlways', dsSeen') /\ OutcomeTrue(cl', dsAlways', dsSeen', dsRan')
  BY <1>2 DEF TreeTrue, OutcomeTrue
<1> QED
  BY <1>1, <1>3, <1>4, <1>5 DEF VerbInv

\* Places at which nothing is awaited.
LEMMA NothingAwaited ==
    ASSUME NEW c, c.at \in {"parse", "confirm", "done"}, NEW always, NEW seen, NEW ran, c.at = "parse" => ran = 0
    PROVE  CliCall(c, NoRpc, always, seen, ran)
BY NoRpcFields DEF CliCall

LEMMA CliLooksStep ==
    ASSUME TableInv, VerbInv, Dial \/ Discovered \/ NotDiscovered
    PROVE  TableInv' /\ VerbInv'
<1>0. /\ CliShape(cl) /\ CliCall(cl, dsCall, dsAlways, dsSeen, dsRan) /\ DOMAIN cl = CliFields
      /\ UNCHANGED <<dsMods, dsSeen, dsAlways>> /\ dsRan' = dsRan /\ dsRan = 0
  BY DEF VerbInv, CliShape, CliCall, Dial, Discovered, NotDiscovered, KeepTable, tableVars
<1>1. CASE (Dial /\ dsCall' = dsCall /\ Goes("parse")) \/ NotDiscovered
  <2>0. cl.at \in {"dial", "discover"} /\ cl' = [cl EXCEPT !.at = "parse"]
    BY <1>1 DEF Dial, NotDiscovered, Goes
  <2>1. /\ DOMAIN cl' = CliFields /\ cl'.at = "parse" /\ cl'.found = FALSE /\ cl'.exit = cl.exit
        /\ cl'.code = cl.code /\ cl'.tree = cl.tree /\ cl'.shown = cl.shown
    BY <1>0, <2>0 DEF CliShape, CliFields
  <2>2. dsCall'.at = "none" /\ DOMAIN dsCall' = CallFields
    BY <1>0, <1>1, NoRpcFields DEF CliCall, Dial, NotDiscovered, HangUp
  <2>3. CliShape(cl')
    BY <1>0, <2>1 DEF CliShape
  <2>4. CliCall(cl', dsCall', dsAlways, dsSeen, dsRan)
    BY <1>0, <2>1, <2>2 DEF CliCall
  <2>5. TreeTrue(cl', dsAlways, dsSeen) /\ OutcomeTrue(cl', dsAlways, dsSeen, dsRan)
    BY <2>1 DEF TreeTrue, OutcomeTrue
  <2> QED
    BY <1>0, <2>3, <2>4, <2>5, CliMoves
<1>2. CASE /\ Dial /\ cl' = [cl EXCEPT !.at = "discover", !.client = TRUE] /\ Request("commands", AllModules)
  <2>1. /\ DOMAIN cl' = CliFields /\ cl'.at = "discover" /\ cl'.found = FALSE /\ cl'.exit = cl.exit
        /\ cl'.code = cl.code /\ cl'.tree = cl.tree /\ cl'.shown = cl.shown
    BY <1>0, <1>2 DEF CliShape, CliFields, Dial
  <2>2. /\ DOMAIN dsCall' = CallFields /\ dsCall'.rpc = "commands" /\ dsCall'.name = AllModules
        /\ dsCall'.at \in {"sent", "failed"} /\ dsCall'.got = {}
    BY <1>2, RequestFields
  <2>3. CliShape(cl')
    BY <1>0, <2>1 DEF CliShape
  <2>4. CliCall(cl', dsCall', dsAlways, dsSeen, dsRan)
    BY <1>0, <2>1, <2>2 DEF CliCall, CommandsCall
  <2>5. TreeTrue(cl', dsAlways, dsSeen) /\ OutcomeTrue(cl', dsAlways, dsSeen, dsRan)
    BY <2>1 DEF TreeTrue, OutcomeTrue
  <2> QED
    BY <1>0, <2>3, <2>4, <2>5, CliMoves
<1>3. CASE Discovered
  <2>1. /\ DOMAIN cl' = CliFields /\ cl'.at = "parse" /\ cl'.found = TRUE /\ cl'.exit = cl.exit
        /\ cl'.code = cl.code /\ cl'.tree = Grafted(dsCall.got) /\ cl'.shown = cl.shown
    BY <1>0, <1>3 DEF CliFields, Discovered
  <2>2. /\ CommandsCall(dsCall, dsAlways, dsSeen) /\ dsCall.at = "done" /\ dsCall' = NoRpc
    BY <1>0, <1>3 DEF CliCall, Discovered, Answered, HangUp
  <2>3. dsCall.got \subseteq dsSeen /\ dsAlways \subseteq dsCall.got /\ dsSeen \subseteq Names
    BY <2>2 DEF CommandsCall, TableInv
  <2>4. CliShape(cl')
    BY <1>0, <2>1, <2>3 DEF CliShape, Grafted
  <2>5. CliCall(cl', dsCall', dsAlways, dsSeen, dsRan)
    BY <1>0, <2>1, <2>2, NothingAwaited
  <2>6. TreeTrue(cl', dsAlways, dsSeen) /\ OutcomeTrue(cl', dsAlways, dsSeen, dsRan)
    BY <2>1, <2>3 DEF TreeTrue, OutcomeTrue, Grafted
  <2> QED
    BY <1>0, <2>4, <2>5, <2>6, CliMoves
<1> QED
  BY <1>1, <1>2, <1>3 DEF Dial

\* An exit.
LEMMA ExitsStep ==
    ASSUME TableInv, VerbInv, NEW code \in 0..255, Exits(code), UNCHANGED <<dsMods, dsSeen, dsAlways>>, dsRan' = dsRan,
           dsCall' = NoRpc \/ (dsCall' = dsCall /\ dsCall.at = "none"),
           code = 0 /\ cl.verb \in {"load", "unload", "status", "modules", "dispatch"} =>
               cl.verb = "dispatch" /\ dsRan = 1 /\ cl.code <= 0
    PROVE  TableInv' /\ VerbInv'
<1>0. CliShape(cl) /\ DOMAIN cl = CliFields /\ DOMAIN dsCall = CallFields
  BY DEF VerbInv, CliShape, CliCall
<1>1. /\ DOMAIN cl' = CliFields /\ cl'.at = "done" /\ cl'.exit = code /\ cl'.verb = cl.verb
      /\ cl'.code = cl.code /\ cl'.tree = cl.tree /\ cl'.shown = cl.shown
  BY <1>0 DEF Exits, CliFields
<1>2. CliShape(cl')
  BY <1>0, <1>1 DEF CliShape
<1>3. DOMAIN dsCall' = CallFields /\ dsCall'.at = "none"
  BY <1>0, NoRpcFields
<1>4. CliCall(cl', dsCall', dsAlways, dsSeen, dsRan)
  BY <1>1, <1>3 DEF CliCall
<1>5. TreeTrue(cl', dsAlways, dsSeen) /\ OutcomeTrue(cl', dsAlways, dsSeen, dsRan)
  BY <1>1 DEF TreeTrue, OutcomeTrue
<1> QED
  BY <1>2, <1>4, <1>5, CliMoves

LEMMA EarlyExitStep ==
    ASSUME TableInv, VerbInv, ParseEnds \/ RefusedHere \/ NotReached
    PROVE  TableInv' /\ VerbInv'
<1>1. /\ UNCHANGED <<dsMods, dsSeen, dsAlways>> /\ dsRan' = dsRan /\ dsCall' = dsCall
  BY DEF ParseEnds, RefusedHere, NotReached, KeepService, serviceApiVars
<1>2. dsCall.at = "none"
  BY DEF VerbInv, CliCall, ParseEnds, RefusedHere, NotReached, Parsed
<1>3. \/ cl.verb = "none" /\ Exits(0)
      \/ Exits(1) \/ Exits(2)
  BY DEF ParseEnds, RefusedHere, NotReached
<1> QED
  BY <1>1, <1>2, <1>3, ExitsStep

LEMMA CallsStep ==
    ASSUME TableInv, VerbInv, Calls
    PROVE  TableInv' /\ VerbInv'
<1>0. /\ CliShape(cl) /\ DOMAIN cl = CliFields /\ dsRan = 0
      /\ UNCHANGED <<dsMods, dsSeen, dsAlways>> /\ dsRan' = dsRan
      /\ cl.verb \in StaticVerbs \cup {"dispatch"}
  BY DEF VerbInv, CliShape, CliCall, Calls, Parsed, KeepTable, tableVars
<1>1. /\ DOMAIN cl' = CliFields /\ cl'.at = "call" /\ cl'.exit = cl.exit /\ cl'.verb = cl.verb /\ cl'.name = cl.name
      /\ cl'.code = cl.code /\ cl'.tree = cl.tree /\ cl'.shown = cl.shown
  BY <1>0 DEF Calls, Goes, CliFields
<1>2. /\ DOMAIN dsCall' = CallFields /\ dsCall'.rpc = (IF cl.verb = "update" THEN "check" ELSE cl.verb)
      /\ dsCall'.name = cl.name /\ dsCall'.at \in {"sent", "failed"} /\ dsCall'.got = {}
      /\ dsCall'.half = Ghost /\ dsCall'.code = 0
  BY RequestFields DEF Calls
<1>3. CliShape(cl')
  BY <1>0, <1>1 DEF CliShape
<1>4. VerbCall(cl.verb, dsCall', dsAlways, dsSeen, dsRan)
  BY <1>0, <1>2 DEF VerbCall, ListCall, LoadCall, UnloadCall, StateCall, StatusCall, DispatchCall, OtherCall, StaticVerbs
<1>5. CliCall(cl', dsCall', dsAlways, dsSeen, dsRan)
  BY <1>1, <1>2, <1>4 DEF CliCall
<1>6. TreeTrue(cl', dsAlways, dsSeen) /\ OutcomeTrue(cl', dsAlways, dsSeen, dsRan)
  BY <1>1 DEF TreeTrue, OutcomeTrue
<1> QED
  BY <1>0, <1>3, <1>5, <1>6, CliMoves

LEMMA ToldStep ==
    ASSUME TableInv, VerbInv, NEW verb, NEW shown, NEW mute, Told(verb, shown, mute), shown \subseteq Names,
           verb = "modules" => shown = DOMAIN dsCall.rows,
           verb = "status" => shown = dsCall.got /\ mute = dsCall.mute,
           verb # "dispatch"
    PROVE  TableInv' /\ VerbInv'
<1>0. /\ CliShape(cl) /\ DOMAIN cl = CliFields /\ cl.verb = verb /\ dsCall.at = "done"
      /\ UNCHANGED <<dsMods, dsSeen, dsAlways>> /\ dsRan' = dsRan /\ dsCall' = NoRpc
      /\ dsCall.name = cl.name /\ VerbCall(verb, dsCall, dsAlways, dsSeen, dsRan)
  BY DEF VerbInv, CliShape, CliCall, Told, Answered, HangUp, KeepTable, tableVars
<1>1. /\ DOMAIN cl' = CliFields /\ cl'.at = "done" /\ cl'.exit = 0 /\ cl'.verb = verb /\ cl'.name = cl.name
      /\ cl'.code = cl.code /\ cl'.tree = cl.tree /\ cl'.shown = shown /\ cl'.mute = mute
  BY <1>0 DEF Told, CliFields
<1>2. CliShape(cl')
  BY <1>0, <1>1 DEF CliShape
<1>3. CliCall(cl', dsCall', dsAlways, dsSeen, dsRan)
  BY <1>0, <1>1, NothingAwaited
<1>4. OutcomeTrue(cl', dsAlways, dsSeen, dsRan)
  BY <1>0, <1>1 DEF OutcomeTrue, VerbCall, ListCall, LoadCall, UnloadCall, StateCall, StatusCall
<1>5. TreeTrue(cl', dsAlways, dsSeen)
  BY <1>1 DEF TreeTrue
<1> QED
  BY <1>0, <1>2, <1>3, <1>4, <1>5, CliMoves

LEMMA AnswersStep ==
    ASSUME TableInv, VerbInv, VersionTold \/ ModulesShown \/ LoadTold \/ UnloadTold \/ StatusShown
    PROVE  TableInv' /\ VerbInv'
<1>1. CASE VersionTold
  BY <1>1, ToldStep DEF VersionTold
<1>2. CASE LoadTold
  BY <1>2, ToldStep DEF LoadTold
<1>3. CASE UnloadTold
  BY <1>3, ToldStep DEF UnloadTold
<1>4. CASE ModulesShown
  <2>1. DOMAIN dsCall.rows \subseteq Names
    BY <1>4 DEF ModulesShown, Told, Answered, VerbInv, CliCall, VerbCall, ListCall
  <2> QED
    BY <1>4, <2>1, ToldStep DEF ModulesShown
<1>5. CASE StatusShown
  <2>1. dsCall.got \subseteq Names
    BY <1>5 DEF StatusShown, Told, VerbInv, CliCall, VerbCall, StateCall, StatusCall, TableInv
  <2> QED
    BY <1>5, <2>1, ToldStep DEF StatusShown
<1> QED
  BY <1>1, <1>2, <1>3, <1>4, <1>5

LEMMA CodeInByte ==
    ASSUME NEW code \in Int
    PROVE  ExitCodeFrom(code) \in 0..255 /\ (ExitCodeFrom(code) = 0 => code <= 0)
BY DEF ExitCodeFrom

LEMMA VerbEndsStep ==
    ASSUME TableInv, VerbInv, VerbFails \/ LogsEnd \/ ChunkArrives \/ StreamEnds
    PROVE  TableInv' /\ VerbInv'
<1>0. CliShape(cl) /\ CliCall(cl, dsCall, dsAlways, dsSeen, dsRan) /\ DOMAIN cl = CliFields
  BY DEF VerbInv, CliShape
<1>1. CASE VerbFails
  <2>1. Exits(1) /\ UNCHANGED <<dsMods, dsSeen, dsAlways>> /\ dsRan' = dsRan /\ dsCall' = NoRpc
    BY <1>1 DEF VerbFails, HangUp, KeepTable, tableVars
  <2> QED
    BY <2>1, ExitsStep
<1>2. CASE LogsEnd
  <2>1. Exits(0) /\ UNCHANGED <<dsMods, dsSeen, dsAlways>> /\ dsRan' = dsRan /\ dsCall' = NoRpc /\ cl.verb = "logs"
    BY <1>2 DEF LogsEnd, HangUp, KeepTable, tableVars
  <2> QED
    BY <2>1, ExitsStep
<1>3. CASE StreamEnds
  <2>1. /\ Exits(ExitCodeFrom(cl.code)) /\ UNCHANGED <<dsMods, dsSeen, dsAlways>> /\ dsRan' = dsRan /\ dsCall' = NoRpc
        /\ cl.at = "stream"
    BY <1>3 DEF StreamEnds, HangUp, KeepTable, tableVars
  <2>2. cl.verb = "dispatch" /\ dsRan = 1 /\ cl.code \in Int
    BY <1>0, <2>1 DEF CliCall, CliShape
  <2>3. ExitCodeFrom(cl.code) \in 0..255 /\ (ExitCodeFrom(cl.code) = 0 => cl.code <= 0)
    BY <2>2, CodeInByte
  <2> QED
    BY <2>1, <2>2, <2>3, ExitsStep
<1>4. CASE ChunkArrives
  <2>1. /\ UNCHANGED <<dsMods, dsSeen, dsAlways>> /\ dsRan' = dsRan /\ dsCall' = dsCall
        /\ cl.at = "call" /\ cl.verb = "dispatch" /\ dsCall.at = "done"
    BY <1>4 DEF ChunkArrives, Answered, KeepService, serviceApiVars
  <2>2. DispatchCall(dsCall, dsRan) /\ DOMAIN dsCall = CallFields
    BY <1>0, <2>1 DEF CliCall, VerbCall
  <2>3. /\ DOMAIN cl' = CliFields /\ cl'.at = "stream" /\ cl'.exit = cl.exit /\ cl'.verb = cl.verb
        /\ cl'.code = dsCall.code /\ cl'.tree = cl.tree /\ cl'.shown = cl.shown
    BY <1>0, <1>4 DEF ChunkArrives, CliFields
  <2>4. dsRan = 1 /\ dsCall.rpc = "dispatch" /\ dsCall.code \in Int
    BY <2>1, <2>2 DEF DispatchCall
  <2>5. CliShape(cl')
    BY <1>0, <2>3, <2>4 DEF CliShape
  <2>6. CliCall(cl', dsCall', dsAlways, dsSeen, dsRan)
    BY <2>1, <2>2, <2>3, <2>4 DEF CliCall
  <2>7. TreeTrue(cl', dsAlways, dsSeen) /\ OutcomeTrue(cl', dsAlways, dsSeen, dsRan)
    BY <2>3 DEF TreeTrue, OutcomeTrue
  <2> QED
    BY <2>1, <2>5, <2>6, <2>7, CliMoves
<1> QED
  BY <1>1, <1>2, <1>3, <1>4

\* An apply is asked for.
LEMMA AppliesStep ==
    ASSUME TableInv, VerbInv, UNCHANGED <<dsMods, dsSeen, dsAlways>>, dsRan' = dsRan, Request("apply", AllModules),
           NEW asked, cl.yes \/ asked, cl.verb = "update", cl' = [cl EXCEPT !.at = "apply", !.asked = asked]
    PROVE  TableInv' /\ VerbInv'
<1>0. CliShape(cl) /\ DOMAIN cl = CliFields
  BY DEF VerbInv, CliShape
<1>1. /\ DOMAIN cl' = CliFields /\ cl'.at = "apply" /\ cl'.exit = cl.exit /\ cl'.yes = cl.yes /\ cl'.asked = asked
      /\ cl'.verb = "update"
      /\ cl'.code = cl.code /\ cl'.tree = cl.tree /\ cl'.shown = cl.shown
  BY <1>0 DEF CliFields
<1>2. DOMAIN dsCall' = CallFields /\ dsCall'.rpc = "apply" /\ dsCall'.at \in {"sent", "failed"}
  BY RequestFields
<1>3. CliShape(cl')
  BY <1>0, <1>1 DEF CliShape
<1>4. CliCall(cl', dsCall', dsAlways, dsSeen, dsRan)
  BY <1>1, <1>2 DEF CliCall, OtherCall
<1>5. TreeTrue(cl', dsAlways, dsSeen) /\ OutcomeTrue(cl', dsAlways, dsSeen, dsRan)
  BY <1>1 DEF TreeTrue, OutcomeTrue
<1> QED
  BY <1>3, <1>4, <1>5, CliMoves

LEMMA UpdateStep ==
    ASSUME TableInv, VerbInv, UpdateChecked \/ UpdateApplied \/ \E agrees \in BOOLEAN : Confirmed(agrees)
    PROVE  TableInv' /\ VerbInv'
<1>0. /\ CliShape(cl) /\ CliCall(cl, dsCall, dsAlways, dsSeen, dsRan) /\ DOMAIN cl = CliFields
      /\ UNCHANGED <<dsMods, dsSeen, dsAlways>> /\ dsRan' = dsRan
  BY DEF VerbInv, CliShape, UpdateChecked, UpdateApplied, Confirmed, KeepTable, tableVars
<1>1. cl.verb = "update"
  BY <1>0 DEF CliShape, UpdateChecked, UpdateApplied, Confirmed
<1>2. CASE Exits(0) /\ (HangUp \/ (cl.at = "confirm" /\ dsCall' = dsCall))
  <2>1. dsCall' = NoRpc \/ (dsCall' = dsCall /\ dsCall.at = "none")
    BY <1>0, <1>2 DEF HangUp, CliCall
  <2> QED
    BY <1>0, <1>1, <1>2, <2>1, ExitsStep
<1>3. CASE Goes("confirm") /\ HangUp
  <2>1. /\ DOMAIN cl' = CliFields /\ cl'.at = "confirm" /\ cl'.exit = cl.exit /\ cl'.verb = "update"
        /\ cl'.code = cl.code /\ cl'.tree = cl.tree /\ cl'.shown = cl.shown
    BY <1>0, <1>1, <1>3 DEF Goes, CliFields
  <2>2. CliShape(cl')
    BY <1>0, <2>1 DEF CliShape
  <2>3. CliCall(cl', dsCall', dsAlways, dsSeen, dsRan)
    BY <1>3, <2>1, NothingAwaited DEF HangUp
  <2>4. TreeTrue(cl', dsAlways, dsSeen) /\ OutcomeTrue(cl', dsAlways, dsSeen, dsRan)
    BY <2>1 DEF TreeTrue, OutcomeTrue
  <2> QED
    BY <1>0, <2>2, <2>3, <2>4, CliMoves
<1>4. CASE Goes("apply") /\ cl.yes /\ Request("apply", AllModules)
  <2>1. cl' = [cl EXCEPT !.at = "apply", !.asked = cl.asked]
    BY <1>0, <1>4 DEF Goes, CliFields
  <2> QED
    BY <1>0, <1>1, <1>4, <2>1, AppliesStep
<1>5. CASE cl' = [cl EXCEPT !.at = "apply", !.asked = TRUE] /\ Request("apply", AllModules)
  BY <1>0, <1>1, <1>5, AppliesStep
<1>6. CASE UpdateChecked
  <2>1. DecideUpdate(dsCall.code = 1, cl.yes) = "apply" => cl.yes
    BY DEF DecideUpdate
  <2> QED
    BY <1>2, <1>3, <1>4, <1>6, <2>1 DEF UpdateChecked
<1>7. CASE UpdateApplied
  BY <1>2, <1>7 DEF UpdateApplied
<1>8. ASSUME NEW agrees \in BOOLEAN, Confirmed(agrees) PROVE TableInv' /\ VerbInv'
  BY <1>2, <1>5, <1>8 DEF Confirmed
<1> QED
  BY <1>6, <1>7, <1>8

LEMMA VerbStep ==
    ASSUME TableInv, VerbInv, CliNext \/ UNCHANGED <<cliVars, serviceApiVars>>
    PROVE  TableInv' /\ VerbInv'
<1>1. CASE UNCHANGED <<cliVars, serviceApiVars>>
  <2>1. cl' = cl /\ dsCall' = dsCall /\ UNCHANGED <<dsMods, dsSeen, dsAlways>> /\ dsRan' = dsRan
    BY <1>1 DEF cliVars, serviceApiVars
  <2> QED
    BY <2>1, CliMoves DEF VerbInv
<1>2. CASE CliStep
  BY <1>2, CliLooksStep, EarlyExitStep, CallsStep, AnswersStep, VerbEndsStep, UpdateStep DEF CliStep
<1>3. CASE ServiceApiStep /\ UNCHANGED cliVars
  BY <1>3, DaemonSide DEF cliVars
<1>4. ASSUME NEW verb \in StaticVerbs \cup {"flag", "none", "dispatch"}, NEW name, NEW yes, Invoke(verb, name, yes)
      PROVE  TableInv' /\ VerbInv'
  BY <1>4, InvokeStep
<1>5. {"flag", "none", "version", "modules", "logs", "load", "unload", "dispatch", "status", "update"}
          \subseteq StaticVerbs \cup {"flag", "none", "dispatch"}
  BY DEF StaticVerbs
<1> QED
  BY <1>1, <1>2, <1>3, <1>4, <1>5 DEF CliNext

LEMMA TrayKeepsTable ==
    ASSUME TableInv, TrayMenuNext
    PROVE  TableInv'
<1>1. \/ ServiceApiStep \/ Watched \/ UNCHANGED tableVars \/ UNCHANGED serviceApiVars
  BY DEF TrayMenuNext, TrayLoopStep, Connects, Render, SnapshotGoesOn, MenuBuilt, UnreachableBuilt, MenuSent,
         ActionTaken, ActionEnds, MenuArrives, ClickArrives, UserClicks
<1>2. UNCHANGED tableVars \/ UNCHANGED serviceApiVars => UNCHANGED <<dsMods, dsSeen, dsAlways>>
  BY DEF tableVars, serviceApiVars
<1> QED
  BY <1>1, <1>2, ServiceTable, TableWatched, TableSame

LEMMA CliStart ==
    ASSUME MCInit
    PROVE  CliInv
<1>1. cl = NotRun /\ ServiceApiInit
  BY DEF MCInit, CliInit
<1>2. TableInv /\ dsCall = NoRpc
  BY <1>1 DEF ServiceApiInit, TableInv, HistoryInv, Loaded
<1>3. CliShape(NotRun)
  BY NotRunFields DEF CliShape
<1>4. CliCall(NotRun, NoRpc, dsAlways, dsSeen, dsRan)
  BY NotRunFields, NoRpcFields DEF CliCall
<1>5. TreeTrue(NotRun, dsAlways, dsSeen) /\ OutcomeTrue(NotRun, dsAlways, dsSeen, dsRan)
  BY NotRunFields DEF TreeTrue, OutcomeTrue
<1> QED
  BY <1>1, <1>2, <1>3, <1>4, <1>5 DEF CliInv, VerbInv

LEMMA CliKept ==
    ASSUME CliInv, [MCNext]_MCVars
    PROVE  CliInv'
<1>1. part' = part /\ TableInv
  BY DEF MCNext, MCVars, CliInv
<1>2. CASE part = "cli"
  <2>1. CliNext \/ UNCHANGED <<cliVars, serviceApiVars>>
    BY <1>2 DEF MCNext, MCVars, menuPart
  <2> QED
    BY <1>1, <1>2, <2>1, VerbStep DEF CliInv
<1>3. CASE part # "cli"
  <2>1. cl' = cl
    BY <1>3 DEF MCNext, MCVars, cliVars
  <2>2. TrayMenuNext \/ UNCHANGED serviceApiVars
    BY <1>3 DEF MCNext, MCVars, menuPart
  <2>3. TableInv'
    BY <1>1, <2>2, TrayKeepsTable, TableSame DEF serviceApiVars
  <2> QED
    BY <1>1, <1>3, <2>1, <2>3 DEF CliInv
<1> QED
  BY <1>2, <1>3

LEMMA CliInvTells ==
    ASSUME CliInv
    PROVE  CliTypeOK /\ ExitTellsOutcome /\ ListingsAreCurrent
<1>1. /\ CliShape(cl) /\ TreeTrue(cl, dsAlways, dsSeen) /\ OutcomeTrue(cl, dsAlways, dsSeen, dsRan)
  <2>1. CASE part = "cli"
    BY <2>1 DEF CliInv, VerbInv
  <2>2. CASE part # "cli"
    BY <2>2, NotRunFields DEF CliInv, CliShape, TreeTrue, OutcomeTrue
  <2> QED
    BY <2>1, <2>2
<1>2. CliTypeOK
  BY <1>1 DEF CliTypeOK, CliShape, CliInv, TableInv, HistoryInv
<1>3. ExitTellsOutcome
  BY <1>1 DEF ExitTellsOutcome, OutcomeTrue
<1>4. ListingsAreCurrent
  BY <1>1 DEF ListingsAreCurrent, OutcomeTrue, TreeTrue
<1> QED
  BY <1>2, <1>3, <1>4

-----------------------------------------------------------------------------
LEMMA LineStart ==
    ASSUME MCInit
    PROVE  LineInv
<1>1. LineInit \/ ln = [at |-> "rejected"]
  BY DEF MCInit
<1>2. CASE ln = [at |-> "rejected"]
  BY <1>2 DEF LineInv
<1> QED
  BY <1>1, <1>2, LineBegins

LEMMA LineKept ==
    ASSUME LineInv, [MCNext]_MCVars
    PROVE  LineInv'
<1>1. LineNext \/ UNCHANGED lineVars
  BY DEF MCNext, MCVars
<1> QED
  BY <1>1, LineStep

\* pdcli (penguin-cli-core, pdcli, and service.rs as it answers), for any modules, any
\* length of a command line and any changes of the table while a command runs: an exit
\* code of 0 tells what the daemon did, what is listed was so at one moment of the call
\* per module, the socket that is dialled before there is a command tree is the one
\* that the words name once there is, a module gets a number of arguments that it
\* declared, and the code is that of the last final chunk.
THEOREM CommandLineTruthful == MCSpec => []CommandLineIsTruthful
<1>1. MCInit => CliInv /\ LineInv
  BY CliStart, LineStart
<1>2. CliInv /\ LineInv /\ [MCNext]_MCVars => (CliInv /\ LineInv)'
  BY CliKept, LineKept
<1>3. CliInv /\ LineInv => CommandLineIsTruthful
  BY CliInvTells, LineInvTells DEF CommandLineIsTruthful
<1> QED
  BY <1>1, <1>2, <1>3, PTL DEF MCSpec
=============================================================================
