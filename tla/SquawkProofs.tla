---------------------------- MODULE SquawkProofs ----------------------------
(***************************************************************************)
(* Theorems about squawk and about the modules' configuration: the system  *)
(* resolvers for every set of links and services and whichever calls may   *)
(* fail, the forwarder with its cache and its lookups, the licence, the    *)
(* time, and the load of a configuration, for every value of their bounds. *)
(***************************************************************************)
EXTENDS MCSquawk, FiniteSetTheorems, TLAPS

-----------------------------------------------------------------------------
(* SysResolver: the inductive invariant *)

\* A record that can be read names its backend, and only such a record does.
IsRecord(r) == r.st = "valid" <=> r.backend # "none"

\* The locals of the call in progress, step by step.
JobShape ==
    /\ pc \in {"down", "ready", "running"} => job = NoJob
    /\ pc = "snapshot" => job.goal = "apply" /\ job.prev = "none" /\ ~job.opened
    /\ pc = "backup" => job.backend = "resolv_conf" /\ live # "absent"
    /\ pc \in {"backup", "mark"} /\ job.backend = "resolv_conf" => job.prev = ServersIn(live)
    /\ pc \in {"backup", "mark", "commit", "unmark"} => job.goal = "apply" /\ job.backend # "none"
    /\ pc \in {"undo", "rewrite", "reclaim", "clear"} => job.goal \in {"recover", "stop"}
    /\ pc = "rewrite" => job.from # "absent"
    /\ pc \in {"unmark", "undo", "reclaim", "clear"} => ~job.opened

\* What memory and the marker say of it.
RecordShape ==
    /\ IsRecord(marker) /\ IsRecord(mem)
    /\ mem.st = "valid" => pc \in {"running", "undo", "rewrite", "reclaim", "clear"}
    /\ mem.st = "valid" => marker = mem
    /\ pc = "commit" => marker = Recorded(job.backend, job.prev)
    /\ pc \in {"undo", "rewrite", "reclaim"} =>
          marker.st = "valid" /\ job.backend = marker.backend /\ job.prev = marker.prev
    /\ pc \in {"rewrite", "reclaim"} => job.backend = "resolv_conf"
    /\ pc = "clear" => marker.st = "valid"

\* How far a commit, or an undo, has come.
Progress ==
    /\ pc = "commit" /\ job.backend = "resolved" => Links \ job.left \subseteq overridden
    /\ pc = "mark" /\ job.backend = "resolved" => job.left = Links
    /\ pc = "undo" /\ job.backend = "resolved" => overridden \subseteq job.left
    /\ pc = "unmark" => "commit" \in failed
    /\ live = "absent" => origin = "absent"

\* Nobody has touched the host, or everything was undone, before a commit and
\* after an undo; what could be written back is never our own server.
CleanBeforeCommit ==
    failed \subseteq {"snapshot", "marker"} =>
        /\ \/ pc \in {"ready", "snapshot", "backup", "mark", "clear"}
           \/ pc = "running" /\ mem.st # "valid"
           \/ pc = "down" /\ marker.st # "valid"
           => ~Pointed
        /\ pc = "reclaim" => ~Pointed
        /\ marker.st = "valid" =>
             /\ marker.prev # "managed"
             /\ marker.backend = "resolved" => live # "managed"
             /\ marker.backend = "resolv_conf" => overridden = {}
        /\ backup # "managed"
        /\ pc \in {"snapshot", "backup", "mark", "commit"} => job.prev # "managed"
        /\ pc = "rewrite" => job.from # "managed"

\* A file names the servers it named before squawk ever ran.
Same(c) == ServersIn(c) = ServersIn(origin)

\* With nothing worse than failed backups: where there is no marker the file is as it
\* was, where there is one it and the byte copy lead back.
LeadsBack ==
    failed \subseteq {"snapshot"} =>
        /\ pc \in {"ready", "snapshot", "backup"} => marker.st = "absent"
        /\ pc = "running" /\ mem.st # "valid" => marker.st = "absent"
        /\ pc = "mark" => marker.st # "valid"
        /\ marker.st # "valid" \/ marker.backend = "resolved" => Same(live)
        /\ pc \in {"reclaim", "clear"} => Same(live)
        /\ pc = "rewrite" => Same(job.from)
        /\ marker.backend = "resolv_conf" => marker.prev = ServersIn(origin)
        /\ backup \in {"absent", "torn"} \/ Same(backup)
        /\ \/ marker.backend = "resolv_conf"
           \/ pc = "mark" /\ job.backend = "resolv_conf"
           => backup = "absent" \/ Same(backup)

ResolverInv ==
    TypeOK /\ JobShape /\ RecordShape /\ Progress /\ CleanBeforeCommit /\ LeadsBack /\ AppliedMeansPointed

-----------------------------------------------------------------------------
(* SysResolver: the proof *)

\* The states that a host is found in.
LEMMA ResolverInit == Init => ResolverInv
<1> SUFFICES ASSUME Init PROVE ResolverInv
  OBVIOUS
<1> USE DEF Init, NoJob, JobFor, NoRecord, ServersIn
<1>1. TypeOK
  BY DEF TypeOK, Job, Record, Steps, Goals, Servers, Contents, Backends, FaultKinds
<1>2. JobShape /\ RecordShape /\ Progress
  BY DEF JobShape, RecordShape, Progress, IsRecord
<1>3. CleanBeforeCommit /\ LeadsBack /\ AppliedMeansPointed
  BY DEF CleanBeforeCommit, LeadsBack, AppliedMeansPointed, Pointed, Same
<1> QED
  BY <1>1, <1>2, <1>3 DEF ResolverInv

\* What the steps write is of the right type.
LEMMA JobTypes ==
    ASSUME NEW j \in Job
    PROVE  /\ j.backend \in Backends \union {"none"} /\ j.prev \in Servers
           /\ j.from \in Contents /\ j.left \subseteq Links
           /\ \A o \in BOOLEAN : [j EXCEPT !.opened = o] \in Job
           /\ \A l : [j EXCEPT !.left = j.left \ {l}] \in Job
           /\ \A c \in Contents : [j EXCEPT !.from = c] \in Job
           /\ \A b \in Backends : [j EXCEPT !.backend = b, !.left = Links] \in Job
           /\ \A b \in Backends, s \in Servers : [j EXCEPT !.backend = b, !.prev = s] \in Job
BY DEF Job

LEMMA NewTypes ==
    /\ NoJob \in Job /\ JobFor("apply", "none", "none", {}) \in Job
    /\ NoRecord \in Record /\ TornRecord \in Record
    /\ \A b \in Backends \union {"none"}, s \in Servers : Recorded(b, s) \in Record
    /\ \A g \in Goals, r \in Record : UndoJob(g, r) \in Job
    /\ \A c : ServersIn(c) \in Servers /\ Rewritten(c) \in Contents
    /\ failed \subseteq FaultKinds => \A k : Fails(k) => failed' \subseteq FaultKinds
<1>1. NoJob \in Job /\ JobFor("apply", "none", "none", {}) \in Job
  BY DEF NoJob, JobFor, Job, Goals, Backends, Servers, Contents
<1>2. NoRecord \in Record /\ TornRecord \in Record
  BY DEF NoRecord, TornRecord, Record, Servers
<1>3. \A b \in Backends \union {"none"}, s \in Servers : Recorded(b, s) \in Record
  BY DEF Recorded, Record
<1>4. \A g \in Goals, r \in Record : UndoJob(g, r) \in Job
  BY DEF UndoJob, JobFor, Job, Record, Contents
<1>5. \A c : ServersIn(c) \in Servers /\ Rewritten(c) \in Contents
  BY DEF ServersIn, Rewritten, Servers, Contents
<1>6. failed \subseteq FaultKinds => \A k : Fails(k) => failed' \subseteq FaultKinds
  BY FaultsAssumption DEF Fails
<1> QED
  BY <1>1, <1>2, <1>3, <1>4, <1>5, <1>6

\* Every step keeps the types.
LEMMA ResolverTypes == TypeOK /\ [Next]_vars => TypeOK'
<1> SUFFICES ASSUME TypeOK, [Next]_vars PROVE TypeOK'
  OBVIOUS
<1>0. job \in Job /\ "resolved" \in Backends /\ "resolv_conf" \in Backends /\ {"recover", "stop"} \subseteq Goals
      /\ {"managed", "torn", "absent"} \subseteq Contents
  BY DEF TypeOK, Backends, Goals, Contents
<1> USE <1>0, JobTypes, NewTypes DEF TypeOK, Steps
<1>1. CASE Crash
  BY <1>1 DEF Crash
<1>2. CASE Discard
  BY <1>2 DEF Discard
<1>3. CASE Stop
  BY <1>3, ZenonT(60) DEF Stop, DropMarker, GiveUp
<1>4. CASE ApplyFails
  BY <1>4, ZenonT(60) DEF ApplyFails
<1>5. CASE CommitFails
  BY <1>5 DEF CommitFails
<1>6. CASE UndoFails
  BY <1>6 DEF UndoFails, GiveUp
<1>7. CASE Launch
  BY <1>7 DEF Launch, DropMarker
<1>8. CASE Start
  BY <1>8 DEF Start
<1>9. CASE Snapshot
  <2>1. [job EXCEPT !.backend = "resolved", !.left = Links] \in Job
    BY DEF Job
  <2>2. [job EXCEPT !.backend = "resolv_conf", !.prev = ServersIn(live)] \in Job
    BY DEF Job
  <2> QED
    BY <1>9, <2>1, <2>2 DEF Snapshot
<1>10. CASE Truncate
  BY <1>10 DEF Truncate
<1>11. CASE BackupWritten
  BY <1>11 DEF BackupWritten
<1>12. CASE MarkerWritten
  BY <1>12 DEF MarkerWritten
<1>13. CASE CommitFile
  BY <1>13 DEF CommitFile, Applied
<1>14. CASE Unmark
  BY <1>14 DEF Unmark, DropMarker
<1>15. CASE UndoFile
  BY <1>15 DEF UndoFile
<1>16. CASE FileRewritten
  BY <1>16 DEF FileRewritten
<1>17. CASE Reclaim
  BY <1>17 DEF Reclaim
<1>18. CASE Clear
  BY <1>18 DEF Clear, GiveUp, DropMarker
<1>19. ASSUME NEW l \in Links, CommitLink(l) PROVE TypeOK'
  <2>1. [job EXCEPT !.left = @ \ {l}] \in Job
    BY DEF Job
  <2>2. mem' \in Record
    BY <1>19, ZenonT(60) DEF CommitLink, Applied
  <2> QED
    BY <1>19, <2>1, <2>2 DEF CommitLink, Applied
<1>20. ASSUME NEW l \in Links, RevertLink(l) PROVE TypeOK'
  BY <1>20 DEF RevertLink
<1>21. CASE UNCHANGED vars
  BY <1>21 DEF vars
<1> QED
  BY <1>1, <1>2, <1>3, <1>4, <1>5, <1>6, <1>7, <1>8, <1>9, <1>10, <1>11, <1>12, <1>13, <1>14, <1>15, <1>16, <1>17, <1>18, <1>19, <1>20, <1>21 DEF Next, Step

\* Every step keeps the invariant.
LEMMA ResolverStep == ResolverInv /\ [Next]_vars => ResolverInv'
<1> SUFFICES ASSUME ResolverInv, [Next]_vars PROVE ResolverInv'
  OBVIOUS
<1> USE FaultsAssumption
    DEF ResolverInv, TypeOK, JobShape, RecordShape, Progress, CleanBeforeCommit, LeadsBack,
        AppliedMeansPointed, Pointed, Same, IsRecord, NoJob, JobFor, NoRecord, TornRecord, Recorded, Job, Record, Steps,
        Goals, Servers, Contents, Backends, FaultKinds, ServersIn, Rewritten, Fails
<1>1. CASE Crash
  BY <1>1 DEF Crash
<1>2. CASE Discard
  BY <1>2 DEF Discard
<1>3. CASE Stop
  <2> USE <1>3 DEF Stop, DropMarker, UndoJob, GiveUp
  <2>1. TypeOK'
    BY ResolverTypes DEF ResolverInv
  <2>2. JobShape'
    OBVIOUS
  <2>3. RecordShape'
    OBVIOUS
  <2>4. Progress'
    OBVIOUS
  <2>5. CleanBeforeCommit'
    OBVIOUS
  <2>6. LeadsBack'
    OBVIOUS
  <2>7. AppliedMeansPointed'
    OBVIOUS
  <2> QED
    BY <2>1, <2>2, <2>3, <2>4, <2>5, <2>6, <2>7
<1>4. CASE ApplyFails
  BY <1>4 DEF ApplyFails
<1>5. CASE CommitFails
  <2> USE <1>5 DEF CommitFails
  <2>1. TypeOK'
    BY ResolverTypes DEF ResolverInv
  <2>2. JobShape'
    OBVIOUS
  <2>3. RecordShape'
    OBVIOUS
  <2>4. Progress'
    OBVIOUS
  <2>5. CleanBeforeCommit'
    OBVIOUS
  <2>6. LeadsBack'
    OBVIOUS
  <2>7. AppliedMeansPointed'
    OBVIOUS
  <2> QED
    BY <2>1, <2>2, <2>3, <2>4, <2>5, <2>6, <2>7
<1>6. CASE UndoFails
  BY <1>6 DEF UndoFails, GiveUp
<1>7. CASE Launch
  <2> USE <1>7 DEF Launch, DropMarker, UndoJob
  <2>1. TypeOK'
    BY ResolverTypes DEF ResolverInv
  <2>2. JobShape'
    OBVIOUS
  <2>3. RecordShape'
    OBVIOUS
  <2>4. Progress'
    OBVIOUS
  <2>5. CleanBeforeCommit'
    OBVIOUS
  <2>6. LeadsBack'
    OBVIOUS
  <2>7. AppliedMeansPointed'
    OBVIOUS
  <2> QED
    BY <2>1, <2>2, <2>3, <2>4, <2>5, <2>6, <2>7
<1>8. CASE Start
  BY <1>8 DEF Start
<1>9. CASE Snapshot
  <2> USE <1>9 DEF Snapshot
  <2>1. TypeOK'
    BY ResolverTypes DEF ResolverInv
  <2>2. JobShape'
    BY ZenonT(60)
  <2>3. RecordShape'
    OBVIOUS
  <2>4. Progress'
    BY ZenonT(60)
  <2>5. CleanBeforeCommit'
    OBVIOUS
  <2>6. LeadsBack'
    BY ZenonT(60)
  <2>7. AppliedMeansPointed'
    OBVIOUS
  <2> QED
    BY <2>1, <2>2, <2>3, <2>4, <2>5, <2>6, <2>7
<1>10. CASE Truncate
  <2> USE <1>10 DEF Truncate
  <2>1. TypeOK'
    BY ResolverTypes DEF ResolverInv
  <2>2. JobShape'
    OBVIOUS
  <2>3. RecordShape'
    OBVIOUS
  <2>4. Progress'
    OBVIOUS
  <2>5. CleanBeforeCommit'
    OBVIOUS
  <2>6. LeadsBack'
    OBVIOUS
  <2>7. AppliedMeansPointed'
    OBVIOUS
  <2> QED
    BY <2>1, <2>2, <2>3, <2>4, <2>5, <2>6, <2>7
<1>11. CASE BackupWritten
  <2> USE <1>11 DEF BackupWritten
  <2>1. TypeOK'
    BY ResolverTypes DEF ResolverInv
  <2>2. JobShape'
    OBVIOUS
  <2>3. RecordShape'
    OBVIOUS
  <2>4. Progress'
    OBVIOUS
  <2>5. CleanBeforeCommit'
    OBVIOUS
  <2>6. LeadsBack'
    OBVIOUS
  <2>7. AppliedMeansPointed'
    OBVIOUS
  <2> QED
    BY <2>1, <2>2, <2>3, <2>4, <2>5, <2>6, <2>7
<1>12. CASE MarkerWritten
  <2> USE <1>12 DEF MarkerWritten
  <2>1. TypeOK'
    BY ResolverTypes DEF ResolverInv
  <2>2. JobShape'
    OBVIOUS
  <2>3. RecordShape'
    OBVIOUS
  <2>4. Progress'
    OBVIOUS
  <2>5. CleanBeforeCommit'
    OBVIOUS
  <2>6. LeadsBack'
    OBVIOUS
  <2>7. AppliedMeansPointed'
    OBVIOUS
  <2> QED
    BY <2>1, <2>2, <2>3, <2>4, <2>5, <2>6, <2>7
<1>13. CASE CommitFile
  BY <1>13 DEF CommitFile, Applied
<1>14. CASE Unmark
  BY <1>14 DEF Unmark, DropMarker
<1>15. CASE UndoFile
  BY <1>15 DEF UndoFile
<1>16. CASE FileRewritten
  <2> USE <1>16 DEF FileRewritten
  <2>1. TypeOK'
    BY ResolverTypes DEF ResolverInv
  <2>2. JobShape'
    OBVIOUS
  <2>3. RecordShape'
    OBVIOUS
  <2>4. Progress'
    OBVIOUS
  <2>5. CleanBeforeCommit'
    OBVIOUS
  <2>6. LeadsBack'
    OBVIOUS
  <2>7. AppliedMeansPointed'
    OBVIOUS
  <2> QED
    BY <2>1, <2>2, <2>3, <2>4, <2>5, <2>6, <2>7
<1>17. CASE Reclaim
  BY <1>17 DEF Reclaim
<1>18. CASE Clear
  BY <1>18 DEF Clear, GiveUp, DropMarker
<1>19. ASSUME NEW l \in Links, CommitLink(l) PROVE ResolverInv'
  <2> USE <1>19 DEF CommitLink, Applied
  <2>1. TypeOK'
    BY ResolverTypes DEF ResolverInv
  <2>2. JobShape'
    OBVIOUS
  <2>3. RecordShape'
    OBVIOUS
  <2>4. Progress'
    OBVIOUS
  <2>5. CleanBeforeCommit'
    OBVIOUS
  <2>6. LeadsBack'
    OBVIOUS
  <2>7. AppliedMeansPointed'
    OBVIOUS
  <2> QED
    BY <2>1, <2>2, <2>3, <2>4, <2>5, <2>6, <2>7
<1>20. ASSUME NEW l \in Links, RevertLink(l) PROVE ResolverInv'
  BY <1>20 DEF RevertLink
<1>21. CASE UNCHANGED vars
  BY <1>21 DEF vars
<1> QED
  BY <1>1, <1>2, <1>3, <1>4, <1>5, <1>6, <1>7, <1>8, <1>9, <1>10, <1>11, <1>12, <1>13, <1>14, <1>15, <1>16, <1>17, <1>18, <1>19, <1>20, <1>21 DEF Next, Step

\* What the properties need of the invariant.
LEMMA ResolverKept ==
    ResolverInv => LostOnlyByFailure /\ UntouchedWithoutMarker /\ UndoIsOriginal
<1> SUFFICES ASSUME ResolverInv
             PROVE  LostOnlyByFailure /\ UntouchedWithoutMarker /\ UndoIsOriginal
  OBVIOUS
<1> USE DEF ResolverInv, TypeOK, RecordShape, IsRecord, CleanBeforeCommit, LeadsBack, Pointed, Same,
            Steps, Record, Backends, Servers, Contents
<1>1. LostOnlyByFailure
  BY DEF LostOnlyByFailure, PointedIsMarked, Progress, Recorded
<1>2. UntouchedWithoutMarker
  BY <1>1 DEF UntouchedWithoutMarker, LostOnlyByFailure, PointedIsMarked
<1>3. UndoIsOriginal
  BY DEF UndoIsOriginal, ServersIn, Rewritten
<1> QED
  BY <1>1, <1>2, <1>3

\* On a Linux host, for any links and whichever calls fail: only a failed commit or
\* restore leaves it pointed at squawk without a marker, without one it is as it was,
\* and what undoing would write are the servers it had.
THEOREM LinuxDnsIsKept ==
    Spec => [](LostOnlyByFailure /\ UntouchedWithoutMarker /\ UndoIsOriginal /\ AppliedMeansPointed)
<1>1. ResolverInv => AppliedMeansPointed
  BY DEF ResolverInv
<1> QED
  BY <1>1, ResolverInit, ResolverStep, ResolverKept, PTL DEF Spec

-----------------------------------------------------------------------------
(* PlatformResolver *)

\* A service that is not as it should be once the marker is gone.
Astray(s) == prDns[s] = "managed" \/ (prOrigin[s] = "dhcp" /\ prDns[s] # "dhcp")

\* The inductive invariant.  Whoever is at work has left a marker; before a commit, and
\* for what an undo has visited, only services that were missed are astray.
PlatformInv ==
    /\ PlatformTypeOK
    /\ prAt \in {"down", "ready", "commit", "applied", "recover", "stop"} /\ prMarker \in BOOLEAN
    /\ prAt \in {"commit", "applied", "recover", "stop"} => prMarker
    /\ prAt = "ready" \/ ~prMarker => \A s \in NetServices : Astray(s) => s \in prMissed
    /\ prAt = "commit" =>
          \A s \in NetServices : Astray(s) => s \in prMissed \/ s \in prPresent \ prTodo
    /\ Undoing => \A s \in NetServices : Astray(s) => s \in prMissed \/ s \notin prPresent \ prTodo
    /\ prPresent \subseteq NetServices

LEMMA PlatformStart == PlatformInit => PlatformInv
BY DEF PlatformInit, PlatformInv, PlatformTypeOK, Astray, Undoing

\* Every step keeps it.
LEMMA PlatformStep == PlatformInv /\ [PlatformNext]_platformVars => PlatformInv'
<1> SUFFICES ASSUME PlatformInv, [PlatformNext]_platformVars PROVE PlatformInv'
  OBVIOUS
<1> USE DEF PlatformInv, PlatformTypeOK, Astray, Undoing, Listed
<1>1. CASE PlatformLaunch
  BY <1>1 DEF PlatformLaunch
<1>2. CASE PlatformApply
  BY <1>2 DEF PlatformApply, MarkedFirst
<1>3. CASE PlatformStop
  BY <1>3 DEF PlatformStop
<1>4. CASE CommitEnds
  BY <1>4 DEF CommitEnds
<1>5. CASE UndoEnds
  BY <1>5 DEF UndoEnds, AfterUndo
<1>6. CASE CommitListFails
  BY <1>6 DEF CommitListFails
<1>7. CASE UndoListFails
  BY <1>7 DEF UndoListFails, AfterUndo
<1>8. CASE PlatformCrash
  BY <1>8 DEF PlatformCrash
<1>9. ASSUME NEW s \in NetServices, ServiceToggles(s) PROVE PlatformInv'
  BY <1>9 DEF ServiceToggles
<1>10. ASSUME NEW s \in NetServices, NEW ok \in BOOLEAN, SetService(s, ok) PROVE PlatformInv'
  BY <1>10 DEF SetService
<1>11. ASSUME NEW s \in NetServices, NEW ok \in BOOLEAN, ResetService(s, ok) PROVE PlatformInv'
  BY <1>11 DEF ResetService
<1>12. CASE UNCHANGED platformVars
  BY <1>12 DEF platformVars
<1> QED
  BY <1>1, <1>2, <1>3, <1>4, <1>5, <1>6, <1>7, <1>8, <1>9, <1>10, <1>11, <1>12 DEF PlatformNext

-----------------------------------------------------------------------------
(* Remainders *)

LEMMA Remainder == ASSUME NEW t \in Nat, NEW n \in Nat \ {0}, t < n PROVE t % n = t
OBVIOUS

LEMMA NextRemainder ==
    ASSUME NEW t \in Nat, NEW n \in Nat \ {0}, t < n
    PROVE  (t + 1) % n = IF t + 1 = n THEN 0 ELSE t + 1
OBVIOUS

-----------------------------------------------------------------------------
(* Forwarder: start, stop, the serve loops and the queries *)

Starting == {"udp", "tcp", "commit"}

ForwarderShape ==
    /\ fwBegun \in Nat /\ fwSession \in 0..fwBegun
    /\ fwCall \in [Operators -> [at : Starting \cup {"idle", "up", "await"}, session : Nat]]
    /\ fwLoops \subseteq (1..fwBegun) \X Protocols
    /\ fwCancelled \subseteq 1..fwBegun /\ fwLeft \subseteq 1..fwBegun
    /\ {fwEphemeral, fwModule, fwOverlap} \subseteq BOOLEAN /\ fwGauge \in {0, 1}
    /\ fwQuery \in [DnsQueries -> [at : {"idle", "read", "lookup"}, session : Nat, proto : Protocols]]

\* A start under way has its session, and the loops it has begun, to itself.
OwnsStart(o) ==
    /\ CallAt(o, "idle") => fwCall[o].session = 0
    /\ ~CallAt(o, "idle") => fwCall[o].session \in 1..fwBegun
    /\ fwCall[o].at \in Starting =>
        /\ fwCall[o].session # fwSession
        /\ fwCall[o].session \notin fwCancelled /\ fwCall[o].session \notin fwLeft
        /\ \A other \in Operators \ {o} : fwCall[other].session # fwCall[o].session
    /\ CallAt(o, "udp") => <<fwCall[o].session, "udp">> \notin fwLoops
    /\ fwCall[o].at \in {"udp", "tcp"} => <<fwCall[o].session, "tcp">> \notin fwLoops
    /\ fwCall[o].at \in {"tcp", "commit"} => <<fwCall[o].session, "udp">> \in fwLoops
    /\ CallAt(o, "commit") => <<fwCall[o].session, "tcp">> \in fwLoops
    /\ CallAt(o, "await") => fwCall[o].session \in fwCancelled

StartsOwn == \A o \in Operators : OwnsStart(o)

\* Every loop is somebody's.
LoopsAreOwned ==
    /\ fwSession # 0 =>
        /\ fwSession \notin fwCancelled
        /\ <<fwSession, "udp">> \in fwLoops /\ <<fwSession, "tcp">> \in fwLoops
    /\ \A l \in fwLoops :
        \/ l[1] = fwSession \/ l[1] \in fwCancelled \/ l[1] \in fwLeft
        \/ \E o \in Operators : fwCall[o].at \in Starting /\ fwCall[o].session = l[1]

\* With fixed ports there is one loop of each protocol, and a loop that is cancelled is
\* waited for.
PortsAreExclusive ==
    ~fwEphemeral =>
        /\ \A k, l \in fwLoops : k[2] = l[2] => k = l
        /\ \A l \in fwLoops : l[1] \in fwCancelled =>
              \E o \in Operators : CallAt(o, "await") /\ fwCall[o].session = l[1]

\* A query is of a loop, or of one that was cancelled.
QueriesAreOwned ==
    \A q \in DnsQueries :
        /\ QueryAt(q, "read") => fwQuery[q].proto = "tcp"
        /\ ~QueryAt(q, "idle") => \/ <<fwQuery[q].session, fwQuery[q].proto>> \in fwLoops
                                  \/ fwQuery[q].session \in fwCancelled

\* While calls have not met there is one at a time, and the gauge follows it.
GaugeFollows ==
    ~fwOverlap =>
        /\ \A o, other \in Operators : ~CallAt(o, "idle") /\ ~CallAt(other, "idle") => o = other
        /\ \A o \in Operators :
            /\ fwCall[o].at \in Starting => fwSession = 0 /\ fwGauge = 0
            /\ CallAt(o, "up") => fwSession # 0
            /\ CallAt(o, "await") => fwSession = 0
        /\ NobodyCalls => (fwGauge = 1 <=> fwSession # 0)

ForwarderInv ==
    ForwarderShape /\ StartsOwn /\ LoopsAreOwned /\ PortsAreExclusive /\ QueriesAreOwned /\ GaugeFollows

LEMMA ForwarderStart == ForwarderInit => ForwarderInv
<1> SUFFICES ASSUME ForwarderInit PROVE ForwarderInv
  OBVIOUS
<1> USE DEF ForwarderInit, NoCall, NoQuery, Operators, Protocols, Starting, CallAt, QueryAt
<1>1. ForwarderShape
  <2>1. {fwEphemeral, fwModule, fwOverlap} \subseteq BOOLEAN
    OBVIOUS
  <2>2. fwCall \in [Operators -> [at : Starting \cup {"idle", "up", "await"}, session : Nat]]
    OBVIOUS
  <2>3. fwQuery \in [DnsQueries -> [at : {"idle", "read", "lookup"}, session : Nat, proto : Protocols]]
    OBVIOUS
  <2> QED
    BY <2>1, <2>2, <2>3 DEF ForwarderShape
<1>2. StartsOwn /\ LoopsAreOwned /\ PortsAreExclusive /\ QueriesAreOwned
  BY DEF StartsOwn, OwnsStart, LoopsAreOwned, PortsAreExclusive, QueriesAreOwned
<1>3. GaugeFollows
  BY DEF GaugeFollows, NobodyCalls
<1> QED
  BY <1>1, <1>2, <1>3 DEF ForwarderInv

\* What a step makes of the caller's record.
LEMMA CallMoves ==
    ASSUME ForwarderShape, NEW o \in Operators
    PROVE  /\ fwCall[o] \in [at : Starting \cup {"idle", "up", "await"}, session : Nat]
           /\ \A p \in Starting \cup {"up"} : CallTo(o, p) =>
                /\ fwCall' \in [Operators -> [at : Starting \cup {"idle", "up", "await"}, session : Nat]]
                /\ fwCall'[o].at = p /\ fwCall'[o].session = fwCall[o].session
                /\ \A other \in Operators \ {o} : fwCall'[other] = fwCall[other]
           /\ CallEnds(o) =>
                /\ fwCall' \in [Operators -> [at : Starting \cup {"idle", "up", "await"}, session : Nat]]
                /\ fwCall'[o].at = "idle" /\ fwCall'[o].session = 0
                /\ \A other \in Operators \ {o} : fwCall'[other] = fwCall[other]
           /\ \A p \in {"udp", "await"}, s \in Nat : CallBegins(o, p, s) =>
                /\ fwCall' \in [Operators -> [at : Starting \cup {"idle", "up", "await"}, session : Nat]]
                /\ fwCall'[o].at = p /\ fwCall'[o].session = s
                /\ \A other \in Operators \ {o} : fwCall'[other] = fwCall[other]
BY DEF ForwarderShape, CallTo, CallEnds, CallBegins, NoCall, Starting

LEMMA SessionsBegun ==
    ASSUME ForwarderShape, StartsOwn, NEW x \in Operators
    PROVE  fwBegun \in Nat /\ fwCall[x].session \in 0..fwBegun /\ (fwCall[x].at # "idle" => fwCall[x].session \in 1..fwBegun)
<1>1. fwBegun \in Nat /\ OwnsStart(x)
  BY DEF ForwarderShape, StartsOwn
<1> QED
  BY <1>1 DEF OwnsStart, CallAt

\* A loop is a pair.
LEMMA LoopPairs ==
    ASSUME ForwarderShape, NEW l \in fwLoops
    PROVE  l = <<l[1], l[2]>> /\ l[1] \in 1..fwBegun /\ l[2] \in {"udp", "tcp"}
BY DEF ForwarderShape, Protocols

LEMMA StartForwarderStep == ASSUME ForwarderInv, NEW o \in Operators, StartForwarder(o) PROVE ForwarderInv'
<1> USE DEF ForwarderInv
<1> DEFINE s == fwBegun + 1
<1>1. /\ fwCall' \in [Operators -> [at : Starting \cup {"idle", "up", "await"}, session : Nat]]
      /\ fwCall'[o].at = "udp" /\ fwCall'[o].session = s
      /\ \A other \in Operators \ {o} : fwCall'[other] = fwCall[other]
  BY CallMoves DEF StartForwarder, ForwarderShape
<1>2. /\ CallAt(o, "idle") /\ fwSession = 0 /\ fwSession' = 0 /\ fwBegun' = fwBegun + 1 /\ fwLoops' = fwLoops
      /\ fwCancelled' = fwCancelled /\ fwLeft' = fwLeft /\ fwEphemeral' = fwEphemeral /\ fwGauge' = fwGauge
      /\ fwQuery' = fwQuery /\ fwModule' = (fwModule \/ o = "module")
      /\ fwOverlap' = (fwOverlap \/ \E other \in Operators : ~CallAt(other, "idle"))
  BY DEF StartForwarder, CallBegins
<1>3. ForwarderShape'
  <2>1. {fwEphemeral', fwModule', fwOverlap'} \subseteq BOOLEAN
    BY <1>2 DEF ForwarderShape
  <2> QED
    BY <1>1, <1>2, <2>1 DEF ForwarderShape
<1>4. StartsOwn'
  <2>1. fwBegun \in Nat /\ \A x \in Operators : fwCall[x].session \in 0..fwBegun
    BY SessionsBegun
  <2>2. OwnsStart(o)'
    <3>1. s \in 1..fwBegun' /\ s # fwSession /\ s \notin fwCancelled /\ s \notin fwLeft
      BY <1>2, <2>1 DEF ForwarderShape
    <3>2. \A other \in Operators \ {o} : fwCall'[other].session # s
      BY <1>1, <2>1
    <3>3. <<s, "udp">> \notin fwLoops /\ <<s, "tcp">> \notin fwLoops
      BY <2>1 DEF ForwarderShape
    <3> QED
      BY <1>1, <1>2, <3>1, <3>2, <3>3 DEF OwnsStart, CallAt
  <2>3. ASSUME NEW x \in Operators, x # o PROVE OwnsStart(x)'
    <3>1. fwCall'[x] = fwCall[x] /\ OwnsStart(x)
      BY <1>1, <2>3 DEF StartsOwn
    <3>2. ASSUME NEW other \in Operators \ {x}, fwCall[x].at \in Starting PROVE fwCall'[other].session # fwCall[x].session
      BY <1>1, <2>1, <3>1, <3>2 DEF OwnsStart
    <3> QED
      BY <1>2, <2>1, <3>1, <3>2 DEF OwnsStart, CallAt
  <2> QED
    BY <2>2, <2>3 DEF StartsOwn
<1>5. LoopsAreOwned'
  BY <1>1, <1>2 DEF LoopsAreOwned, CallAt, Starting
<1>6. PortsAreExclusive'
  BY <1>1, <1>2 DEF PortsAreExclusive, CallAt
<1>7. QueriesAreOwned'
  BY <1>2 DEF QueriesAreOwned, QueryAt
<1>8. GaugeFollows'
  <2> SUFFICES ASSUME ~fwOverlap' PROVE GaugeFollows'
    BY DEF GaugeFollows
  <2>1. ~fwOverlap /\ \A x \in Operators : fwCall[x].at = "idle"
    BY <1>2 DEF CallAt
  <2>2. fwGauge = 0
    BY <1>2, <2>1 DEF GaugeFollows, NobodyCalls, ForwarderShape, CallAt
  <2>3. \A x \in Operators : fwCall'[x].at = IF x = o THEN "udp" ELSE "idle"
    BY <1>1, <2>1
  <2> QED
    BY <1>2, <2>2, <2>3 DEF GaugeFollows, NobodyCalls, CallAt, Starting
<1> QED
  BY <1>3, <1>4, <1>5, <1>6, <1>7, <1>8

LEMMA BindUdpStep == ASSUME ForwarderInv, NEW o \in Operators, BindUdp(o) PROVE ForwarderInv'
<1> USE DEF ForwarderInv
<1> DEFINE s == fwCall[o].session
<1>1. /\ fwCall' \in [Operators -> [at : Starting \cup {"idle", "up", "await"}, session : Nat]]
      /\ fwCall'[o].at = "tcp" /\ fwCall'[o].session = s
      /\ \A other \in Operators \ {o} : fwCall'[other] = fwCall[other]
  BY CallMoves DEF BindUdp, Starting
<1>2. /\ fwCall[o].at = "udp" /\ (UdpHeld => fwEphemeral) /\ fwLoops' = fwLoops \cup {<<s, "udp">>}
      /\ fwSession' = fwSession /\ fwBegun' = fwBegun /\ fwCancelled' = fwCancelled /\ fwEphemeral' = fwEphemeral
      /\ fwModule' = fwModule /\ fwGauge' = fwGauge /\ fwQuery' = fwQuery /\ fwLeft' = fwLeft /\ fwOverlap' = fwOverlap
  BY DEF BindUdp, CallAt, fwRest
<1>3. OwnsStart(o) /\ s \in 1..fwBegun
  BY <1>2, SessionsBegun DEF StartsOwn
<1>4. ForwarderShape'
  BY <1>1, <1>2, <1>3 DEF ForwarderShape, Protocols
<1>5. StartsOwn'
  <2>1. OwnsStart(o)'
    BY <1>1, <1>2, <1>3 DEF OwnsStart, CallAt, Starting
  <2>2. ASSUME NEW x \in Operators, x # o PROVE OwnsStart(x)'
    <3>1. fwCall'[x] = fwCall[x] /\ OwnsStart(x)
      BY <1>1, <2>2 DEF StartsOwn
    <3>2. fwCall[x].session # s
      BY <1>2, <1>3, <2>2 DEF OwnsStart, Starting
    <3>3. \A y \in Operators : fwCall'[y].session = fwCall[y].session
      BY <1>1
    <3> QED
      BY <1>2, <3>1, <3>2, <3>3 DEF OwnsStart, CallAt, Starting
  <2> QED
    BY <2>1, <2>2 DEF StartsOwn
<1>6. LoopsAreOwned'
  BY <1>1, <1>2 DEF LoopsAreOwned, Starting
<1>7. PortsAreExclusive'
  <2> SUFFICES ASSUME ~fwEphemeral PROVE PortsAreExclusive'
    BY <1>2 DEF PortsAreExclusive
  <2>1. ASSUME NEW l \in fwLoops PROVE l[2] = "tcp"
    BY <1>2, LoopPairs DEF UdpHeld
  <2>2. s \notin fwCancelled
    BY <1>2, <1>3 DEF OwnsStart, Starting
  <2> QED
    BY <1>1, <1>2, <2>1, <2>2 DEF PortsAreExclusive, CallAt
<1>8. QueriesAreOwned'
  BY <1>2 DEF QueriesAreOwned, QueryAt
<1>9. GaugeFollows'
  BY <1>1, <1>2 DEF GaugeFollows, CallAt, Starting, NobodyCalls
<1> QED
  BY <1>4, <1>5, <1>6, <1>7, <1>8, <1>9

LEMMA BindTcpStep == ASSUME ForwarderInv, NEW o \in Operators, BindTcp(o) PROVE ForwarderInv'
<1> USE DEF ForwarderInv
<1> DEFINE s == fwCall[o].session
<1>1. /\ fwCall' \in [Operators -> [at : Starting \cup {"idle", "up", "await"}, session : Nat]]
      /\ fwCall'[o].at = "commit" /\ fwCall'[o].session = s
      /\ \A other \in Operators \ {o} : fwCall'[other] = fwCall[other]
  BY CallMoves DEF BindTcp, Starting
<1>2. /\ fwCall[o].at = "tcp" /\ (TcpHeld => fwEphemeral) /\ fwLoops' = fwLoops \cup {<<s, "tcp">>}
      /\ fwSession' = fwSession /\ fwBegun' = fwBegun /\ fwCancelled' = fwCancelled /\ fwEphemeral' = fwEphemeral
      /\ fwModule' = fwModule /\ fwGauge' = fwGauge /\ fwQuery' = fwQuery /\ fwLeft' = fwLeft /\ fwOverlap' = fwOverlap
  BY DEF BindTcp, CallAt, fwRest
<1>3. OwnsStart(o) /\ s \in 1..fwBegun
  BY <1>2, SessionsBegun DEF StartsOwn
<1>4. ForwarderShape'
  BY <1>1, <1>2, <1>3 DEF ForwarderShape, Protocols
<1>5. StartsOwn'
  <2>1. OwnsStart(o)'
    BY <1>1, <1>2, <1>3 DEF OwnsStart, CallAt, Starting
  <2>2. ASSUME NEW x \in Operators, x # o PROVE OwnsStart(x)'
    <3>1. fwCall'[x] = fwCall[x] /\ OwnsStart(x)
      BY <1>1, <2>2 DEF StartsOwn
    <3>2. fwCall[x].session # s
      BY <1>2, <1>3, <2>2 DEF OwnsStart, Starting
    <3>3. \A y \in Operators : fwCall'[y].session = fwCall[y].session
      BY <1>1
    <3> QED
      BY <1>2, <3>1, <3>2, <3>3 DEF OwnsStart, CallAt, Starting
  <2> QED
    BY <2>1, <2>2 DEF StartsOwn
<1>6. LoopsAreOwned'
  BY <1>1, <1>2 DEF LoopsAreOwned, Starting
<1>7. PortsAreExclusive'
  <2> SUFFICES ASSUME ~fwEphemeral PROVE PortsAreExclusive'
    BY <1>2 DEF PortsAreExclusive
  <2>1. ASSUME NEW l \in fwLoops PROVE l[2] = "udp"
    BY <1>2, LoopPairs DEF TcpHeld
  <2>2. s \notin fwCancelled
    BY <1>2, <1>3 DEF OwnsStart, Starting
  <2> QED
    BY <1>1, <1>2, <2>1, <2>2 DEF PortsAreExclusive, CallAt
<1>8. QueriesAreOwned'
  BY <1>2 DEF QueriesAreOwned, QueryAt
<1>9. GaugeFollows'
  BY <1>1, <1>2 DEF GaugeFollows, CallAt, Starting, NobodyCalls
<1> QED
  BY <1>4, <1>5, <1>6, <1>7, <1>8, <1>9

\* A bind that fails: the session is given up, or its first loop left behind.
LEMMA BindFailsStep ==
    ASSUME ForwarderInv, NEW o \in Operators, BindUdpFails(o) \/ BindTcpFails(o)
    PROVE  ForwarderInv'
<1> USE DEF ForwarderInv
<1> DEFINE s == fwCall[o].session
<1>1. /\ fwCall' \in [Operators -> [at : Starting \cup {"idle", "up", "await"}, session : Nat]]
      /\ fwCall'[o].at = "idle" /\ fwCall'[o].session = 0
      /\ \A other \in Operators \ {o} : fwCall'[other] = fwCall[other]
  BY CallMoves DEF BindUdpFails, BindTcpFails, StartFailed
<1>2. /\ \/ fwCall[o].at = "udp" /\ fwLeft' = fwLeft
         \/ fwCall[o].at = "tcp" /\ fwLeft' = fwLeft \cup {s}
      /\ fwModule' = (fwModule /\ o # "module")
      /\ fwSession' = fwSession /\ fwBegun' = fwBegun /\ fwLoops' = fwLoops /\ fwCancelled' = fwCancelled
      /\ fwEphemeral' = fwEphemeral /\ fwGauge' = fwGauge /\ fwQuery' = fwQuery /\ fwOverlap' = fwOverlap
  BY DEF BindUdpFails, BindTcpFails, StartFailed, CallAt, fwRest
<1>3. OwnsStart(o) /\ s \in 1..fwBegun
  BY <1>2, SessionsBegun DEF StartsOwn
<1>4. ForwarderShape'
  <2>1. {fwEphemeral', fwModule', fwOverlap'} \subseteq BOOLEAN
    BY <1>2 DEF ForwarderShape
  <2> QED
    BY <1>1, <1>2, <1>3, <2>1 DEF ForwarderShape
<1>5. StartsOwn'
  <2>1. OwnsStart(o)'
    BY <1>1 DEF OwnsStart, CallAt, Starting
  <2>2. ASSUME NEW x \in Operators, x # o PROVE OwnsStart(x)'
    <3>1. fwCall'[x] = fwCall[x] /\ OwnsStart(x)
      BY <1>1, <2>2 DEF StartsOwn
    <3>2. fwCall[x].session # s
      BY <1>2, <1>3, <2>2 DEF OwnsStart, Starting
    <3>3. fwCall[x].at \in Starting => \A y \in Operators \ {x} : fwCall'[y].session # fwCall[x].session
      <4>1. fwCall[x].at \in Starting => fwCall[x].session \in 1..fwBegun
        BY SessionsBegun DEF Starting
      <4> QED
        BY <1>1, <3>1, <4>1 DEF OwnsStart
    <3> QED
      BY <1>2, <3>1, <3>2, <3>3 DEF OwnsStart, CallAt, Starting
  <2> QED
    BY <2>1, <2>2 DEF StartsOwn
<1>6. LoopsAreOwned'
  <2>1. ASSUME NEW l \in fwLoops, l[1] = s PROVE s \in fwLeft'
    BY <1>2, <1>3, <2>1, LoopPairs DEF OwnsStart, CallAt
  <2> QED
    BY <1>1, <1>2, <2>1 DEF LoopsAreOwned, Starting
<1>7. PortsAreExclusive'
  BY <1>1, <1>2 DEF PortsAreExclusive, CallAt
<1>8. QueriesAreOwned'
  BY <1>2 DEF QueriesAreOwned, QueryAt
<1>9. GaugeFollows'
  BY <1>1, <1>2 DEF GaugeFollows, CallAt, Starting, NobodyCalls
<1> QED
  BY <1>4, <1>5, <1>6, <1>7, <1>8, <1>9

LEMMA StartCommitsStep == ASSUME ForwarderInv, NEW o \in Operators, StartCommits(o) PROVE ForwarderInv'
<1> USE DEF ForwarderInv
<1> DEFINE s == fwCall[o].session
<1>1. /\ fwCall' \in [Operators -> [at : Starting \cup {"idle", "up", "await"}, session : Nat]]
      /\ fwCall'[o].at = "up" /\ fwCall'[o].session = s
      /\ \A other \in Operators \ {o} : fwCall'[other] = fwCall[other]
  BY CallMoves DEF StartCommits, Starting
<1>2. /\ fwCall[o].at = "commit" /\ fwSession = 0 /\ fwSession' = s
      /\ fwBegun' = fwBegun /\ fwLoops' = fwLoops /\ fwCancelled' = fwCancelled /\ fwEphemeral' = fwEphemeral
      /\ fwModule' = fwModule /\ fwGauge' = fwGauge /\ fwQuery' = fwQuery /\ fwLeft' = fwLeft /\ fwOverlap' = fwOverlap
  BY DEF StartCommits, MayCommit, CallAt, fwRest
<1>3. OwnsStart(o) /\ s \in 1..fwBegun /\ fwBegun \in Nat
  BY <1>2, SessionsBegun DEF StartsOwn
<1>4. ForwarderShape'
  BY <1>1, <1>2, <1>3 DEF ForwarderShape
<1>5. StartsOwn'
  <2>1. OwnsStart(o)'
    BY <1>1, <1>2, <1>3 DEF OwnsStart, CallAt, Starting
  <2>2. ASSUME NEW x \in Operators, x # o PROVE OwnsStart(x)'
    <3>1. fwCall'[x] = fwCall[x] /\ OwnsStart(x)
      BY <1>1, <2>2 DEF StartsOwn
    <3>2. fwCall[x].session # s
      BY <1>2, <1>3, <2>2 DEF OwnsStart, Starting
    <3>3. \A y \in Operators : fwCall'[y].session = fwCall[y].session
      BY <1>1
    <3> QED
      BY <1>2, <3>1, <3>2, <3>3 DEF OwnsStart, CallAt, Starting
  <2> QED
    BY <2>1, <2>2 DEF StartsOwn
<1>6. LoopsAreOwned'
  <2>1. s \notin fwCancelled /\ <<s, "udp">> \in fwLoops /\ <<s, "tcp">> \in fwLoops
    BY <1>2, <1>3 DEF OwnsStart, CallAt, Starting
  <2>2. ASSUME NEW l \in fwLoops PROVE l[1] # 0
    BY LoopPairs
  <2> QED
    BY <1>1, <1>2, <2>1, <2>2 DEF LoopsAreOwned
<1>7. PortsAreExclusive'
  BY <1>1, <1>2 DEF PortsAreExclusive, CallAt
<1>8. QueriesAreOwned'
  BY <1>2 DEF QueriesAreOwned, QueryAt
<1>9. GaugeFollows'
  <2>1. s # 0
    BY <1>3
  <2> QED
    BY <1>1, <1>2, <2>1 DEF GaugeFollows, CallAt, Starting, NobodyCalls
<1> QED
  BY <1>4, <1>5, <1>6, <1>7, <1>8, <1>9

\* With fixed ports, or while calls have not met, no start loses.
LEMMA StartLosesStep == ASSUME ForwarderInv, NEW o \in Operators, StartLoses(o) PROVE ForwarderInv'
<1> USE DEF ForwarderInv
<1> DEFINE s == fwCall[o].session
<1>1. /\ fwCall' \in [Operators -> [at : Starting \cup {"idle", "up", "await"}, session : Nat]]
      /\ fwCall'[o].at = "idle" /\ fwCall'[o].session = 0
      /\ \A other \in Operators \ {o} : fwCall'[other] = fwCall[other]
  BY CallMoves DEF StartLoses, StartFailed
<1>2. /\ fwCall[o].at = "commit" /\ fwSession # 0 /\ fwCancelled' = fwCancelled \cup {s}
      /\ fwModule' = (fwModule /\ o # "module")
      /\ fwSession' = fwSession /\ fwBegun' = fwBegun /\ fwLoops' = fwLoops /\ fwEphemeral' = fwEphemeral
      /\ fwGauge' = fwGauge /\ fwQuery' = fwQuery /\ fwLeft' = fwLeft /\ fwOverlap' = fwOverlap
  BY DEF StartLoses, StartFailed, MayCommit, CallAt, fwRest
<1>3. OwnsStart(o) /\ s \in 1..fwBegun /\ s # fwSession /\ <<s, "tcp">> \in fwLoops
  BY <1>2, SessionsBegun DEF StartsOwn, OwnsStart, CallAt, Starting
<1>4. ForwarderShape'
  <2>1. {fwEphemeral', fwModule', fwOverlap'} \subseteq BOOLEAN
    BY <1>2 DEF ForwarderShape
  <2> QED
    BY <1>1, <1>2, <1>3, <2>1 DEF ForwarderShape
<1>5. StartsOwn'
  <2>1. OwnsStart(o)'
    BY <1>1 DEF OwnsStart, CallAt, Starting
  <2>2. ASSUME NEW x \in Operators, x # o PROVE OwnsStart(x)'
    <3>1. fwCall'[x] = fwCall[x] /\ OwnsStart(x)
      BY <1>1, <2>2 DEF StartsOwn
    <3>2. fwCall[x].session # s
      BY <1>2, <1>3, <2>2 DEF OwnsStart, Starting
    <3>3. fwCall[x].at \in Starting => \A y \in Operators \ {x} : fwCall'[y].session # fwCall[x].session
      <4>1. fwCall[x].at \in Starting => fwCall[x].session \in 1..fwBegun
        BY SessionsBegun DEF Starting
      <4> QED
        BY <1>1, <3>1, <4>1 DEF OwnsStart
    <3> QED
      BY <1>2, <3>1, <3>2, <3>3 DEF OwnsStart, CallAt, Starting
  <2> QED
    BY <2>1, <2>2 DEF StartsOwn
<1>6. LoopsAreOwned'
  BY <1>1, <1>2, <1>3 DEF LoopsAreOwned, Starting
<1>7. PortsAreExclusive'
  <2>1. fwEphemeral
    <3>1. <<fwSession, "tcp">> \in fwLoops
      BY <1>2 DEF LoopsAreOwned
    <3> QED
      BY <1>3, <3>1 DEF PortsAreExclusive
  <2> QED
    BY <1>2, <2>1 DEF PortsAreExclusive
<1>8. QueriesAreOwned'
  BY <1>2 DEF QueriesAreOwned, QueryAt
<1>9. GaugeFollows'
  <2>1. fwOverlap
    BY <1>2 DEF GaugeFollows, Starting
  <2> QED
    BY <1>2, <2>1 DEF GaugeFollows
<1> QED
  BY <1>4, <1>5, <1>6, <1>7, <1>8, <1>9

\* start, or stop, has returned.
LEMMA ReturnedStep ==
    ASSUME ForwarderInv, NEW o \in Operators, StartReturned(o) \/ StopReturned(o)
    PROVE  ForwarderInv'
<1> USE DEF ForwarderInv
<1> DEFINE s == fwCall[o].session
<1>1. /\ fwCall' \in [Operators -> [at : Starting \cup {"idle", "up", "await"}, session : Nat]]
      /\ fwCall'[o].at = "idle" /\ fwCall'[o].session = 0
      /\ \A other \in Operators \ {o} : fwCall'[other] = fwCall[other]
  BY CallMoves DEF StartReturned, StopReturned
<1>2. /\ \/ fwCall[o].at = "up" /\ fwGauge' = 1
         \/ fwCall[o].at = "await" /\ fwGauge' = 0 /\ LoopsGone(s)
      /\ fwSession' = fwSession /\ fwBegun' = fwBegun /\ fwLoops' = fwLoops /\ fwCancelled' = fwCancelled
      /\ fwEphemeral' = fwEphemeral /\ fwModule' = fwModule /\ fwQuery' = fwQuery /\ fwLeft' = fwLeft
      /\ fwOverlap' = fwOverlap
  BY DEF StartReturned, StopReturned, GaugeOf, CallAt, fwRest
<1>4. ForwarderShape'
  BY <1>1, <1>2 DEF ForwarderShape
<1>5. StartsOwn'
  <2>1. OwnsStart(o)'
    BY <1>1 DEF OwnsStart, CallAt, Starting
  <2>2. ASSUME NEW x \in Operators, x # o PROVE OwnsStart(x)'
    <3>1. fwCall'[x] = fwCall[x] /\ OwnsStart(x)
      BY <1>1, <2>2 DEF StartsOwn
    <3>3. fwCall[x].at \in Starting => \A y \in Operators \ {x} : fwCall'[y].session # fwCall[x].session
      <4>1. fwCall[x].at \in Starting => fwCall[x].session \in 1..fwBegun
        BY SessionsBegun DEF Starting
      <4> QED
        BY <1>1, <3>1, <4>1 DEF OwnsStart
    <3> QED
      BY <1>2, <3>1, <3>3 DEF OwnsStart, CallAt, Starting
  <2> QED
    BY <2>1, <2>2 DEF StartsOwn
<1>6. LoopsAreOwned'
  BY <1>1, <1>2 DEF LoopsAreOwned, Starting
<1>7. PortsAreExclusive'
  <2>1. ASSUME NEW l \in fwLoops, fwCall[o].at = "await" PROVE l[1] # s
    BY <1>2, <2>1, LoopPairs DEF LoopsGone, Protocols
  <2> QED
    BY <1>1, <1>2, <2>1 DEF PortsAreExclusive, CallAt
<1>8. QueriesAreOwned'
  BY <1>2 DEF QueriesAreOwned, QueryAt
<1>9. GaugeFollows'
  BY <1>1, <1>2 DEF GaugeFollows, CallAt, Starting, NobodyCalls
<1> QED
  BY <1>4, <1>5, <1>6, <1>7, <1>8, <1>9

LEMMA StopForwarderStep == ASSUME ForwarderInv, NEW o \in Operators, StopForwarder(o) PROVE ForwarderInv'
<1> USE DEF ForwarderInv
<1>1. /\ fwCall' \in [Operators -> [at : Starting \cup {"idle", "up", "await"}, session : Nat]]
      /\ fwCall'[o].at = "await" /\ fwCall'[o].session = fwSession
      /\ \A other \in Operators \ {o} : fwCall'[other] = fwCall[other]
  BY CallMoves DEF StopForwarder, ForwarderShape
<1>2. /\ fwCall[o].at = "idle" /\ fwSession # 0 /\ fwSession' = 0 /\ fwCancelled' = fwCancelled \cup {fwSession}
      /\ fwModule' = (fwModule /\ o # "module")
      /\ fwOverlap' = (fwOverlap \/ \E other \in Operators : fwCall[other].at # "idle")
      /\ fwBegun' = fwBegun /\ fwLoops' = fwLoops /\ fwEphemeral' = fwEphemeral
      /\ fwGauge' = fwGauge /\ fwQuery' = fwQuery /\ fwLeft' = fwLeft
  BY DEF StopForwarder, CallBegins, TokenCancelled, CallAt
<1>3. fwSession \in 1..fwBegun
  BY <1>2 DEF ForwarderShape
<1>4. ForwarderShape'
  <2>1. {fwEphemeral', fwModule', fwOverlap'} \subseteq BOOLEAN
    BY <1>2 DEF ForwarderShape
  <2> QED
    BY <1>1, <1>2, <1>3, <2>1 DEF ForwarderShape
<1>5. StartsOwn'
  <2>1. OwnsStart(o)'
    BY <1>1, <1>2, <1>3 DEF OwnsStart, CallAt, Starting
  <2>2. ASSUME NEW x \in Operators, x # o PROVE OwnsStart(x)'
    <3>1. fwCall'[x] = fwCall[x] /\ OwnsStart(x)
      BY <1>1, <2>2 DEF StartsOwn
    <3>2. fwCall[x].at \in Starting => fwCall[x].session # fwSession /\ fwCall[x].session # 0
      BY <3>1, SessionsBegun DEF OwnsStart, Starting
    <3>3. fwCall[x].at \in Starting => \A y \in Operators \ {x} : fwCall'[y].session # fwCall[x].session
      BY <1>1, <3>1, <3>2 DEF OwnsStart
    <3> QED
      BY <1>2, <3>1, <3>2, <3>3 DEF OwnsStart, CallAt, Starting
  <2> QED
    BY <2>1, <2>2 DEF StartsOwn
<1>6. LoopsAreOwned'
  BY <1>1, <1>2 DEF LoopsAreOwned, Starting
<1>7. PortsAreExclusive'
  BY <1>1, <1>2 DEF PortsAreExclusive, CallAt
<1>8. QueriesAreOwned'
  BY <1>2 DEF QueriesAreOwned, QueryAt
<1>9. GaugeFollows'
  <2> SUFFICES ASSUME ~fwOverlap' PROVE GaugeFollows'
    BY DEF GaugeFollows
  <2>1. \A x \in Operators : fwCall'[x].at = IF x = o THEN "await" ELSE "idle"
    BY <1>1, <1>2
  <2> QED
    BY <1>2, <2>1 DEF GaugeFollows, NobodyCalls, CallAt, Starting
<1> QED
  BY <1>4, <1>5, <1>6, <1>7, <1>8, <1>9

LEMMA StopNotRunningStep == ASSUME ForwarderInv, StopNotRunning PROVE ForwarderInv'
<1> USE DEF ForwarderInv, StopNotRunning, fwRest
<1>1. ForwarderShape'
  BY DEF ForwarderShape
<1>2. StartsOwn'
  BY DEF StartsOwn, OwnsStart, CallAt
<1>3. LoopsAreOwned' /\ PortsAreExclusive'
  BY DEF LoopsAreOwned, PortsAreExclusive, CallAt
<1>4. QueriesAreOwned' /\ GaugeFollows'
  BY DEF QueriesAreOwned, QueryAt, GaugeFollows, CallAt, NobodyCalls, Starting
<1> QED
  BY <1>1, <1>2, <1>3, <1>4

LEMMA LoopEndsStep ==
    ASSUME ForwarderInv, NEW s \in 1..fwBegun, NEW p \in Protocols, ServeLoopEnds(s, p)
    PROVE  ForwarderInv'
<1> USE DEF ForwarderInv, ServeLoopEnds, fwRest
<1>1. ForwarderShape'
  BY DEF ForwarderShape
<1>2. ASSUME NEW x \in Operators PROVE OwnsStart(x)'
  <2>1. OwnsStart(x)
    BY DEF StartsOwn
  <2> QED
    BY <2>1 DEF OwnsStart, CallAt, Starting
<1>3. LoopsAreOwned'
  BY DEF LoopsAreOwned
<1>4. PortsAreExclusive'
  BY DEF PortsAreExclusive, CallAt
<1>5. QueriesAreOwned'
  BY DEF QueriesAreOwned, QueryAt
<1>6. GaugeFollows'
  BY DEF GaugeFollows, CallAt, NobodyCalls
<1> QED
  BY <1>1, <1>2, <1>3, <1>4, <1>5, <1>6 DEF StartsOwn

\* A step of one query, to a record that is of a loop.
LEMMA QueryMoves ==
    ASSUME ForwarderInv, UNCHANGED Lifecycle, NEW q \in DnsQueries,
           NEW r \in [at : {"idle", "read", "lookup"}, session : Nat, proto : Protocols],
           fwQuery' = [fwQuery EXCEPT ![q] = r],
           r.at = "read" => r.proto = "tcp",
           r.at = "idle" \/ <<r.session, r.proto>> \in fwLoops \/ r.session \in fwCancelled
    PROVE  ForwarderInv'
<1> USE DEF ForwarderInv, Lifecycle, fwRest
<1>1. ForwarderShape'
  BY DEF ForwarderShape
<1>2. StartsOwn'
  BY DEF StartsOwn, OwnsStart, CallAt
<1>3. LoopsAreOwned' /\ PortsAreExclusive'
  BY DEF LoopsAreOwned, PortsAreExclusive, CallAt
<1>4. QueriesAreOwned'
  BY DEF QueriesAreOwned, QueryAt, ForwarderShape
<1>5. GaugeFollows'
  BY DEF GaugeFollows, CallAt, NobodyCalls
<1> QED
  BY <1>1, <1>2, <1>3, <1>4, <1>5

LEMMA QueryStep ==
    ASSUME ForwarderInv, NEW q \in DnsQueries,
           \/ \E s \in 1..fwBegun, p \in Protocols : QueryArrives(q, s, p)
           \/ ConnectionReads(q) \/ ConnectionEnds(q) \/ \E ok \in BOOLEAN : QueryDone(q, ok)
    PROVE  ForwarderInv'
<1> DEFINE Q == [at : {"idle", "read", "lookup"}, session : Nat, proto : Protocols]
<1>0. fwQuery[q] \in Q /\ fwBegun \in Nat
  BY DEF ForwarderInv, ForwarderShape
<1>1. ASSUME NEW s \in 1..fwBegun, NEW p \in Protocols, QueryArrives(q, s, p) PROVE ForwarderInv'
  <2> DEFINE r == [at |-> FirstStep(p), session |-> s, proto |-> p]
  <2>1. r \in Q /\ (r.at = "read" => r.proto = "tcp") /\ <<r.session, r.proto>> \in fwLoops
    BY <1>0, <1>1 DEF FirstStep, Protocols, QueryArrives
  <2>2. fwQuery' = [fwQuery EXCEPT ![q] = r] /\ UNCHANGED Lifecycle
    BY <1>1 DEF QueryArrives
  <2> HIDE DEF r
  <2> QED
    BY <2>1, <2>2, QueryMoves
<1>2. CASE ConnectionReads(q)
  <2> DEFINE r == [fwQuery[q] EXCEPT !.at = "lookup"]
  <2>1. r \in Q /\ r.at = "lookup" /\ r.session = fwQuery[q].session /\ r.proto = fwQuery[q].proto
    BY <1>0
  <2>2. fwQuery' = [fwQuery EXCEPT ![q] = r] /\ UNCHANGED Lifecycle
    BY <1>2 DEF ConnectionReads
  <2> HIDE DEF r
  <2>3. <<r.session, r.proto>> \in fwLoops \/ r.session \in fwCancelled
    BY <1>2, <2>1 DEF ForwarderInv, QueriesAreOwned, ConnectionReads, QueryAt
  <2> QED
    BY <2>1, <2>2, <2>3, QueryMoves
<1>3. ASSUME UNCHANGED Lifecycle, fwQuery' = [fwQuery EXCEPT ![q] = NoQuery] PROVE ForwarderInv'
  <2>1. NoQuery \in Q /\ NoQuery.at = "idle"
    BY DEF NoQuery, Protocols
  <2> QED
    BY <1>3, <2>1, QueryMoves
<1>4. ASSUME NEW ok \in BOOLEAN, QueryDone(q, ok) PROVE ForwarderInv'
  <2>1. CASE fwQuery[q].proto = "tcp" /\ ok
    <3> DEFINE r == [fwQuery[q] EXCEPT !.at = "read"]
    <3>1. r \in Q /\ r.at = "read" /\ r.session = fwQuery[q].session /\ r.proto = fwQuery[q].proto
      BY <1>0
    <3>2. fwQuery' = [fwQuery EXCEPT ![q] = r] /\ UNCHANGED Lifecycle
      BY <1>4, <2>1 DEF QueryDone
    <3> HIDE DEF r
    <3>3. <<r.session, r.proto>> \in fwLoops \/ r.session \in fwCancelled
      BY <1>4, <3>1 DEF ForwarderInv, QueriesAreOwned, QueryDone, QueryAt
    <3> QED
      BY <2>1, <3>1, <3>2, <3>3, QueryMoves
  <2>2. CASE ~(fwQuery[q].proto = "tcp" /\ ok)
    BY <1>3, <1>4, <2>2 DEF QueryDone
  <2> QED
    BY <2>1, <2>2
<1> QED
  BY <1>1, <1>2, <1>3, <1>4 DEF ConnectionEnds

LEMMA ForwarderStep == ForwarderInv /\ [ForwarderNext]_forwarderVars => ForwarderInv'
<1> SUFFICES ASSUME ForwarderInv, [ForwarderNext]_forwarderVars PROVE ForwarderInv'
  OBVIOUS
<1>1. ASSUME NEW o \in Operators, StartForwarder(o) \/ StopForwarder(o) PROVE ForwarderInv'
  BY <1>1, StartForwarderStep, StopForwarderStep
<1>2. ASSUME NEW o \in Operators, OperatorStep(o) PROVE ForwarderInv'
  BY <1>2, BindUdpStep, BindFailsStep, BindTcpStep, StartCommitsStep, StartLosesStep, ReturnedStep DEF OperatorStep
<1>3. CASE StopNotRunning \/ SessionLoopEnds
  BY <1>3, StopNotRunningStep, LoopEndsStep DEF SessionLoopEnds
<1>4. ASSUME NEW q \in DnsQueries,
             \/ \E s \in 1..fwBegun, p \in Protocols : QueryArrives(q, s, p)
             \/ ConnectionReads(q) \/ ConnectionEnds(q) \/ \E ok \in BOOLEAN : QueryDone(q, ok)
      PROVE  ForwarderInv'
  BY <1>4, QueryStep
<1>5. CASE UNCHANGED forwarderVars
  <2> USE <1>5 DEF forwarderVars, fwRest, ForwarderInv
  <2>1. ForwarderShape' /\ StartsOwn'
    BY DEF ForwarderShape, StartsOwn, OwnsStart, CallAt
  <2>2. LoopsAreOwned' /\ PortsAreExclusive'
    BY DEF LoopsAreOwned, PortsAreExclusive, CallAt
  <2>3. QueriesAreOwned' /\ GaugeFollows'
    BY DEF QueriesAreOwned, QueryAt, GaugeFollows, CallAt, NobodyCalls
  <2> QED
    BY <2>1, <2>2, <2>3
<1> QED
  BY <1>1, <1>2, <1>3, <1>4, <1>5 DEF ForwarderNext

LEMMA ForwarderSound ==
    ForwarderInv => ForwarderTypeOK /\ RunningIsServed /\ StoppedIsReleased /\ GaugeLiesOnlyIfOverlapped
<1> SUFFICES ASSUME ForwarderInv
             PROVE  ForwarderTypeOK /\ RunningIsServed /\ StoppedIsReleased /\ GaugeLiesOnlyIfOverlapped
  OBVIOUS
<1> USE DEF ForwarderInv
<1>1. ForwarderTypeOK
  BY DEF ForwarderTypeOK, ForwarderShape, QueriesAreOwned, QueryAt
<1>2. RunningIsServed
  BY DEF RunningIsServed, LoopsAreOwned, Protocols
<1>3. ASSUME NobodyCalls, fwSession = 0, fwLeft = {}, ~fwEphemeral
      PROVE  /\ fwLoops = {}
             /\ UdpHeld => \E q \in DnsQueries : QueryAt(q, "lookup") /\ fwQuery[q].session \in fwCancelled
  <2>1. \A o \in Operators : fwCall[o].at = "idle"
    BY <1>3 DEF NobodyCalls, CallAt
  <2>2. ASSUME NEW l \in fwLoops PROVE FALSE
    <3>1. l[1] # 0
      BY LoopPairs
    <3>2. l[1] \in fwCancelled
      BY <1>3, <2>1, <3>1 DEF LoopsAreOwned, Starting
    <3> QED
      BY <1>3, <2>1, <3>2 DEF PortsAreExclusive, CallAt
  <2>3. ASSUME NEW q \in DnsQueries, ~QueryAt(q, "idle"), fwQuery[q].proto = "udp"
        PROVE  QueryAt(q, "lookup") /\ fwQuery[q].session \in fwCancelled
    BY <2>2, <2>3 DEF QueriesAreOwned, QueryAt, ForwarderShape
  <2> QED
    BY <2>2, <2>3 DEF UdpHeld
<1>4. ASSUME NobodyCalls, ~fwOverlap PROVE (fwGauge = 1) = (fwSession # 0)
  BY <1>4 DEF GaugeFollows
<1> QED
  BY <1>1, <1>2, <1>3, <1>4 DEF StoppedIsReleased, GaugeLiesOnlyIfOverlapped

-----------------------------------------------------------------------------
(* The answer cache *)

Entry == [ttls : TtlLists, at : Nat]

CacheShape ==
    /\ dcClock \in Nat
    /\ DOMAIN dcEntries \subseteq CacheKeys /\ IsFiniteSet(DOMAIN dcEntries)
    /\ \A k \in DOMAIN dcEntries : dcEntries[k] \in Entry /\ dcEntries[k].at <= dcClock
    /\ dcOrder \in Seq(CacheKeys)
    /\ dcExpired \in BOOLEAN

CacheInv == CacheShape /\ DOMAIN dcEntries \subseteq Range(dcOrder) /\ NoStaleAnswer /\ OrderedUntilExpiry

\* The least of the TTLs is at most each of them.
LEMMA LeastTtl ==
    ASSUME NEW ttls \in TtlLists
    PROVE  /\ MinPositiveTtl(ttls) \in Nat
           /\ \A i \in DOMAIN ttls : Max({ttls[i], 1}) \in Nat /\ MinPositiveTtl(ttls) <= Max({ttls[i], 1})
<1>1. ASSUME NEW n \in Int PROVE Max({n, 1}) = IF n >= 1 THEN n ELSE 1
  <2>1. \E x \in {n, 1} : \A y \in {n, 1} : x >= y
    OBVIOUS
  <2>2. Max({n, 1}) \in {n, 1} /\ \A y \in {n, 1} : Max({n, 1}) >= y
    BY <2>1 DEF Max
  <2> QED
    BY <2>2
<1>2. ASSUME NEW a \in Nat, NEW b \in Nat PROVE Min({a, b}) \in {a, b} /\ Min({a, b}) <= a /\ Min({a, b}) <= b
  <2>1. \E x \in {a, b} : \A y \in {a, b} : x <= y
    OBVIOUS
  <2> QED
    BY <2>1 DEF Min
<1> DEFINE lifted == {Max({ttls[i], 1}) : i \in DOMAIN ttls}
<1>3. CASE ttls = <<0>>
  <2>1. DOMAIN ttls = {1} /\ ttls[1] = 0
    BY <1>3
  <2>2. lifted = {1} /\ \A i \in DOMAIN ttls : Max({ttls[i], 1}) = 1
    BY <1>1, <2>1
  <2>3. Min({1}) = 1
    BY DEF Min
  <2>4. MinPositiveTtl(ttls) = 1
    BY <2>2, <2>3, Zenon DEF MinPositiveTtl
  <2> QED
    BY <2>2, <2>4
<1>4. CASE ttls = <<3, 1>>
  <2>1. DOMAIN ttls = {1, 2} /\ ttls[1] = 3 /\ ttls[2] = 1
    BY <1>4
  <2>2. Max({ttls[1], 1}) = 3 /\ Max({ttls[2], 1}) = 1
    BY <1>1, <2>1
  <2>3. lifted = {3, 1}
    BY <2>1, <2>2
  <2> QED
    BY <1>2, <2>1, <2>2, <2>3 DEF MinPositiveTtl
<1>5. CASE ttls = <<-1, 2>>
  <2>1. DOMAIN ttls = {1, 2} /\ ttls[1] = -1 /\ ttls[2] = 2
    BY <1>5
  <2>2. Max({ttls[1], 1}) = 1 /\ Max({ttls[2], 1}) = 2
    BY <1>1, <2>1
  <2>3. lifted = {1, 2}
    BY <2>1, <2>2
  <2> QED
    BY <1>2, <2>1, <2>2, <2>3 DEF MinPositiveTtl
<1> QED
  BY <1>3, <1>4, <1>5 DEF TtlLists

LEMMA CacheStart == CacheInit => CacheInv
<1> SUFFICES ASSUME CacheInit PROVE CacheInv
  OBVIOUS
<1>1. DOMAIN dcEntries = {} /\ Range(dcOrder) = {} /\ dcOrder \in Seq(CacheKeys) /\ DOMAIN dcOrder = {}
  BY DEF CacheInit, Range
<1>2. CacheShape
  BY <1>1, FS_EmptySet DEF CacheInit, CacheShape
<1>3. NoStaleAnswer
  <2>1. dcHit.age = 0 /\ dcHit.ttls = <<1>>
    BY DEF CacheInit, NoHit
  <2>2. DOMAIN dcHit.ttls = {1} /\ dcHit.ttls[1] = 1
    BY <2>1
  <2>3. Max({1, 1}) = 1
    BY DEF Max
  <2> QED
    BY <2>1, <2>2, <2>3 DEF NoStaleAnswer
<1>4. OrderedUntilExpiry
  BY <1>1, FS_EmptySet, CacheAssumption DEF OrderedUntilExpiry, IsInjective
<1> QED
  BY <1>1, <1>2, <1>3, <1>4 DEF CacheInv

\* A hit is younger than each TTL.
LEMMA HitStep == ASSUME CacheInv, NEW k \in CacheKeys, CacheHit(k) PROVE CacheInv'
<1> DEFINE e == dcEntries[k]
<1>1. e \in Entry /\ e.at <= dcClock /\ dcClock \in Nat
  BY DEF CacheInv, CacheShape, CacheHit, In
<1>2. e.ttls \in TtlLists /\ e.at \in Nat
  BY <1>1 DEF Entry
<1>3. dcClock < e.at + MinPositiveTtl(e.ttls)
  BY DEF CacheHit, ExpiresAt
<1>4. dcHit'.age = dcClock - e.at /\ dcHit'.ttls = e.ttls
  BY DEF CacheHit
<1>5. NoStaleAnswer'
  BY <1>1, <1>2, <1>3, <1>4, LeastTtl DEF NoStaleAnswer
<1> QED
  BY <1>5 DEF CacheHit, CacheInv, CacheShape, OrderedUntilExpiry

LEMMA ExpiresStep == ASSUME CacheInv, NEW k \in CacheKeys, CacheExpires(k) PROVE CacheInv'
<1>1. DOMAIN dcEntries' = DOMAIN dcEntries \ {k} /\ \A j \in DOMAIN dcEntries' : dcEntries'[j] = dcEntries[j]
  BY DEF CacheExpires, Without
<1>2. IsFiniteSet(DOMAIN dcEntries')
  BY <1>1, FS_RemoveElement DEF CacheInv, CacheShape
<1>3. CacheShape'
  BY <1>1, <1>2 DEF CacheShape, CacheInv, CacheExpires
<1> QED
  BY <1>1, <1>3 DEF CacheInv, NoStaleAnswer, OrderedUntilExpiry, CacheExpires

LEMMA FlushStep == ASSUME CacheInv, CacheFlush PROVE CacheInv'
<1>1. DOMAIN dcEntries' = {} /\ Range(dcOrder') = {} /\ dcOrder' \in Seq(CacheKeys) /\ DOMAIN dcOrder' = {}
  BY DEF CacheFlush, Range
<1>2. CacheShape'
  BY <1>1, FS_EmptySet DEF CacheInv, CacheFlush, CacheShape
<1>3. NoStaleAnswer'
  BY DEF CacheInv, CacheFlush, NoStaleAnswer
<1>4. OrderedUntilExpiry'
  BY <1>1, FS_EmptySet, CacheAssumption DEF OrderedUntilExpiry, IsInjective
<1> QED
  BY <1>1, <1>2, <1>3, <1>4 DEF CacheInv

\* Taking the first key from an order, and putting a new one at its end.
LEMMA TailRange ==
    ASSUME NEW S, NEW s \in Seq(S), s # << >>
    PROVE  /\ Tail(s) \in Seq(S) /\ Head(s) \in Range(s)
           /\ Range(s) \ {Head(s)} \subseteq Range(Tail(s)) /\ Range(Tail(s)) \subseteq Range(s)
           /\ IsInjective(s) => IsInjective(Tail(s)) /\ Head(s) \notin Range(Tail(s))
<1>1. Len(s) \in Nat /\ Len(s) >= 1 /\ DOMAIN s = 1..Len(s) /\ Head(s) = s[1]
  OBVIOUS
<1>2. Tail(s) \in Seq(S) /\ DOMAIN Tail(s) = 1..(Len(s) - 1) /\ \A i \in 1..(Len(s) - 1) : Tail(s)[i] = s[i + 1]
  BY <1>1
<1>3. Head(s) \in Range(s) /\ Range(Tail(s)) \subseteq Range(s)
  BY <1>1, <1>2 DEF Range
<1>4. ASSUME NEW i \in 1..Len(s), s[i] # Head(s) PROVE s[i] \in Range(Tail(s))
  <2>1. i - 1 \in 1..(Len(s) - 1) /\ Tail(s)[i - 1] = s[i]
    BY <1>1, <1>2, <1>4
  <2> QED
    BY <1>2, <2>1 DEF Range
<1>5. ASSUME IsInjective(s) PROVE IsInjective(Tail(s)) /\ Head(s) \notin Range(Tail(s))
  <2>1. \A i, j \in 1..Len(s) : s[i] = s[j] => i = j
    BY <1>1, <1>5 DEF IsInjective
  <2>2. IsInjective(Tail(s))
    BY <1>1, <1>2, <2>1 DEF IsInjective
  <2>3. \A i \in 1..(Len(s) - 1) : Tail(s)[i] # s[1]
    BY <1>1, <1>2, <2>1
  <2> QED
    BY <1>1, <1>2, <2>2, <2>3 DEF Range
<1> QED
  BY <1>1, <1>2, <1>3, <1>4, <1>5 DEF Range

LEMMA AppendRange ==
    ASSUME NEW S, NEW s \in Seq(S), NEW k \in S
    PROVE  /\ Append(s, k) \in Seq(S) /\ Range(Append(s, k)) = Range(s) \cup {k}
           /\ IsInjective(s) /\ k \notin Range(s) => IsInjective(Append(s, k))
<1>1. Len(s) \in Nat /\ DOMAIN s = 1..Len(s)
  OBVIOUS
<1>2. Append(s, k) \in Seq(S) /\ DOMAIN Append(s, k) = 1..(Len(s) + 1)
      /\ Append(s, k)[Len(s) + 1] = k /\ \A i \in 1..Len(s) : Append(s, k)[i] = s[i]
  OBVIOUS
<1>3. Range(Append(s, k)) = Range(s) \cup {k}
  BY <1>1, <1>2 DEF Range
<1>4. ASSUME IsInjective(s), k \notin Range(s) PROVE IsInjective(Append(s, k))
  BY <1>1, <1>2, <1>4 DEF Range, IsInjective
<1> QED
  BY <1>2, <1>3, <1>4

\* What an insert leaves in the order before the key.
LEMMA InsertKeeps ==
    ASSUME CacheInv, NEW k \in CacheKeys, NEW ttls \in TtlLists, CacheInsert(k, ttls)
    PROVE  \E evicted, kept :
              /\ kept \in Seq(CacheKeys)
              /\ \/ evicted = {} /\ kept = dcOrder /\ (In(k) \/ Cardinality(DOMAIN dcEntries) < MaxEntries \/ dcOrder = << >>)
                 \/ /\ dcOrder # << >> /\ evicted = {Head(dcOrder)} /\ kept = Tail(dcOrder)
                    /\ ~In(k) /\ Cardinality(DOMAIN dcEntries) >= MaxEntries
              /\ dcEntries' = [j \in (DOMAIN dcEntries \ evicted) \cup {k} |->
                                 IF j = k THEN [ttls |-> ttls, at |-> dcClock] ELSE dcEntries[j]]
              /\ dcOrder' = IF In(k) THEN kept ELSE Append(kept, k)
<1> DEFINE evicted == IF Evicts(k) /\ dcOrder # << >> THEN {Head(dcOrder)} ELSE {}
           kept == IF evicted = {} THEN dcOrder ELSE Tail(dcOrder)
<1>1. /\ dcEntries' = [j \in (DOMAIN dcEntries \ evicted) \cup {k} |->
                         IF j = k THEN [ttls |-> ttls, at |-> dcClock] ELSE dcEntries[j]]
      /\ dcOrder' = IF In(k) THEN kept ELSE Append(kept, k)
  BY Zenon DEF CacheInsert, Queued
<1>2. Cardinality(DOMAIN dcEntries) \in Nat /\ MaxEntries \in Nat /\ dcOrder \in Seq(CacheKeys)
  BY FS_CardinalityType, CacheAssumption DEF CacheInv, CacheShape
<1>3. CASE Evicts(k) /\ dcOrder # << >>
  <2>1. evicted = {Head(dcOrder)} /\ kept = Tail(dcOrder)
    BY <1>3
  <2>2. kept \in Seq(CacheKeys) /\ ~In(k) /\ Cardinality(DOMAIN dcEntries) >= MaxEntries
    BY <1>2, <1>3, <2>1, TailRange DEF Evicts
  <2> HIDE DEF evicted, kept
  <2> QED
    BY <1>1, <1>3, <2>1, <2>2
<1>4. CASE ~(Evicts(k) /\ dcOrder # << >>)
  <2>1. evicted = {} /\ kept = dcOrder
    BY <1>4
  <2>2. In(k) \/ Cardinality(DOMAIN dcEntries) < MaxEntries \/ dcOrder = << >>
    BY <1>2, <1>4 DEF Evicts
  <2> HIDE DEF evicted, kept
  <2> QED
    BY <1>1, <1>2, <2>1, <2>2
<1> QED
  BY <1>3, <1>4

LEMMA InsertStep ==
    ASSUME CacheInv, NEW k \in CacheKeys, NEW ttls \in TtlLists, CacheInsert(k, ttls)
    PROVE  CacheInv'
<1> DEFINE D == DOMAIN dcEntries
<1>1. PICK evicted, kept :
          /\ kept \in Seq(CacheKeys)
          /\ \/ evicted = {} /\ kept = dcOrder /\ (In(k) \/ Cardinality(D) < MaxEntries \/ dcOrder = << >>)
             \/ /\ dcOrder # << >> /\ evicted = {Head(dcOrder)} /\ kept = Tail(dcOrder)
                /\ ~In(k) /\ Cardinality(D) >= MaxEntries
          /\ dcEntries' = [j \in (D \ evicted) \cup {k} |-> IF j = k THEN [ttls |-> ttls, at |-> dcClock] ELSE dcEntries[j]]
          /\ dcOrder' = IF In(k) THEN kept ELSE Append(kept, k)
  BY InsertKeeps
<1>2. dcOrder \in Seq(CacheKeys) /\ D \subseteq Range(dcOrder) /\ IsFiniteSet(D) /\ D \subseteq CacheKeys
      /\ dcClock \in Nat /\ dcClock' = dcClock /\ dcHit' = dcHit /\ dcExpired' = dcExpired
  BY DEF CacheInv, CacheShape, CacheInsert
<1>3. DOMAIN dcEntries' = (D \ evicted) \cup {k}
  BY <1>1
<1>4. IsFiniteSet(D \ evicted) /\ IsFiniteSet((D \ evicted) \cup {k})
  BY <1>2, FS_Subset, FS_AddElement
<1>5. ASSUME NEW j \in DOMAIN dcEntries' PROVE dcEntries'[j] \in Entry /\ dcEntries'[j].at <= dcClock
  <2>1. CASE j = k
    <3>1. dcEntries'[j] = [ttls |-> ttls, at |-> dcClock]
      BY <1>1, <1>3, <2>1
    <3> QED
      BY <1>2, <3>1 DEF Entry
  <2>2. CASE j # k
    <3>1. dcEntries'[j] = dcEntries[j] /\ j \in D
      BY <1>1, <1>3, <1>5, <2>2
    <3> QED
      BY <3>1 DEF CacheInv, CacheShape
  <2> QED
    BY <2>1, <2>2
<1>6. D \ evicted \subseteq Range(kept)
  BY <1>1, <1>2, TailRange
<1>7. dcOrder' \in Seq(CacheKeys) /\ (D \ evicted) \cup {k} \subseteq Range(dcOrder')
  <2>1. CASE In(k)
    BY <1>1, <1>6, <2>1 DEF In
  <2>2. CASE ~In(k)
    BY <1>1, <1>6, <2>2, AppendRange
  <2> QED
    BY <2>1, <2>2
<1>8. CacheShape'
  BY <1>2, <1>3, <1>4, <1>5, <1>7 DEF CacheShape, CacheInv
<1>9. NoStaleAnswer'
  BY <1>2 DEF CacheInv, NoStaleAnswer
<1>10. ASSUME ~dcExpired PROVE OrderedUntilExpiry'
  <2>1. Range(dcOrder) = D /\ IsInjective(dcOrder) /\ Cardinality(D) <= MaxEntries
    BY <1>10 DEF CacheInv, OrderedUntilExpiry
  <2>2. Range(kept) = D \ evicted /\ IsInjective(kept)
    <3>1. CASE evicted = {} /\ kept = dcOrder
      BY <2>1, <3>1
    <3>2. CASE dcOrder # << >> /\ evicted = {Head(dcOrder)} /\ kept = Tail(dcOrder)
      <4>1. IsInjective(kept) /\ Head(dcOrder) \notin Range(kept) /\ Range(kept) \subseteq D
        BY <1>2, <2>1, <3>2, TailRange
      <4> QED
        BY <1>6, <3>2, <4>1
    <3> QED
      BY <1>1, <3>1, <3>2
  <2>3. Cardinality(D) \in Nat /\ MaxEntries \in Nat \ {0}
    BY <1>2, FS_CardinalityType, CacheAssumption
  <2>4. CASE In(k)
    <3>1. (D \ evicted) \cup {k} = D /\ dcOrder' = dcOrder
      BY <1>1, <2>4 DEF In
    <3> QED
      BY <1>3, <2>1, <3>1 DEF OrderedUntilExpiry
  <2>5. CASE ~In(k)
    <3>1. k \notin D \ evicted /\ dcOrder' = Append(kept, k)
      BY <1>1, <2>5 DEF In
    <3>2. Range(dcOrder') = (D \ evicted) \cup {k} /\ IsInjective(dcOrder')
      BY <1>1, <2>2, <3>1, AppendRange
    <3>3. Cardinality((D \ evicted) \cup {k}) = Cardinality(D \ evicted) + 1
      BY <1>4, <3>1, FS_AddElement
    <3>4. Cardinality(D \ evicted) + 1 <= MaxEntries
      <4>1. CASE evicted = {}
        <5>1. dcOrder = << >> => D = {}
          BY <2>1 DEF Range
        <5>2. Cardinality(D) < MaxEntries \/ dcOrder = << >>
          BY <1>1, <2>5, <4>1
        <5>3. Cardinality(D) < MaxEntries
          BY <2>3, <5>1, <5>2, FS_EmptySet
        <5>4. D \ evicted = D
          BY <4>1
        <5> QED
          BY <2>3, <5>3, <5>4
      <4>2. CASE evicted # {}
        <5>1. evicted = {Head(dcOrder)} /\ Head(dcOrder) \in D
          BY <1>1, <1>2, <2>1, <4>2, TailRange
        <5>2. Cardinality(D \ {Head(dcOrder)}) = Cardinality(D) - 1
          BY <1>2, <5>1, FS_RemoveElement
        <5> QED
          BY <2>1, <2>3, <5>1, <5>2
      <4> QED
        BY <4>1, <4>2
    <3> QED
      BY <1>3, <3>2, <3>3, <3>4 DEF OrderedUntilExpiry
  <2> QED
    BY <2>4, <2>5
<1>11. OrderedUntilExpiry'
  BY <1>2, <1>10 DEF OrderedUntilExpiry
<1> QED
  BY <1>3, <1>7, <1>8, <1>9, <1>11 DEF CacheInv

LEMMA CacheStep == CacheInv /\ [CacheNext]_cacheVars => CacheInv'
<1> SUFFICES ASSUME CacheInv, [CacheNext]_cacheVars PROVE CacheInv'
  OBVIOUS
<1>1. ASSUME NEW k \in CacheKeys, CacheHit(k) \/ CacheExpires(k) PROVE CacheInv'
  BY <1>1, HitStep, ExpiresStep
<1>2. ASSUME NEW k \in CacheKeys, NEW ttls \in TtlLists, CacheInsert(k, ttls) PROVE CacheInv'
  BY <1>2, InsertStep
<1>3. CASE CacheFlush
  BY <1>3, FlushStep
<1>4. CASE SecondPasses
  <2>1. CacheShape'
    BY <1>4 DEF SecondPasses, CacheInv, CacheShape, Entry
  <2> QED
    BY <1>4, <2>1 DEF SecondPasses, CacheInv, NoStaleAnswer, OrderedUntilExpiry
<1>5. CASE UNCHANGED cacheVars
  BY <1>5 DEF cacheVars, CacheInv, CacheShape, NoStaleAnswer, OrderedUntilExpiry
<1> QED
  BY <1>1, <1>2, <1>3, <1>4, <1>5 DEF CacheNext

LEMMA CacheSound == CacheInv => CacheTypeOK /\ NoStaleAnswer /\ OrderedUntilExpiry
<1> SUFFICES ASSUME CacheInv PROVE CacheTypeOK
  BY DEF CacheInv
<1>1. ASSUME NEW k \in DOMAIN dcEntries PROVE dcEntries[k].ttls \in TtlLists /\ dcEntries[k].at \in 0..dcClock
  BY DEF CacheInv, CacheShape, Entry
<1> QED
  BY <1>1 DEF CacheInv, CacheShape, CacheTypeOK

\* Who pushes out what has not expired.
LEMMA FreshStaysStep ==
    ASSUME CacheInv, [CacheNext]_cacheVars, NEW j \in DOMAIN dcEntries \ DOMAIN dcEntries'
    PROVE  \/ dcClock >= ExpiresAt(j) \/ dcEntries' = << >>
           \/ Cardinality(DOMAIN dcEntries) >= MaxEntries /\ DOMAIN dcEntries' \ DOMAIN dcEntries # {}
<1>1. ASSUME NEW k \in CacheKeys, CacheHit(k) PROVE FALSE
  BY <1>1 DEF CacheHit
<1>2. ASSUME NEW k \in CacheKeys, CacheExpires(k) PROVE dcClock >= ExpiresAt(j)
  <2>1. DOMAIN dcEntries' = DOMAIN dcEntries \ {k}
    BY <1>2 DEF CacheExpires, Without
  <2> QED
    BY <1>2, <2>1 DEF CacheExpires
<1>3. ASSUME NEW k \in CacheKeys, NEW ttls \in TtlLists, CacheInsert(k, ttls)
      PROVE  Cardinality(DOMAIN dcEntries) >= MaxEntries /\ DOMAIN dcEntries' \ DOMAIN dcEntries # {}
  <2>1. PICK evicted, kept :
            /\ \/ evicted = {}
               \/ ~In(k) /\ Cardinality(DOMAIN dcEntries) >= MaxEntries
            /\ dcEntries' = [i \in (DOMAIN dcEntries \ evicted) \cup {k} |->
                               IF i = k THEN [ttls |-> ttls, at |-> dcClock] ELSE dcEntries[i]]
    BY <1>3, InsertKeeps, Zenon
  <2>2. DOMAIN dcEntries' = (DOMAIN dcEntries \ evicted) \cup {k}
    BY <2>1
  <2>3. evicted # {}
    BY <2>2
  <2> QED
    BY <2>1, <2>2, <2>3 DEF In
<1>4. CASE CacheFlush
  BY <1>4 DEF CacheFlush
<1>5. CASE SecondPasses \/ UNCHANGED cacheVars
  BY <1>5 DEF SecondPasses, cacheVars
<1> QED
  BY <1>1, <1>2, <1>3, <1>4, <1>5 DEF CacheNext

-----------------------------------------------------------------------------
(* DohClient *)

\* How many servers back from the one at `i` the list has server s.
Back(i, s) == IF s <= i THEN i - s ELSE i - s + NUpstreams

\* The n servers before the one at `i` are dead.
DeadBefore(i, n) == \A s \in Server : Back(i, s) \in 1..n => s \in dhDead
\* And that one.
DeadUpTo(i, n) == \A s \in Server : Back(i, s) < n => s \in dhDead

LookupSteps == {"idle", "resolve", "try", "wait", "json", "done"}
Outcomes == {"", "unsupported", "hit", "invalid", "noerror", "nxdomain", "refused", "failed", "cancelled", "timeout",
             "exhausted"}
Lookup == [at : LookupSteps, attempt : 0..MaxRetries, server : Server, mixed : BOOLEAN, outcome : Outcomes]

DohShape ==
    /\ dhLookup \in [Lookups -> Lookup]
    /\ dhIndex \in Server /\ dhDead \subseteq Server

\* While only this lookup moves the index, its attempts go round the servers.
RoundTheServers(l) ==
    /\ dhLookup[l].at \in {"idle", "resolve"} => dhLookup[l].attempt = 0
    /\ dhLookup[l].at = "wait" => dhLookup[l].attempt < MaxRetries
    /\ dhLookup[l].at \in {"try", "wait"} => dhLookup[l].attempt > 0
    /\ dhLookup[l].at # "done" => dhLookup[l].outcome # "exhausted"
    /\ ~dhLookup[l].mixed =>
        /\ dhLookup[l].at = "try" => dhLookup[l].server = dhIndex /\ DeadBefore(dhIndex, dhLookup[l].attempt - 1)
        /\ dhLookup[l].at = "wait" => DeadBefore(dhIndex, dhLookup[l].attempt)
        /\ dhLookup[l].outcome = "exhausted" => DeadUpTo(dhLookup[l].server, MaxRetries)

DohInv == DohShape /\ \A l \in Lookups : RoundTheServers(l)

LEMMA ServerFacts ==
    /\ NUpstreams \in Nat \ {0} /\ MaxRetries \in Nat \ {0}
    /\ Server = {s \in Nat : s < NUpstreams} /\ 0 \in Server
    /\ \A i \in Server : (i + 1) % NUpstreams = IF i + 1 = NUpstreams THEN 0 ELSE i + 1
<1>1. NUpstreams \in Nat \ {0} /\ MaxRetries \in Nat \ {0}
  BY DohAssumption
<1>2. Server = {s \in Nat : s < NUpstreams} /\ 0 \in Server
  BY <1>1 DEF Server
<1>3. ASSUME NEW i \in Nat, i < NUpstreams PROVE (i + 1) % NUpstreams = IF i + 1 = NUpstreams THEN 0 ELSE i + 1
  BY <1>1, <1>3, NextRemainder
<1> QED
  BY <1>1, <1>2, <1>3

LEMMA NoLookupType == NoLookup \in Lookup
<1>1. 0 \in 0..MaxRetries /\ 0 \in Server /\ "idle" \in LookupSteps /\ "" \in Outcomes
  BY ServerFacts DEF LookupSteps, Outcomes
<1> QED
  BY <1>1 DEF NoLookup, Lookup

LEMMA DohStart == DohInit => DohInv
<1> SUFFICES ASSUME DohInit PROVE DohInv
  OBVIOUS
<1>1. NoLookup \in Lookup
  BY NoLookupType
<1>2. DohShape
  BY <1>1, ServerFacts DEF DohInit, DohShape
<1>3. \A l \in Lookups : RoundTheServers(l)
  BY DEF DohInit, NoLookup, RoundTheServers
<1> QED
  BY <1>2, <1>3 DEF DohInv

\* A step of one lookup that leaves the index alone.
LEMMA OneLookup ==
    ASSUME DohInv, NEW l \in Lookups, NEW r \in Lookup, dhLookup' = [dhLookup EXCEPT ![l] = r],
           dhIndex' = dhIndex, dhDead' = dhDead, RoundTheServers(l)'
    PROVE  DohInv'
<1>1. DohShape'
  BY DEF DohInv, DohShape
<1>2. ASSUME NEW k \in Lookups, k # l PROVE RoundTheServers(k)'
  <2>1. dhLookup'[k] = dhLookup[k]
    BY <1>2 DEF DohInv, DohShape
  <2> QED
    BY <2>1 DEF DohInv, RoundTheServers, DeadBefore, DeadUpTo
<1> QED
  BY <1>1, <1>2 DEF DohInv

LEMMA LookupFields ==
    ASSUME NEW r \in Lookup
    PROVE  /\ r.at \in LookupSteps /\ r.attempt \in 0..MaxRetries /\ r.server \in Server
           /\ r.mixed \in BOOLEAN /\ r.outcome \in Outcomes
           /\ \A p \in LookupSteps : [r EXCEPT !.at = p] \in Lookup
           /\ \A p \in LookupSteps, o \in Outcomes : [r EXCEPT !.at = p, !.outcome = o] \in Lookup
           /\ \A b \in BOOLEAN : [r EXCEPT !.mixed = b] \in Lookup
BY DEF Lookup

\* An answer, whatever it is, but "exhausted".
LEMMA LookupAnswered ==
    ASSUME DohInv, NEW l \in Lookups, NEW outcome \in Outcomes, outcome # "exhausted", Answered(l, outcome),
           dhIndex' = dhIndex, dhDead' = dhDead
    PROVE  DohInv'
<1> DEFINE r == [dhLookup[l] EXCEPT !.at = "done", !.outcome = outcome]
<1>1. dhLookup[l] \in Lookup
  BY DEF DohInv, DohShape
<1>2. r \in Lookup /\ r.at = "done" /\ r.outcome = outcome
  BY <1>1 DEF Lookup, LookupSteps
<1>3. dhLookup' = [dhLookup EXCEPT ![l] = r]
  BY DEF Answered
<1> HIDE DEF r
<1>4. dhLookup'[l] = r
  BY <1>3 DEF DohInv, DohShape
<1>5. RoundTheServers(l)'
  BY <1>2, <1>4 DEF RoundTheServers
<1> QED
  BY <1>2, <1>3, <1>5, OneLookup

LEMMA LookupBeginsStep == ASSUME DohInv, NEW l \in Lookups, LookupBegins(l) PROVE DohInv'
<1> DEFINE r == [dhLookup[l] EXCEPT !.at = "resolve"]
<1>1. dhLookup[l] \in Lookup
  BY DEF DohInv, DohShape
<1>2. r \in Lookup /\ r.at = "resolve" /\ r.attempt = dhLookup[l].attempt /\ r.outcome = dhLookup[l].outcome
  BY <1>1 DEF Lookup, LookupSteps
<1>3. dhLookup' = [dhLookup EXCEPT ![l] = r]
  BY DEF LookupBegins
<1> HIDE DEF r
<1>4. dhLookup'[l] = r
  BY <1>3 DEF DohInv, DohShape
<1>5. RoundTheServers(l)'
  BY <1>2, <1>4 DEF RoundTheServers, DohInv, LookupBegins, LookupAt
<1> QED
  BY <1>2, <1>3, <1>5, OneLookup DEF LookupBegins

LEMMA TryFields ==
    ASSUME DohInv, NEW l \in Lookups, dhLookup[l].at \in {"resolve", "wait"}
    PROVE  /\ Try(l) \in Lookup /\ Try(l).at = "try" /\ Try(l).attempt = dhLookup[l].attempt + 1
           /\ Try(l).server = dhIndex /\ Try(l).mixed = dhLookup[l].mixed /\ Try(l).outcome = dhLookup[l].outcome
<1>1. dhLookup[l] \in Lookup /\ dhIndex \in Server
  BY DEF DohInv, DohShape
<1>2. dhLookup[l].attempt + 1 \in 0..MaxRetries
  BY <1>1, ServerFacts DEF DohInv, RoundTheServers, Lookup
<1> QED
  BY <1>1, <1>2 DEF Try, Lookup, LookupSteps

LEMMA AttemptStep == ASSUME DohInv, NEW l \in Lookups, Attempt(l) PROVE DohInv'
<1>1. /\ Try(l) \in Lookup /\ Try(l).at = "try" /\ Try(l).attempt = dhLookup[l].attempt + 1
      /\ Try(l).server = dhIndex /\ Try(l).mixed = dhLookup[l].mixed /\ Try(l).outcome = dhLookup[l].outcome
  BY TryFields DEF Attempt
<1>2. dhLookup' = [dhLookup EXCEPT ![l] = Try(l)] /\ dhIndex' = dhIndex /\ dhDead' = dhDead
  BY DEF Attempt
<1>3. dhLookup'[l] = Try(l)
  BY <1>2 DEF DohInv, DohShape
<1>4. dhLookup[l].attempt \in Nat
  BY ServerFacts DEF DohInv, DohShape, Lookup
<1>5. dhLookup[l].outcome # "exhausted"
  BY DEF DohInv, RoundTheServers, Attempt
<1>6. ASSUME ~dhLookup[l].mixed PROVE DeadBefore(dhIndex, dhLookup[l].attempt)
  BY <1>6, <1>4 DEF DohInv, RoundTheServers, Attempt, DeadBefore
<1>7. ASSUME ~dhLookup[l].mixed PROVE DeadBefore(dhIndex, dhLookup[l].attempt - 1)'
  BY <1>1, <1>2, <1>3, <1>4, <1>6, <1>7 DEF DeadBefore
<1>8. RoundTheServers(l)'
  BY <1>1, <1>2, <1>3, <1>4, <1>5, <1>7 DEF RoundTheServers
<1> QED
  BY <1>1, <1>2, <1>8, OneLookup

\* The lookup that asks once makes one attempt.
LEMMA JsonStep == ASSUME DohInv, NEW l \in Lookups, JsonAsks(l) PROVE DohInv'
<1>1. /\ Try(l) \in Lookup /\ Try(l).at = "try" /\ Try(l).attempt = dhLookup[l].attempt + 1
      /\ Try(l).outcome = dhLookup[l].outcome
  BY TryFields DEF JsonAsks, LookupAt
<1> DEFINE r == [Try(l) EXCEPT !.at = "json"]
<1>2. r \in Lookup /\ r.at = "json" /\ r.outcome = dhLookup[l].outcome
  BY <1>1 DEF Lookup, LookupSteps
<1>3. dhLookup' = [dhLookup EXCEPT ![l] = r] /\ dhIndex' = dhIndex /\ dhDead' = dhDead
  BY DEF JsonAsks
<1> HIDE DEF r
<1>4. dhLookup'[l] = r
  BY <1>3 DEF DohInv, DohShape
<1>5. RoundTheServers(l)'
  BY <1>2, <1>4 DEF RoundTheServers, DohInv, JsonAsks, LookupAt
<1> QED
  BY <1>2, <1>3, <1>5, OneLookup

LEMMA LookupEndsStep == ASSUME DohInv, NEW l \in Lookups, LookupEnds(l) PROVE DohInv'
<1>1. NoLookup \in Lookup /\ NoLookup.at = "idle" /\ NoLookup.attempt = 0 /\ NoLookup.outcome = ""
  BY NoLookupType DEF NoLookup
<1>2. dhLookup' = [dhLookup EXCEPT ![l] = NoLookup] /\ dhIndex' = dhIndex /\ dhDead' = dhDead
  BY DEF LookupEnds
<1>3. dhLookup'[l] = NoLookup
  BY <1>2 DEF DohInv, DohShape
<1>4. RoundTheServers(l)'
  BY <1>1, <1>3 DEF RoundTheServers
<1> QED
  BY <1>1, <1>2, <1>4, OneLookup

LEMMA LookupsFit ==
    ASSUME DohInv, NEW l \in Lookups, TryFailed(l), dhIndex' \in Server, dhDead' = dhDead,
           dhLookup'[l] \in Lookup, RoundTheServers(l)',
           \A k \in Lookups : k # l => dhLookup'[k] \in Lookup /\ RoundTheServers(k)'
    PROVE  DohInv'
<1>1. DohShape'
  BY DEF DohInv, DohShape, TryFailed
<1> QED
  BY <1>1 DEF DohInv

\* A failure: the index goes on, past a server that is dead; for the others the round is
\* no longer their own.
LEMMA TryFailedStep == ASSUME DohInv, NEW l \in Lookups, TryFailed(l) PROVE DohInv'
<1> USE ServerFacts
<1> DEFINE lk == dhLookup[l]
<1>1. dhIndex \in Server /\ dhIndex' \in Server /\ dhDead' = dhDead
      /\ dhIndex' = IF dhIndex + 1 = NUpstreams THEN 0 ELSE dhIndex + 1
  BY DEF DohInv, DohShape, TryFailed, NextIndex
<1>2. lk \in Lookup /\ lk.attempt \in Nat /\ lk.attempt <= MaxRetries /\ lk.at = "try" /\ lk.server \in dhDead
      /\ lk.outcome # "exhausted"
  BY DEF DohInv, DohShape, Lookup, RoundTheServers, TryFailed, LookupAt
<1>3. ASSUME ~lk.mixed PROVE lk.server = dhIndex /\ DeadUpTo(dhIndex, lk.attempt)
  <2>1. lk.server = dhIndex /\ DeadBefore(dhIndex, lk.attempt - 1)
    BY <1>2, <1>3 DEF DohInv, RoundTheServers
  <2>2. ASSUME NEW s \in Server, Back(dhIndex, s) < lk.attempt PROVE s \in dhDead
    <3>1. CASE s = dhIndex
      BY <1>2, <2>1, <3>1
    <3>2. CASE s # dhIndex
      <4>1. Back(dhIndex, s) \in Nat /\ Back(dhIndex, s) >= 1
        BY <1>1, <3>2 DEF Back
      <4>2. Back(dhIndex, s) \in 1..(lk.attempt - 1)
        BY <1>2, <2>2, <4>1
      <4> QED
        BY <2>1, <4>2 DEF DeadBefore
    <3> QED
      BY <3>1, <3>2
  <2> QED
    BY <2>1, <2>2 DEF DeadUpTo
<1>4. ASSUME NEW k \in Lookups, k # l PROVE dhLookup'[k] \in Lookup /\ RoundTheServers(k)'
  <2> DEFINE m == dhLookup[k].mixed \/ dhLookup[k].attempt > 0
             r == [dhLookup[k] EXCEPT !.mixed = m]
  <2>1. dhLookup[k] \in Lookup /\ dhLookup'[k] = r
    BY <1>4 DEF TryFailed, DohInv, DohShape
  <2>2. m \in BOOLEAN
    BY <2>1 DEF Lookup
  <2> HIDE DEF m
  <2>3. r \in Lookup /\ r.at = dhLookup[k].at /\ r.attempt = dhLookup[k].attempt /\ r.server = dhLookup[k].server
        /\ r.outcome = dhLookup[k].outcome /\ r.mixed = m
    BY <2>1, <2>2 DEF Lookup
  <2> HIDE DEF r
  <2>4. dhLookup[k].attempt \in Nat
    BY <2>1 DEF Lookup
  <2>5. ~m => ~dhLookup[k].mixed /\ dhLookup[k].attempt = 0
    BY <2>4 DEF m
  <2>6. RoundTheServers(k)
    BY DEF DohInv
  <2> QED
    BY <1>1, <2>1, <2>3, <2>4, <2>5, <2>6 DEF RoundTheServers, DeadUpTo
<1>5. CASE MayRetry(l)
  <2> DEFINE r == [lk EXCEPT !.at = "wait"]
  <2>1. r \in Lookup /\ r.at = "wait" /\ r.attempt = lk.attempt /\ r.mixed = lk.mixed /\ r.outcome = lk.outcome
    BY <1>2 DEF Lookup, LookupSteps, Outcomes
  <2>2. dhLookup'[l] = r
    BY <1>5 DEF TryFailed
  <2> HIDE DEF r
  <2>3. ASSUME ~lk.mixed PROVE DeadBefore(dhIndex, lk.attempt)'
    <3>1. ASSUME NEW s \in Server, Back(dhIndex', s) \in 1..lk.attempt PROVE s \in dhDead
      <4>1. Back(dhIndex, s) < lk.attempt
        BY <1>1, <1>2, <3>1 DEF Back
      <4> QED
        BY <1>3, <2>3, <4>1 DEF DeadUpTo
    <3>2. lk.attempt' = lk.attempt
      BY <2>1, <2>2
    <3> QED
      BY <1>1, <3>1, <3>2 DEF DeadBefore
  <2>4. lk.attempt > 0 /\ lk.attempt < MaxRetries
    BY <1>2, <1>5 DEF DohInv, RoundTheServers, MayRetry
  <2>5. RoundTheServers(l)'
    BY <1>2, <2>1, <2>2, <2>3, <2>4 DEF RoundTheServers
  <2> QED
    BY <1>1, <1>4, <2>1, <2>2, <2>5, LookupsFit
<1>6. CASE ~MayRetry(l)
  <2> DEFINE r == [lk EXCEPT !.at = "done", !.outcome = "exhausted"]
  <2>1. r \in Lookup /\ r.at = "done" /\ r.attempt = lk.attempt /\ r.mixed = lk.mixed /\ r.server = lk.server
    BY <1>2 DEF Lookup, LookupSteps, Outcomes
  <2>2. dhLookup'[l] = r
    BY <1>6 DEF TryFailed
  <2> HIDE DEF r
  <2>3. lk.attempt = MaxRetries
    BY <1>2, <1>6 DEF MayRetry
  <2>4. ASSUME ~lk.mixed PROVE DeadUpTo(dhLookup[l].server, MaxRetries)'
    BY <1>1, <1>3, <2>1, <2>2, <2>3, <2>4 DEF DeadUpTo
  <2>5. RoundTheServers(l)'
    BY <2>1, <2>2, <2>4 DEF RoundTheServers
  <2> QED
    BY <1>1, <1>4, <2>1, <2>2, <2>5, LookupsFit
<1> QED
  BY <1>5, <1>6

LEMMA DohStep == DohInv /\ [DohNext]_dohVars => DohInv'
<1> SUFFICES ASSUME DohInv, [DohNext]_dohVars PROVE DohInv'
  OBVIOUS
<1>1. ASSUME NEW l \in Lookups, LookupBegins(l) \/ Attempt(l) \/ TryFailed(l) \/ JsonAsks(l) \/ LookupEnds(l) PROVE DohInv'
  BY <1>1, LookupBeginsStep, AttemptStep, TryFailedStep, JsonStep, LookupEndsStep
<1>2. ASSUME NEW l \in Lookups, WaitCancelled(l) \/ LimitReached(l) PROVE DohInv'
  BY <1>2, LookupAnswered DEF Outcomes, WaitCancelled, LimitReached
<1>3. ASSUME NEW l \in Lookups, NEW outcome \in {"unsupported", "hit", "invalid"}, AnsweredAtOnce(l, outcome) PROVE DohInv'
  BY <1>3, LookupAnswered DEF Outcomes, AnsweredAtOnce
<1>4. ASSUME NEW l \in Lookups, NEW outcome \in {"noerror", "nxdomain", "refused"}, TryAnswered(l, outcome) PROVE DohInv'
  BY <1>4, LookupAnswered DEF Outcomes, TryAnswered
<1>5. ASSUME NEW l \in Lookups, NEW outcome \in {"noerror", "nxdomain", "refused", "failed"}, JsonReturns(l, outcome)
      PROVE  DohInv'
  BY <1>5, LookupAnswered DEF Outcomes, JsonReturns
<1>6. CASE CancelToken \/ UNCHANGED dohVars
  BY <1>6 DEF CancelToken, dohVars, DohInv, DohShape, RoundTheServers, DeadBefore, DeadUpTo
<1> QED
  BY <1>1, <1>2, <1>3, <1>4, <1>5, <1>6 DEF DohNext, LookupStep

LEMMA DohSound == DohInv => DohTypeOK /\ GivesUpOnlyIfAllDead
<1> SUFFICES ASSUME DohInv PROVE DohTypeOK /\ GivesUpOnlyIfAllDead
  OBVIOUS
<1>1. DohTypeOK
  BY DEF DohInv, DohShape, DohTypeOK, Lookup
<1>2. ASSUME NEW l \in Lookups, dhLookup[l].outcome = "exhausted", ~dhLookup[l].mixed, MaxRetries >= NUpstreams,
             NEW s \in Server
      PROVE  s \in dhDead
  <2>1. DeadUpTo(dhLookup[l].server, MaxRetries) /\ dhLookup[l].server \in Server
    BY <1>1, <1>2 DEF DohInv, RoundTheServers, DohTypeOK
  <2>2. Back(dhLookup[l].server, s) < MaxRetries
    BY <1>2, <2>1, ServerFacts DEF Back
  <2> QED
    BY <2>1, <2>2 DEF DeadUpTo
<1>3. dhDead \subseteq Server
  BY DEF DohInv, DohShape
<1> QED
  BY <1>1, <1>2, <1>3 DEF GivesUpOnlyIfAllDead

-----------------------------------------------------------------------------
(* LicenseValidator *)

LicenseInv ==
    /\ lvNow \in 0..MaxTime
    /\ lvCache \in [valid : BOOLEAN, at : -1..MaxTime]
    /\ lvToday \in -1..Day(MaxTime)
    /\ lvToday # -1 => Cached /\ Day(lvCache.at) = lvToday
    /\ lvCall \in [at : {"idle", "asking"}, said : {"none", "valid", "invalid", "error"}]
    /\ lvCacheTime \in Nat

LEMMA LicenseStart == LicenseInit => LicenseInv
<1> SUFFICES ASSUME LicenseInit PROVE LicenseInv
  OBVIOUS
<1>1. lvCache \in [valid : BOOLEAN, at : -1..MaxTime]
  BY LicenseAssumption DEF LicenseInit, NoEntry
<1>2. Day(MaxTime) \in Nat
  BY LicenseAssumption DEF Day
<1> QED
  BY <1>1, <1>2, LicenseAssumption DEF LicenseInit, LicenseInv

LEMMA LicenseStep == LicenseInv /\ [LicenseNext]_licenseVars => LicenseInv'
<1> SUFFICES ASSUME LicenseInv, [LicenseNext]_licenseVars PROVE LicenseInv'
  OBVIOUS
<1> USE LicenseAssumption DEF LicenseInv
<1>1. CASE AnsweredFromCache
  BY <1>1 DEF AnsweredFromCache, Returns, Says, Cached
<1>2. CASE AskServer
  BY <1>2 DEF AskServer, Cached
<1>3. CASE ServerFails
  BY <1>3 DEF ServerFails, Returns, Cached
<1>4. CASE ClearCache
  <2>1. lvCache' \in [valid : BOOLEAN, at : -1..MaxTime]
    BY <1>4 DEF ClearCache, NoEntry
  <2>2. Day(MaxTime) \in Nat
    BY DEF Day
  <2> QED
    BY <1>4, <2>1, <2>2 DEF ClearCache
<1>5. ASSUME NEW valid \in BOOLEAN, ServerAnswers(valid) PROVE LicenseInv'
  <2> DEFINE c == [valid |-> valid, at |-> lvNow]
  <2>1. c \in [valid : BOOLEAN, at : -1..MaxTime] /\ c.at = lvNow /\ lvCache' = c
    BY <1>5 DEF ServerAnswers
  <2>2. Day(lvNow) \in Nat /\ Day(lvNow) <= Day(MaxTime) /\ Day(MaxTime) \in Nat
    BY DEF Day
  <2>3. lvCall' \in [at : {"idle", "asking"}, said : {"none", "valid", "invalid", "error"}]
    BY <1>5 DEF ServerAnswers, Returns, Says
  <2> HIDE DEF c
  <2> QED
    BY <1>5, <2>1, <2>2, <2>3 DEF ServerAnswers, DayOfAnswer, Cached
<1>6. ASSUME NEW t \in {lvNow - 1, lvNow + 1} \cap 0..MaxTime, ClockMoves(t) PROVE LicenseInv'
  BY <1>6 DEF ClockMoves, Cached
<1>7. CASE UNCHANGED licenseVars
  BY <1>7 DEF licenseVars, Cached
<1> QED
  BY <1>1, <1>2, <1>3, <1>4, <1>5, <1>6, <1>7 DEF LicenseNext

LEMMA LicenseTyped == LicenseInv => LicenseTypeOK
BY DEF LicenseInv, LicenseTypeOK

LEMMA ValidIsRecentStep ==
    ASSUME LicenseInv, [LicenseNext]_licenseVars, lvCall'.at = "idle", lvCall'.said = "valid", lvCall # lvCall'
    PROVE  /\ lvCache'.valid
           /\ \/ Day(lvCache'.at) = Day(lvNow)
              \/ lvNow - lvCache'.at < FallbackFreshness \/ lvNow - lvCache'.at < lvCacheTime
<1>1. CASE AnsweredFromCache
  <2>1. lvCache.valid /\ lvCache' = lvCache
    BY <1>1 DEF AnsweredFromCache, Returns, Says
  <2>2. CASE ValidatedToday
    BY <2>1, <2>2 DEF ValidatedToday, LicenseInv, Cached, Day
  <2>3. CASE FreshOffline
    BY <2>1, <2>3 DEF FreshOffline
  <2> QED
    BY <1>1, <2>2, <2>3 DEF AnsweredFromCache
<1>2. CASE AskServer
  BY <1>2 DEF AskServer, LicenseInv
<1>3. CASE ServerFails
  <2>1. RecentValidCache /\ lvCache' = lvCache
    BY <1>3 DEF ServerFails, Returns
  <2>2. lvCache.at \in Int /\ lvNow \in Int /\ lvCacheTime \in Int
    BY DEF LicenseInv
  <2> QED
    BY <2>1, <2>2 DEF RecentValidCache
<1>4. CASE ClearCache
  BY <1>4 DEF ClearCache
<1>5. ASSUME NEW valid \in BOOLEAN, ServerAnswers(valid)
      PROVE  lvCache'.valid /\ Day(lvCache'.at) = Day(lvNow)
  <2>1. valid
    BY <1>5 DEF ServerAnswers, Returns, Says
  <2>2. lvCache' = [valid |-> valid, at |-> lvNow]
    BY <1>5 DEF ServerAnswers
  <2> QED
    BY <2>1, <2>2
<1>6. ASSUME NEW t \in {lvNow - 1, lvNow + 1} \cap 0..MaxTime, ClockMoves(t) PROVE FALSE
  BY <1>6 DEF ClockMoves, LicenseInv
<1>7. CASE UNCHANGED licenseVars
  BY <1>7 DEF licenseVars
<1> QED
  BY <1>1, <1>2, <1>3, <1>4, <1>5, <1>6, <1>7 DEF LicenseNext

-----------------------------------------------------------------------------
(* The calendar *)

Month(mp) == IF mp < 10 THEN mp + 3 ELSE mp - 9
\* The date of day doy of the year that begins in March of year y.
DateOf(y, doy) ==
    LET mp == (5 * doy + 2) \div 153
    IN <<y + (IF Month(mp) <= 2 THEN 1 ELSE 0), Month(mp), doy - (153 * mp + 2) \div 5 + 1>>
LastDay(y) == IF IsLeap(y + 1) THEN 365 ELSE 364
FirstOf(y) == 365 * y + y \div 4 - y \div 100

LEMMA YearOfEraBounds ==
    ASSUME NEW doe \in Nat, doe < 146097
    PROVE  LET y == YearOfEra(doe) IN y \in Nat /\ y <= 399 /\ FirstOf(y) <= doe /\ doe <= FirstOf(y) + LastDay(y)
BY SMTT(60) DEF YearOfEra, FirstOf, LastDay, IsLeap

LEMMA YearOfEraUnique ==
    ASSUME NEW doe \in Nat, doe < 146097, NEW y \in Nat, y <= 399, FirstOf(y) <= doe, doe <= FirstOf(y) + LastDay(y)
    PROVE  YearOfEra(doe) = y
BY SMTT(60) DEF YearOfEra, FirstOf, LastDay, IsLeap

LEMMA FirstOfNext ==
    ASSUME NEW y \in Nat, y < 399
    PROVE  FirstOf(y + 1) = FirstOf(y) + LastDay(y) + 1
BY SMTT(60) DEF FirstOf, LastDay, IsLeap

LEMMA Era == FirstOf(399) + LastDay(399) = 146096 /\ FirstOf(0) = 0
BY SMTT(60) DEF FirstOf, LastDay, IsLeap

LEMMA FirstOfBound ==
    ASSUME NEW y \in Nat, y <= 399
    PROVE  FirstOf(y) + LastDay(y) <= 146096
BY SMTT(60) DEF FirstOf, LastDay, IsLeap

LEMMA LeapOfEra ==
    ASSUME NEW y \in Nat, NEW era \in Nat
    PROVE  LastDay(y + era * 400) = LastDay(y)
BY SMTT(60) DEF LastDay, IsLeap

\* The month of a day, with its first day and the next month's.
MonthOf(doy) == (5 * doy + 2) \div 153
MonthStart(mp) == (153 * mp + 2) \div 5

LEMMA MonthBounds ==
    ASSUME NEW doy \in Nat, doy <= 365
    PROVE  /\ MonthOf(doy) \in 0..11
           /\ MonthStart(MonthOf(doy)) <= doy /\ doy < MonthStart(MonthOf(doy) + 1)
BY SMTT(60) DEF MonthOf, MonthStart

LEMMA MonthUnique ==
    ASSUME NEW doy \in Nat, NEW mp \in Nat, MonthStart(mp) <= doy, doy < MonthStart(mp + 1)
    PROVE  MonthOf(doy) = mp
BY SMTT(60) DEF MonthOf, MonthStart

LEMMA MonthLength ==
    ASSUME NEW y \in Nat, NEW mp \in 0..10
    PROVE  /\ MonthStart(mp + 1) - MonthStart(mp) = DaysIn(y + (IF Month(mp) <= 2 THEN 1 ELSE 0), Month(mp))
BY SMTT(60) DEF MonthStart, Month, DaysIn

LEMMA February ==
    ASSUME NEW y \in Nat
    PROVE  MonthStart(11) + DaysIn(y + 1, 2) = LastDay(y) + 1
BY SMTT(60) DEF MonthStart, DaysIn, LastDay

LEMMA InMonth ==
    ASSUME NEW y \in Nat, NEW doy \in Nat, doy < LastDay(y)
    PROVE  DateOf(y, doy + 1) = Following(DateOf(y, doy))
<1> DEFINE mp == MonthOf(doy)
           yy(m) == y + (IF Month(m) <= 2 THEN 1 ELSE 0)
<1>1. doy <= 364 /\ doy + 1 <= 365
  BY DEF LastDay
<1>2. mp \in 0..11 /\ MonthStart(mp) <= doy /\ doy < MonthStart(mp + 1)
  BY <1>1, MonthBounds
<1>3. MonthStart(mp) \in Nat /\ MonthStart(mp + 1) \in Nat
  BY <1>2 DEF MonthStart
<1>4. DateOf(y, doy) = <<yy(mp), Month(mp), doy - MonthStart(mp) + 1>>
  BY DEF DateOf, MonthOf, MonthStart
<1>5. DateOf(y, doy + 1) = <<yy(MonthOf(doy + 1)), Month(MonthOf(doy + 1)), doy + 1 - MonthStart(MonthOf(doy + 1)) + 1>>
  BY DEF DateOf, MonthOf, MonthStart
<1> HIDE DEF mp
<1>6. CASE doy + 1 < MonthStart(mp + 1)
  <2>1. MonthOf(doy + 1) = mp
    BY <1>2, <1>3, <1>6, MonthUnique
  <2>2. doy - MonthStart(mp) + 1 < DaysIn(yy(mp), Month(mp))
    <3>1. CASE mp \in 0..10
      BY <1>2, <1>3, <1>6, <3>1, MonthLength
    <3>2. CASE mp = 11
      <4>1. Month(mp) = 2 /\ yy(mp) = y + 1
        BY <3>2 DEF Month
      <4>2. LastDay(y) \in Nat /\ DaysIn(y + 1, 2) \in Nat
        BY DEF LastDay, DaysIn
      <4> QED
        BY <1>2, <1>3, <3>2, <4>1, <4>2, February
    <3> QED
      BY <1>2, <3>1, <3>2
  <2> QED
    BY <1>2, <1>3, <1>4, <1>5, <2>1, <2>2 DEF Following
<1>7. CASE doy + 1 = MonthStart(mp + 1)
  <2>1. mp \in 0..10
    BY <1>1, <1>2, <1>7 DEF MonthStart
  <2>2. MonthStart(mp + 1) < MonthStart(mp + 2) /\ (mp + 1) + 1 = mp + 2
    BY <2>1 DEF MonthStart
  <2>3. MonthOf(doy + 1) = mp + 1
    BY <1>2, <1>3, <1>7, <2>1, <2>2, MonthUnique
  <2>4. doy - MonthStart(mp) + 1 = DaysIn(yy(mp), Month(mp))
    BY <1>2, <1>3, <1>7, <2>1, MonthLength
  <2>5. IF Month(mp) < 12 THEN yy(mp + 1) = yy(mp) /\ Month(mp + 1) = Month(mp) + 1 ELSE yy(mp + 1) = yy(mp) + 1 /\ Month(mp + 1) = 1
    BY <2>1 DEF Month
  <2> QED
    BY <1>2, <1>3, <1>4, <1>5, <1>7, <2>3, <2>4, <2>5 DEF Following
<1> QED
  BY <1>2, <1>3, <1>6, <1>7

LEMMA NewYear ==
    ASSUME NEW y \in Nat
    PROVE  DateOf(y + 1, 0) = Following(DateOf(y, LastDay(y)))
BY SMTT(60) DEF DateOf, Month, LastDay, IsLeap, Following, DaysIn

LEMMA CivilDate ==
    ASSUME NEW days \in Nat
    PROVE  LET z == days + 719468
               era == z \div 146097
               doe == z - era * 146097
               y == YearOfEra(doe)
           IN  CivilFromDays(days) = DateOf(y + era * 400, doe - FirstOf(y))
BY SMTT(60) DEF CivilFromDays, DateOf, Month, FirstOf

LEMMA NextDay == ASSUME NEW days \in Nat PROVE CivilFromDays(days + 1) = Following(CivilFromDays(days))
<1> DEFINE z == days + 719468
           era == z \div 146097
           doe == z - era * 146097
           y == YearOfEra(doe)
           z2 == days + 1 + 719468
           era2 == z2 \div 146097
           doe2 == z2 - era2 * 146097
           y2 == YearOfEra(doe2)
<1>1. era \in Nat /\ doe \in Nat /\ doe < 146097
  BY SMT
<1>2. doe2 \in Nat /\ doe2 < 146097 /\ era2 \in Nat
  BY SMT
<1>3. IF doe < 146096 THEN era2 = era /\ doe2 = doe + 1 ELSE era2 = era + 1 /\ doe2 = 0
  BY SMT
<1>4. CivilFromDays(days) = DateOf(y + era * 400, doe - FirstOf(y))
  BY SMT, CivilDate
<1>5. CivilFromDays(days + 1) = DateOf(y2 + era2 * 400, doe2 - FirstOf(y2))
  BY SMT, CivilDate
<1>6. y \in Nat /\ y <= 399 /\ FirstOf(y) <= doe /\ doe <= FirstOf(y) + LastDay(y)
  BY SMT, <1>1, YearOfEraBounds
<1>7. FirstOf(y) \in Nat /\ LastDay(y) \in {364, 365} /\ LastDay(y + era * 400) = LastDay(y)
  <2>1. FirstOf(y) \in Nat /\ LastDay(y) \in {364, 365}
    BY SMT, <1>6 DEF FirstOf, LastDay
  <2> QED
    BY SMT, <1>1, <1>6, <2>1, LeapOfEra
<1> HIDE DEF z, era, doe, y, z2, era2, doe2, y2
<1>8. CASE doe < FirstOf(y) + LastDay(y)
  <2>1. doe < 146096
    BY SMT, <1>1, <1>6, <1>7, <1>8, Era, FirstOfBound
  <2>2. era2 = era /\ doe2 = doe + 1
    BY SMT, <1>3, <2>1
  <2>3. y2 = y
    BY SMT, <1>1, <1>2, <1>6, <1>7, <1>8, <2>2, YearOfEraUnique DEF y2
  <2>4. DateOf(y + era * 400, (doe - FirstOf(y)) + 1) = Following(DateOf(y + era * 400, doe - FirstOf(y)))
    <3>1. y + era * 400 \in Nat /\ doe - FirstOf(y) \in Nat /\ doe - FirstOf(y) < LastDay(y + era * 400)
      BY SMT, <1>1, <1>6, <1>7, <1>8
    <3> QED
      BY SMT, <3>1, InMonth
  <2> QED
    BY SMT, <1>1, <1>4, <1>5, <1>7, <2>2, <2>3, <2>4
<1>9. CASE doe = FirstOf(y) + LastDay(y)
  <2>1. DateOf(y + era * 400 + 1, 0) = Following(DateOf(y + era * 400, LastDay(y)))
    <3>1. y + era * 400 \in Nat
      BY SMT, <1>1, <1>6
    <3> QED
      BY SMT, <1>7, <3>1, NewYear
  <2>2. doe - FirstOf(y) = LastDay(y)
    BY SMT, <1>7, <1>9
  <2>3. CASE y < 399
    <3>1. FirstOf(y + 1) = doe + 1 /\ FirstOf(y + 1) < 146097 /\ LastDay(y + 1) \in {364, 365}
      BY SMT, <1>1, <1>6, <1>7, <1>9, <2>3, FirstOfNext, FirstOfBound DEF LastDay
    <3>2. era2 = era /\ doe2 = doe + 1
      BY SMT, <1>1, <1>3, <3>1
    <3>3. y2 = y + 1
      BY SMT, <1>2, <1>6, <2>3, <3>1, <3>2, YearOfEraUnique DEF y2
    <3> QED
      BY SMT, <1>1, <1>4, <1>5, <1>6, <2>1, <2>2, <3>1, <3>2, <3>3
  <2>4. CASE y = 399
    <3>1. era2 = era + 1 /\ doe2 = 0
      BY SMT, <1>3, <1>9, <2>4, Era
    <3>2. y2 = 0
      BY SMT, <3>1, Era, YearOfEraUnique DEF y2, LastDay
    <3> QED
      BY SMT, <1>1, <1>4, <1>5, <2>1, <2>2, <2>4, <3>1, <3>2, Era
  <2> QED
    BY SMT, <1>6, <2>3, <2>4
<1> QED
  BY SMT, <1>1, <1>6, <1>7, <1>8, <1>9

LEMMA CivilAtStarts ==
    /\ CivilFromDays(0) = <<1970, 1, 1>> /\ CivilFromDays(10926) = <<1999, 12, 1>>
    /\ CivilFromDays(47451) = <<2099, 12, 1>> /\ CivilFromDays(19692) = <<2023, 12, 1>>
BY SMT DEF CivilFromDays, YearOfEra

\* The date that today_string computes is the calendar's on every day from 1970 on: the
\* first of January then, and each day the one that follows the day before's.
THEOREM EveryDateIsCalendars ==
    /\ CivilFromDays(0) = <<1970, 1, 1>>
    /\ \A days \in Nat : CivilFromDays(days + 1) = Following(CivilFromDays(days))
BY CivilAtStarts, NextDay

CivilInv == cdDay \in Nat /\ DateIsCalendars

LEMMA CivilStart == CivilInit => CivilInv
<1> SUFFICES ASSUME NEW s \in Starts, cdDay = s[1], cdDate = s[2] PROVE CivilInv
  BY DEF CivilInit
<1> QED
  BY SMT, CivilAtStarts DEF Starts, CivilInv, DateIsCalendars

LEMMA CivilStep == CivilInv /\ [DayPasses]_civilVars => CivilInv'
<1> SUFFICES ASSUME CivilInv, [DayPasses]_civilVars PROVE CivilInv'
  OBVIOUS
<1>1. CASE DayPasses
  BY SMT, <1>1, NextDay DEF CivilInv, DateIsCalendars, DayPasses
<1>2. CASE UNCHANGED civilVars
  BY <1>2 DEF civilVars, CivilInv, DateIsCalendars
<1> QED
  BY <1>1, <1>2

-----------------------------------------------------------------------------
(* NtpClient *)

\* How many servers back from the one at `i` the pool has server s.
Behind(i, s) == IF s <= i THEN i - s ELSE i - s + NtpServers

\* How often a server has been asked in a attempts the last of which was d servers ago.
Times(d, a) == (IF d < a THEN 1 ELSE 0) + (IF d + NtpServers < a THEN 1 ELSE 0)

\* While the delay runs the index is already at the next server.
SinceAsked(s) ==
    IF ntAt = "exchange" THEN Behind(ntIndex, s)
    ELSE IF s = ntIndex THEN NtpServers - 1 ELSE Behind(ntIndex, s) - 1

NtpShape ==
    /\ ntAt \in {"idle", "exchange", "wait"}
    /\ ntAttempt \in 0..MaxAttempts
    /\ ntIndex \in Pool
    /\ ntState \in [sync : BOOLEAN, offset : Int, trip : Int]
    /\ ntExchange \in [t1 : Int, skew : Int, out : Nat, back : Nat]
    /\ ntOutcome \in {"none", "ok", "failed"}
    /\ ntAsked \in [Pool -> Nat]

\* The attempts of a query go round the pool.
RoundThePool ==
    /\ ntAt # "idle" => ntAttempt >= 1
    /\ ntAt = "wait" => ntAttempt < MaxAttempts
    /\ ntAt # "idle" => \A s \in Pool : ntAsked[s] = Times(SinceAsked(s), ntAttempt)

NtpInv == NtpShape /\ RoundThePool /\ SyncTellsOutcome /\ OffsetIsSkew

LEMMA PoolFacts ==
    /\ NtpServers \in Nat /\ NtpServers >= 1 /\ NtpEra \in Nat /\ NtpEra >= 1 /\ MaxAttempts = 2 * NtpServers
    /\ Pool = {s \in Nat : s < NtpServers}
    /\ \A i \in Pool : (i + 1) % NtpServers = IF i + 1 = NtpServers THEN 0 ELSE i + 1
<1>1. NtpServers \in Nat /\ NtpServers >= 1 /\ NtpEra \in Nat /\ NtpEra >= 1
  BY NtpAssumption
<1>2. Pool = {s \in Nat : s < NtpServers}
  BY <1>1 DEF Pool
<1>3. ASSUME NEW i \in Nat, i < NtpServers PROVE (i + 1) % NtpServers = IF i + 1 = NtpServers THEN 0 ELSE i + 1
  <2>1. NtpServers \in Nat \ {0}
    BY <1>1
  <2> QED
    BY <1>3, <2>1, NextRemainder
<1> QED
  BY <1>1, <1>2, <1>3 DEF MaxAttempts

LEMMA MaxOfTwo == ASSUME NEW a \in Int, NEW b \in Int PROVE Max({a, b}) = IF a >= b THEN a ELSE b
<1>1. \E x \in {a, b} : \A y \in {a, b} : x >= y
  OBVIOUS
<1>2. Max({a, b}) \in {a, b} /\ \A y \in {a, b} : Max({a, b}) >= y
  BY <1>1 DEF Max
<1> QED
  BY <1>2

\* The four timestamps of an exchange within the era give the skew, up to half the
\* difference of the delays.
LEMMA FourTimestamps ==
    ASSUME NEW t1 \in Int, NEW skew \in Int, NEW out \in Nat, NEW back \in Nat,
           t1 + out + skew >= 0, t1 + out + skew + 1 < NtpEra
    PROVE  LET t2 == t1 + out + skew
               t4 == t1 + out + 1 + back
               offset == Offset(t1, OnWire(t2), OnWire(t2 + 1), t4)
               error == 2 * (offset - skew)
           IN  /\ offset \in Int
               /\ Max({error, -error}) <= Max({out - back, -(out - back)}) + 1
               /\ RoundTrip(t1, OnWire(t2), OnWire(t2 + 1), t4) = out + back
<1> DEFINE t2 == t1 + out + skew
           t4 == t1 + out + 1 + back
           offset == Offset(t1, OnWire(t2), OnWire(t2 + 1), t4)
           error == 2 * (offset - skew)
<1>1. ASSUME NEW t \in Nat, t < NtpEra PROVE OnWire(t) = t
  <2>1. NtpEra \in Nat \ {0}
    BY PoolFacts
  <2> QED
    BY <1>1, <2>1, Remainder DEF OnWire
<1>2. OnWire(t2) = t2 /\ OnWire(t2 + 1) = t2 + 1
  <2>1. t2 \in Nat /\ t2 + 1 \in Nat /\ t2 < NtpEra /\ t2 + 1 < NtpEra
    BY PoolFacts
  <2> HIDE DEF t2
  <2> QED
    BY <1>1, <2>1
<1>3. offset = Half(2 * skew + (out - back))
  BY <1>2 DEF Offset
<1>4. offset \in Int /\ error <= (IF out >= back THEN out - back ELSE back - out) + 1
                     /\ -error <= (IF out >= back THEN out - back ELSE back - out) + 1
  BY <1>3 DEF Half
<1>5. RoundTrip(t1, OnWire(t2), OnWire(t2 + 1), t4) = out + back
  BY <1>2 DEF RoundTrip
<1> HIDE DEF offset
<1>6. Max({error, -error}) <= Max({out - back, -(out - back)}) + 1
  BY <1>4, MaxOfTwo
<1> QED
  BY <1>4, <1>5, <1>6 DEF offset

LEMMA NtpStart == NtpInit => NtpInv
<1> SUFFICES ASSUME NtpInit PROVE NtpInv
  OBVIOUS
<1>1. NtpShape
  BY PoolFacts DEF NtpInit, NtpShape
<1>2. RoundThePool /\ SyncTellsOutcome /\ OffsetIsSkew
  BY DEF NtpInit, RoundThePool, SyncTellsOutcome, OffsetIsSkew
<1> QED
  BY <1>1, <1>2 DEF NtpInv

\* Each step goes on round the pool.
LEMMA NtpQuery == NtpInv /\ Query => NtpShape' /\ RoundThePool'
<1> SUFFICES ASSUME NtpInv, Query PROVE NtpShape' /\ RoundThePool'
  OBVIOUS
<1> USE PoolFacts DEF NtpInv, NtpShape, Query
<1>1. ntAsked' \in [Pool -> Nat]
  OBVIOUS
<1>2. ASSUME NEW s \in Pool PROVE ntAsked'[s] = Times(Behind(ntIndex, s), 1)
  BY DEF Times, Behind
<1>3. \A s \in Pool : SinceAsked(s)' = Behind(ntIndex, s)
  BY DEF SinceAsked, Behind
<1> QED
  BY <1>1, <1>2, <1>3 DEF RoundThePool

LEMMA NtpFails ==
    ASSUME NtpInv, ExchangeFails
    PROVE  /\ NtpShape' /\ RoundThePool' /\ SyncTellsOutcome' /\ OffsetIsSkew'
           /\ ntState.sync # ntState'.sync => \A s \in Pool : ntAsked[s] = 2
<1> USE PoolFacts DEF NtpInv, NtpShape, ExchangeFails
<1>1. ntIndex' \in Pool /\ ntIndex' = IF ntIndex + 1 = NtpServers THEN 0 ELSE ntIndex + 1
  BY DEF NextServer
<1>2. CASE MoreAttempts
  <2>1. NtpShape' /\ SyncTellsOutcome' /\ OffsetIsSkew'
    BY <1>1, <1>2 DEF SyncTellsOutcome, OffsetIsSkew, WithinEra
  <2>2. ASSUME NEW s \in Pool PROVE SinceAsked(s)' = SinceAsked(s)
    BY <1>1, <1>2 DEF SinceAsked, Behind
  <2>3. ASSUME NEW s \in Pool PROVE ntAsked'[s] = Times(SinceAsked(s)', ntAttempt')
    BY <1>2, <2>2 DEF RoundThePool
  <2>4. RoundThePool'
    BY <1>1, <1>2, <2>3 DEF RoundThePool, MoreAttempts
  <2> QED
    BY <1>2, <2>1, <2>4
<1>3. CASE ~MoreAttempts
  <2>1. ntState' \in [sync : BOOLEAN, offset : Int, trip : Int] /\ ntState'.sync = FALSE
    BY <1>3 DEF Unsynced
  <2>2. NtpShape' /\ RoundThePool' /\ OffsetIsSkew'
    BY <1>1, <1>3, <2>1 DEF RoundThePool, OffsetIsSkew
  <2>3. SyncTellsOutcome'
    BY <1>3, <2>1 DEF SyncTellsOutcome
  <2>4. ntAttempt = 2 * NtpServers
    BY <1>3 DEF MoreAttempts
  <2>5. ASSUME NEW s \in Pool PROVE ntAsked[s] = 2
    <3>1. ntAsked[s] = Times(Behind(ntIndex, s), 2 * NtpServers)
      BY <2>4 DEF RoundThePool, SinceAsked
    <3>2. Behind(ntIndex, s) \in Nat /\ Behind(ntIndex, s) < NtpServers
      BY DEF Behind
    <3> QED
      BY <3>1, <3>2 DEF Times
  <2> QED
    BY <2>2, <2>3, <2>5
<1> QED
  BY <1>2, <1>3

LEMMA NtpDelay == NtpInv /\ DelayElapses => NtpShape' /\ RoundThePool'
<1> SUFFICES ASSUME NtpInv, DelayElapses PROVE NtpShape' /\ RoundThePool'
  OBVIOUS
<1> USE PoolFacts DEF NtpInv, NtpShape, DelayElapses
<1>1. ntAsked' \in [Pool -> Nat] /\ ntAttempt \in Nat /\ ntAttempt >= 1 /\ ntAttempt < 2 * NtpServers
  BY DEF RoundThePool
<1>2. ASSUME NEW s \in Pool PROVE ntAsked'[s] = Times(Behind(ntIndex, s), ntAttempt + 1)
  <2>1. CASE s = ntIndex
    <3>1. ntAsked'[s] = ntAsked[s] + 1 /\ ntAsked[s] = Times(NtpServers - 1, ntAttempt)
      BY <2>1 DEF RoundThePool, SinceAsked
    <3> QED
      BY <1>1, <2>1, <3>1 DEF Times, Behind
  <2>2. CASE s # ntIndex
    <3>1. ntAsked'[s] = ntAsked[s] /\ ntAsked[s] = Times(Behind(ntIndex, s) - 1, ntAttempt)
      BY <2>2 DEF RoundThePool, SinceAsked
    <3>2. Behind(ntIndex, s) \in Nat
      BY DEF Behind
    <3> QED
      BY <1>1, <3>1, <3>2 DEF Times
  <2> QED
    BY <2>1, <2>2
<1>3. \A s \in Pool : SinceAsked(s)' = Behind(ntIndex, s)
  BY DEF SinceAsked, Behind
<1>4. NtpShape'
  BY <1>1
<1>5. RoundThePool'
  BY <1>1, <1>2, <1>3 DEF RoundThePool
<1> QED
  BY <1>4, <1>5

\* An answer tells the skew.
LEMMA NtpAnswer ==
    ASSUME NtpInv, NEW x \in Exchanges, ServerResponds(x)
    PROVE  NtpInv'
<1> USE PoolFacts DEF NtpInv
<1> DEFINE t2 == x.t1 + x.out + x.skew
           t4 == x.t1 + x.out + 1 + x.back
           o == Offset(x.t1, OnWire(t2), OnWire(t2 + 1), t4)
           r == RoundTrip(x.t1, OnWire(t2), OnWire(t2 + 1), t4)
<1>1. x \in [t1 : Int, skew : Int, out : Nat, back : Nat] /\ t2 \in Nat
  BY NtpAssumption DEF Exchanges, ServerResponds
<1>2. OnWire(t2) \in Int /\ OnWire(t2 + 1) \in Int
  BY <1>1 DEF OnWire
<1>3. o \in Int /\ r \in Int
  BY <1>1, <1>2 DEF Offset, RoundTrip, Half
<1>4. x.t1 + x.out + x.skew + 1 < NtpEra =>
        /\ Max({2 * (o - x.skew), -(2 * (o - x.skew))}) <= Max({x.out - x.back, -(x.out - x.back)}) + 1
        /\ r = x.out + x.back
  <2> SUFFICES ASSUME x.t1 + x.out + x.skew + 1 < NtpEra
               PROVE  /\ Max({2 * (o - x.skew), -(2 * (o - x.skew))}) <= Max({x.out - x.back, -(x.out - x.back)}) + 1
                      /\ r = x.out + x.back
    OBVIOUS
  <2>1. x.t1 \in Int /\ x.skew \in Int /\ x.out \in Nat /\ x.back \in Nat /\ x.t1 + x.out + x.skew >= 0
    BY <1>1
  <2> QED
    BY <2>1, FourTimestamps, Zenon
<1>5. ntState' = [sync |-> TRUE, offset |-> o, trip |-> r] /\ ntExchange' = x
  BY DEF ServerResponds
<1> HIDE DEF o, r
<1>6. NtpShape'
  BY <1>1, <1>3, <1>5 DEF NtpShape, ServerResponds
<1>7. OffsetIsSkew'
  BY <1>4, <1>5 DEF OffsetIsSkew, WithinEra
<1>8. RoundThePool'
  BY DEF RoundThePool, ServerResponds
<1>9. SyncTellsOutcome'
  <2>1. ntState'.sync = TRUE
    BY <1>5
  <2>2. (ntOutcome' = "ok") = TRUE
    BY DEF ServerResponds
  <2> QED
    BY <2>1, <2>2 DEF SyncTellsOutcome
<1> QED
  BY <1>6, <1>7, <1>8, <1>9

LEMMA NtpStep == NtpInv /\ [NtpNext]_ntpVars => NtpInv'
<1> SUFFICES ASSUME NtpInv, [NtpNext]_ntpVars PROVE NtpInv'
  OBVIOUS
<1>1. CASE Query
  <2>1. SyncTellsOutcome' /\ OffsetIsSkew'
    BY <1>1 DEF NtpInv, SyncTellsOutcome, OffsetIsSkew, WithinEra, Query
  <2> QED
    BY <1>1, <2>1, NtpQuery DEF NtpInv
<1>2. CASE ExchangeFails
  BY <1>2, NtpFails DEF NtpInv
<1>3. CASE DelayElapses
  <2>1. SyncTellsOutcome' /\ OffsetIsSkew'
    BY <1>3 DEF NtpInv, SyncTellsOutcome, OffsetIsSkew, WithinEra, DelayElapses
  <2> QED
    BY <1>3, <2>1, NtpDelay DEF NtpInv
<1>4. CASE DelayCancelled
  <2>1. SyncTellsOutcome' /\ OffsetIsSkew'
    BY <1>4 DEF NtpInv, SyncTellsOutcome, OffsetIsSkew, WithinEra, DelayCancelled
  <2>2. NtpShape' /\ RoundThePool'
    BY <1>4, PoolFacts DEF NtpInv, NtpShape, RoundThePool, DelayCancelled
  <2> QED
    BY <2>1, <2>2 DEF NtpInv
<1>5. ASSUME NEW x \in Exchanges, ServerResponds(x) PROVE NtpInv'
  BY <1>5, NtpAnswer
<1>6. CASE UNCHANGED ntpVars
  BY <1>6 DEF ntpVars, NtpInv, NtpShape, RoundThePool, SinceAsked, SyncTellsOutcome, OffsetIsSkew, WithinEra
<1> QED
  BY <1>1, <1>2, <1>3, <1>4, <1>5, <1>6 DEF NtpNext

LEMMA FailureAsksAllStep ==
    ASSUME NtpInv, [NtpNext]_ntpVars, ntState.sync # ntState'.sync, ~ntState'.sync
    PROVE  \A s \in Pool : ntAsked[s] = 2
<1>1. CASE ExchangeFails
  BY <1>1, NtpFails
<1>2. CASE Query \/ DelayElapses \/ DelayCancelled \/ UNCHANGED ntpVars
  BY <1>2 DEF Query, DelayElapses, DelayCancelled, ntpVars
<1>3. ASSUME NEW x \in Exchanges, ServerResponds(x) PROVE FALSE
  BY <1>3 DEF ServerResponds
<1> QED
  BY <1>1, <1>2, <1>3 DEF NtpNext

-----------------------------------------------------------------------------
(* ModuleConfig: the schemas and the structs *)

\* A schema and a struct have the same fields, and a default that is advertised is the
\* struct's.
Agrees(schema, defaults) ==
    /\ DOMAIN schema = DOMAIN defaults
    /\ \A f \in DOMAIN defaults : schema[f].default \in {Unadvertised, defaults[f].default}

LEMMA TypedAgree ==
    ASSUME NEW type, NEW rust, NEW default, NEW fields
    PROVE  /\ Agrees(Typed(type, default, fields), Typed(rust, default, fields))
           /\ Agrees(Typed(type, Unadvertised, fields), Typed(rust, default, fields))
BY DEF Agrees, Typed

LEMMA Merged ==
    ASSUME NEW f, NEW g
    PROVE  /\ DOMAIN (f ++ g) = DOMAIN f \cup DOMAIN g
           /\ \A x \in DOMAIN f : (f ++ g)[x] = f[x]
           /\ \A x \in DOMAIN g \ DOMAIN f : (f ++ g)[x] = g[x]
BY DEF ++

\* Tables that agree section by section agree.
LEMMA MergedAgree ==
    ASSUME NEW s, NEW d, NEW s2, NEW d2, Agrees(s, d), Agrees(s2, d2)
    PROVE  Agrees(s ++ s2, d ++ d2)
<1>1. /\ DOMAIN (s ++ s2) = DOMAIN s \cup DOMAIN s2 /\ DOMAIN (d ++ d2) = DOMAIN d \cup DOMAIN d2
      /\ \A x \in DOMAIN s : (s ++ s2)[x] = s[x]
      /\ \A x \in DOMAIN s2 \ DOMAIN s : (s ++ s2)[x] = s2[x]
      /\ \A x \in DOMAIN d : (d ++ d2)[x] = d[x]
      /\ \A x \in DOMAIN d2 \ DOMAIN d : (d ++ d2)[x] = d2[x]
  BY Merged
<1>2. ASSUME NEW f \in DOMAIN (d ++ d2)
      PROVE  (s ++ s2)[f].default \in {Unadvertised, (d ++ d2)[f].default}
  <2>1. CASE f \in DOMAIN d
    BY <1>1, <2>1 DEF Agrees
  <2>2. CASE f \in DOMAIN d2 \ DOMAIN d
    BY <1>1, <2>2 DEF Agrees
  <2> QED
    BY <1>1, <2>1, <2>2
<1> QED
  BY <1>1, <1>2 DEF Agrees

LEMMA SectionsAgree ==
    /\ Agrees(DohSchema, DohDefaults) /\ Agrees(LicenseSchema, LicenseDefaults)
    /\ Agrees(ForwarderSchema, ForwarderDefaults)
    /\ Agrees(BridgeSchema, BridgeDefaults) /\ Agrees(ObsSchema, ObsDefaults)
    /\ Agrees(WebhookSchema, WebhookDefaults)
<1> USE TypedAgree, MergedAgree
<1>1. Agrees(DohSchema, DohDefaults)
  BY DEF DohSchema, DohDefaults
<1>2. Agrees(LicenseSchema, LicenseDefaults)
  BY DEF LicenseSchema, LicenseDefaults
<1>3. Agrees(ForwarderSchema, ForwarderDefaults)
  BY DEF ForwarderSchema, ForwarderDefaults
<1>4. Agrees(BridgeSchema, BridgeDefaults)
  BY DEF BridgeSchema, BridgeDefaults
<1>5. Agrees(ObsSchema, ObsDefaults)
  BY DEF ObsSchema, ObsDefaults
<1>6. Agrees(WebhookSchema, WebhookDefaults)
  BY DEF WebhookSchema, WebhookDefaults
<1> QED
  BY <1>1, <1>2, <1>3, <1>4, <1>5, <1>6

LEMMA TablesAgree == \A o \in BuiltIns : Agrees(SchemaOf(o), DefaultsOf(o))
<1>1. Agrees(SquawkSchema, SquawkDefaults)
  BY SectionsAgree, TypedAgree, MergedAgree DEF SquawkSchema, SquawkDefaults
<1>2. Agrees(TobogganingSchema, TobogganingDefaults)
  BY TypedAgree, MergedAgree DEF TobogganingSchema, TobogganingDefaults
<1>3. Agrees(WaddlebotSchema, WaddlebotDefaults)
  BY SectionsAgree, TypedAgree, MergedAgree DEF WaddlebotSchema, WaddlebotDefaults
<1>4. Agrees(WaddleaiSchema, WaddleaiDefaults)
  BY TypedAgree, MergedAgree DEF WaddleaiSchema, WaddleaiDefaults
<1> QED
  BY <1>1, <1>2, <1>3, <1>4 DEF BuiltIns, SchemaOf, DefaultsOf

\* The fields that a schema requires are the struct's; tobogganing's have no default,
\* the daemon's all have one.
LEMMA TableFacts ==
    /\ \A o \in Owners : \A fs : Required(o, fs) \subseteq FieldsOf(o)
    /\ \A f \in {"manager_url", "node_id"} : DefaultsOf("tobogganing")[f].default = "empty"
    /\ \A f \in FieldsOf("daemon") : DefaultsOf("daemon")[f].default # "empty"
<1>1. {"manager_url", "node_id"} \subseteq DOMAIN TobogganingDefaults
      /\ \A f \in {"manager_url", "node_id"} : TobogganingDefaults[f].default = "empty"
  BY DEF TobogganingDefaults, Typed, ++
<1>2. "webhook.url" \in DOMAIN WaddlebotDefaults
  <2>1. "webhook.url" \in DOMAIN WebhookDefaults
    BY DEF WebhookDefaults, Typed, ++
  <2> QED
    BY <2>1, Merged DEF WaddlebotDefaults
<1>3. \A f \in DOMAIN DaemonDefaults : DaemonDefaults[f].default # "empty"
  BY DEF DaemonDefaults, Typed, ++
<1> QED
  BY <1>1, <1>2, <1>3 DEF Required, FieldsOf, DefaultsOf

\* A document sets fields of its owner's struct.
LEMMA DocumentFacts ==
    ASSUME NEW o \in Owners, NEW f \in FieldsOf(o)
    PROVE  /\ Blank \in Documents(o, f) /\ Blank.kind = "blank" /\ DOMAIN Blank.set = {}
           /\ \A doc \in Documents(o, f) : DOMAIN doc.set \subseteq FieldsOf(o)
<1>1. Blank \in Documents(o, f) /\ Blank.kind = "blank" /\ DOMAIN Blank.set = {}
  BY DEF Documents, Blank, Plain, Unset
<1>2. ASSUME NEW k PROVE DOMAIN Plain(k).set = {}
  BY DEF Plain, Unset
<1>3. ASSUME NEW s PROVE Mapping(s).set = s
  BY DEF Mapping
<1> DEFINE companions == [g \in Required(o, {f}) |-> "set"]
           values == ValuesOf(DefaultsOf(o)[f].type)
<1>4. DOMAIN companions \subseteq FieldsOf(o)
  BY TableFacts
<1>5. ASSUME NEW v PROVE DOMAIN [g \in {f} |-> v] \subseteq FieldsOf(o)
  OBVIOUS
<1>6. ASSUME NEW v PROVE DOMAIN ([g \in {f} |-> v] ++ companions) \subseteq FieldsOf(o)
  BY <1>4, <1>5, Merged
<1>7. ASSUME NEW doc \in Documents(o, f) PROVE DOMAIN doc.set \subseteq FieldsOf(o)
  <2>1. \/ \E k : doc = Plain(k)
        \/ doc = Mapping(companions)
        \/ \E v : doc = Mapping([g \in {f} |-> v] ++ companions)
        \/ \E v : doc = Mapping([g \in {f} |-> v])
    BY Zenon DEF Documents
  <2> QED
    BY <1>2, <1>3, <1>4, <1>5, <1>6, <2>1, Zenon
<1> QED
  BY <1>1, <1>7

-----------------------------------------------------------------------------
(* ModuleConfig: the inductive invariant *)

ConfigShape ==
    /\ cfOwner \in Owners /\ cfField \in FieldsOf(cfOwner)
    /\ cfFile \in Documents(cfOwner, cfField) /\ cfRead \in Documents(cfOwner, cfField)
    /\ cfGiven \in Documents(cfOwner, cfField)
    /\ cfPhase \in {"down", "validated", "given", "configured", "refused"}
    /\ cfDir \in BOOLEAN /\ cfEdits \in 0..MaxEdits /\ cfLoads \in 0..MaxLoads
    /\ cfTouched \in BOOLEAN /\ cfFault \in BOOLEAN
    /\ cfOwner \in BuiltIns => cfSchema = "usable"
    /\ cfOwner = "daemon" => cfPhase \in {"down", "configured", "refused"}

\* Between the two reads, the file is what was validated unless it was edited.
BetweenReads ==
    cfPhase = "validated" =>
        /\ ~cfFault /\ cfSafe /\ Validates(cfRead)
        /\ ~cfTouched => cfFile = cfRead

\* What is used of the document that was read.
Used == IF cfSafe /\ Validates(cfRead) /\ cfRead.kind # "absent" THEN cfRead ELSE Blank

\* After them, what is given is what was read, if that is valid.
AfterReads ==
    cfPhase \in {"given", "configured", "refused"} /\ cfOwner # "daemon" =>
        /\ cfFault => cfGiven = Blank
        /\ ~cfTouched /\ ~cfFault => cfGiven = Used

\* What the module makes of it.
Accepts(doc) == (doc = Blank \/ Parses(doc)) /\ InitAccepts(doc)
AfterParse ==
    cfOwner \in BuiltIns =>
        /\ cfPhase = "configured" => Accepts(cfGiven)
        /\ cfPhase = "refused" => ~Accepts(cfGiven)

ConfigInv == ConfigShape /\ BetweenReads /\ AfterReads /\ AfterParse

LEMMA ConfigStart == ConfigInit => ConfigInv
<1> SUFFICES ASSUME ConfigInit PROVE ConfigInv
  OBVIOUS
<1>1. cfOwner \in Owners /\ cfField \in FieldsOf(cfOwner) /\ cfPhase = "down"
  BY DEF ConfigInit
<1>2. cfOwner \in BuiltIns => cfSchema = "usable"
  BY DEF ConfigInit, BuiltIns
<1>3. Blank \in Documents(cfOwner, cfField)
  BY <1>1, DocumentFacts
<1>4. ConfigShape
  <2>1. cfFile \in Documents(cfOwner, cfField) /\ cfRead = Blank /\ cfGiven = Blank /\ cfDir = FALSE
        /\ cfEdits = 0 /\ cfLoads = 0 /\ cfTouched = FALSE /\ cfFault = FALSE
    BY Zenon DEF ConfigInit
  <2>2. cfEdits \in 0..MaxEdits /\ cfLoads \in 0..MaxLoads
    BY <2>1, ConfigAssumption
  <2> QED
    BY <1>1, <1>2, <1>3, <2>1, <2>2 DEF ConfigShape
<1> QED
  BY <1>1, <1>4 DEF ConfigInv, BetweenReads, AfterReads, AfterParse

LEMMA EditStep == ConfigInv /\ EditFile => ConfigInv'
<1> SUFFICES ASSUME ConfigInv, EditFile PROVE ConfigInv'
  OBVIOUS
<1>1. PICK doc \in Documents(cfOwner, cfField) \ {cfFile} : cfFile' = doc
  BY DEF EditFile
<1>2. /\ cfTouched' = (cfTouched \/ cfPhase = "validated") /\ cfEdits' = cfEdits + 1 /\ cfEdits < MaxEdits
      /\ UNCHANGED <<cfOwner, cfField, cfSchema, cfSafe, cfPhase, cfRead, cfGiven, cfDir, cfLoads, cfFault>>
  BY DEF EditFile
<1>3. cfTouched' \in BOOLEAN
  BY <1>2
<1>4. cfEdits' \in 0..MaxEdits
  BY <1>2, ConfigAssumption DEF ConfigInv, ConfigShape
<1>5. ConfigShape'
  BY <1>1, <1>2, <1>3, <1>4 DEF ConfigInv, ConfigShape
<1>6. BetweenReads' /\ AfterReads'
  BY <1>2 DEF ConfigInv, BetweenReads, AfterReads, Used, Validates
<1>7. AfterParse'
  BY <1>2 DEF ConfigInv, AfterParse, Accepts, InitAccepts
<1> QED
  BY <1>5, <1>6, <1>7 DEF ConfigInv

LEMMA ValidateStep == ConfigInv /\ ValidateConfig => ConfigInv'
<1> SUFFICES ASSUME ConfigInv, ValidateConfig PROVE ConfigInv'
  OBVIOUS
<1>1. /\ cfOwner # "daemon" /\ MayLoad /\ cfLoads' = cfLoads + 1 /\ cfTouched' = FALSE /\ cfRead' = cfFile
      /\ UNCHANGED <<cfOwner, cfField, cfSchema, cfSafe, cfFile, cfEdits>>
  BY DEF ValidateConfig
<1>2. Blank \in Documents(cfOwner, cfField)
  BY DocumentFacts DEF ConfigInv, ConfigShape
<1>3. cfLoads' \in 0..MaxLoads
  BY <1>1, ConfigAssumption DEF MayLoad, ConfigInv, ConfigShape
<1>4. Validates(cfRead)' <=> Validates(cfFile)
  BY <1>1 DEF Validates
<1>5. CASE Passes /\ cfFault' = FALSE /\ cfPhase' = "validated" /\ UNCHANGED <<cfGiven, cfDir>>
  <2>1. ConfigShape'
    BY <1>1, <1>3, <1>5 DEF ConfigInv, ConfigShape
  <2>2. BetweenReads'
    BY <1>1, <1>4, <1>5 DEF BetweenReads, Passes
  <2> QED
    BY <1>5, <2>1, <2>2 DEF ConfigInv, AfterReads, AfterParse
<1>6. CASE ((~Passes /\ cfFault' = FALSE) \/ cfFault' = TRUE) /\ GoesWithout /\ DirEnsured
  <2>1. cfDir' \in BOOLEAN /\ cfPhase' = "given" /\ cfGiven' = Blank /\ cfFault' \in BOOLEAN
    BY <1>6 DEF DirEnsured, GoesWithout
  <2>2. ConfigShape'
    BY <1>1, <1>2, <1>3, <2>1 DEF ConfigInv, ConfigShape
  <2>3. ~cfFault' => Used' = Blank
    BY <1>1, <1>4, <1>6 DEF Used, Passes
  <2>4. AfterReads'
    BY <2>1, <2>3 DEF AfterReads
  <2> QED
    BY <2>1, <2>2, <2>4 DEF ConfigInv, BetweenReads, AfterParse
<1> QED
  BY <1>5, <1>6 DEF ValidateConfig

LEMMA ReadStep == ConfigInv /\ ReadVerbatim => ConfigInv'
<1> SUFFICES ASSUME ConfigInv, ReadVerbatim PROVE ConfigInv'
  OBVIOUS
<1>1. /\ cfPhase = "validated" /\ cfPhase' = "given"
      /\ UNCHANGED <<cfOwner, cfField, cfSchema, cfSafe, cfFile, cfRead, cfEdits, cfLoads, cfTouched>>
      /\ \/ cfGiven' = SecondRead /\ cfFault' = cfFault
         \/ cfGiven' = Blank /\ cfFault' = TRUE
  BY DEF ReadVerbatim, GoesWithout
<1>2. cfOwner # "daemon" /\ ~cfFault /\ cfSafe /\ Validates(cfRead) /\ (~cfTouched => cfFile = cfRead)
  BY <1>1 DEF ConfigInv, ConfigShape, BetweenReads
<1>3. cfDir' \in BOOLEAN
  BY DEF ReadVerbatim, DirEnsured
<1>4. cfGiven' \in Documents(cfOwner, cfField) /\ cfFault' \in BOOLEAN
  <2>1. Blank \in Documents(cfOwner, cfField)
    BY DocumentFacts DEF ConfigInv, ConfigShape
  <2> QED
    BY <1>1, <2>1 DEF SecondRead, ConfigInv, ConfigShape
<1>5. ConfigShape'
  BY <1>1, <1>2, <1>3, <1>4 DEF ConfigInv, ConfigShape
<1>6. Used' = Used
  BY <1>1 DEF Used, Validates
<1>7. AfterReads'
  BY <1>1, <1>2, <1>6 DEF AfterReads, Used, SecondRead
<1> QED
  BY <1>1, <1>5, <1>7 DEF ConfigInv, BetweenReads, AfterParse

LEMMA ParseStep == ConfigInv /\ ParseConfig => ConfigInv'
<1> SUFFICES ASSUME ConfigInv, ParseConfig PROVE ConfigInv'
  OBVIOUS
<1>1. /\ cfPhase = "given" /\ cfPhase' \in {"configured", "refused"}
      /\ UNCHANGED <<cfOwner, cfField, cfSchema, cfSafe, cfFile, cfRead, cfGiven, cfDir, cfEdits, cfLoads,
                     cfTouched, cfFault>>
  BY DEF ParseConfig
<1>2. cfOwner # "plugin" => (cfPhase' = "configured" <=> Accepts(cfGiven))
  BY DEF ParseConfig, Accepts
<1>3. cfOwner # "daemon"
  BY <1>1 DEF ConfigInv, ConfigShape
<1>4. ConfigShape'
  BY <1>1, <1>3 DEF ConfigInv, ConfigShape
<1>5. Used' = Used
  BY <1>1 DEF Used, Validates
<1>6. AfterReads'
  BY <1>1, <1>3, <1>5 DEF ConfigInv, AfterReads
<1>7. Accepts(cfGiven)' <=> Accepts(cfGiven)
  BY <1>1 DEF Accepts, InitAccepts
<1>8. AfterParse'
  BY <1>1, <1>2, <1>7 DEF AfterParse, BuiltIns
<1> QED
  BY <1>1, <1>4, <1>6, <1>8 DEF ConfigInv, BetweenReads

LEMMA DaemonStep == ConfigInv /\ ReadDaemonConfig => ConfigInv'
<1> SUFFICES ASSUME ConfigInv, ReadDaemonConfig PROVE ConfigInv'
  OBVIOUS
<1>1. /\ cfOwner = "daemon" /\ MayLoad /\ cfLoads' = cfLoads + 1 /\ cfTouched' = FALSE /\ cfRead' = cfFile
      /\ UNCHANGED <<cfOwner, cfField, cfSchema, cfSafe, cfFile, cfDir, cfEdits>>
      /\ cfPhase' \in {"configured", "refused"} /\ cfGiven' \in {SecondRead, Blank} /\ cfFault' \in BOOLEAN
  BY DEF ReadDaemonConfig
<1>2. cfGiven' \in Documents(cfOwner, cfField)
  <2>1. Blank \in Documents(cfOwner, cfField)
    BY DocumentFacts DEF ConfigInv, ConfigShape
  <2> QED
    BY <1>1, <2>1 DEF SecondRead, ConfigInv, ConfigShape
<1>3. cfLoads' \in 0..MaxLoads
  BY <1>1, ConfigAssumption DEF MayLoad, ConfigInv, ConfigShape
<1>4. ConfigShape'
  BY <1>1, <1>2, <1>3 DEF ConfigInv, ConfigShape
<1> QED
  BY <1>1, <1>4 DEF ConfigInv, BetweenReads, AfterReads, AfterParse, BuiltIns

LEMMA ConfigStep == ConfigInv /\ [ConfigNext]_configVars => ConfigInv'
<1>1. ConfigInv /\ UNCHANGED configVars => ConfigInv'
  BY DEF configVars, ConfigInv, ConfigShape, BetweenReads, AfterReads, Used, Validates, AfterParse, Accepts, InitAccepts
<1> QED
  BY <1>1, EditStep, ValidateStep, ReadStep, ParseStep, DaemonStep DEF ConfigNext

LEMMA ConfigSound == ConfigInv => ConfigIsSound
<1> SUFFICES ASSUME ConfigInv PROVE ConfigIsSound
  OBVIOUS
<1>0. cfOwner \in Owners /\ cfField \in FieldsOf(cfOwner) /\ cfGiven \in Documents(cfOwner, cfField)
  BY DEF ConfigInv, ConfigShape
<1>1. DOMAIN cfGiven.set \subseteq FieldsOf(cfOwner)
  BY <1>0, DocumentFacts
<1>2. ConfigTypeOK
  <2>1. ASSUME cfOwner = "daemon", NEW f \in FieldsOf(cfOwner) PROVE InEffect(cfOwner, cfGiven, f) # "empty"
    BY <2>1, TableFacts DEF InEffect, Filled
  <2> QED
    BY <2>1 DEF ConfigInv, ConfigShape, ConfigTypeOK
<1>3. ValidatedIsAccepted
  <2> SUFFICES ASSUME cfOwner \in BuiltIns, cfPhase = "refused", ~cfTouched,
                      \A f \in DOMAIN cfGiven.set : cfGiven.set[f] # "odd"
               PROVE  ~InitAccepts(cfGiven)
    BY DEF ValidatedIsAccepted, InitAccepts
  <2>1. ~Accepts(cfGiven)
    BY DEF ConfigInv, AfterParse
  <2> SUFFICES ASSUME cfGiven # Blank, ~Parses(cfGiven) PROVE FALSE
    BY <2>1 DEF Accepts
  <2>2. cfGiven = cfRead /\ Validates(cfRead) /\ cfRead.kind # "absent" /\ cfSchema = "usable"
    BY DEF ConfigInv, ConfigShape, AfterReads, Used, BuiltIns
  <2>3. cfGiven.kind \in {"blank", "mapping"} /\ SchemaHolds(cfOwner, cfGiven)
    BY <2>2 DEF Validates
  <2>4. PICK f \in DOMAIN cfGiven.set : cfGiven.set[f] = "wrong"
    BY <2>3 DEF Parses
  <2>5. f \in DOMAIN SchemaOf(cfOwner)
    BY <1>1, <2>4, TablesAgree DEF Agrees, FieldsOf
  <2> QED
    BY <2>3, <2>4, <2>5 DEF SchemaHolds
<1>4. UsedExactlyIfValid
  BY DEF ConfigInv, AfterReads, Used, UsedExactlyIfValid
<1>5. UnsetMeansAdvertised
  <2> SUFFICES ASSUME cfOwner \in BuiltIns, NEW f \in FieldsOf(cfOwner) \ DOMAIN cfGiven.set
               PROVE  SchemaOf(cfOwner)[f].default \in {Unadvertised, InEffect(cfOwner, cfGiven, f)}
    BY DEF UnsetMeansAdvertised
  <2>1. InEffect(cfOwner, cfGiven, f) = DefaultsOf(cfOwner)[f].default
    BY DEF InEffect
  <2> QED
    BY <2>1, TablesAgree DEF Agrees, FieldsOf
<1>6. NeverHalfConfigured
  <2> SUFFICES ASSUME cfOwner = "tobogganing", cfPhase = "configured"
               PROVE  Parses(cfGiven) /\ {"manager_url", "node_id"} \subseteq DOMAIN cfGiven.set
    BY DEF NeverHalfConfigured
  <2>1. Accepts(cfGiven)
    BY DEF ConfigInv, AfterParse, BuiltIns
  <2>2. ASSUME NEW f \in {"manager_url", "node_id"} PROVE f \in DOMAIN cfGiven.set
    BY <2>1, TableFacts DEF Accepts, InitAccepts, InEffect
  <2>3. cfGiven # Blank
    BY <1>0, <2>2, DocumentFacts
  <2> QED
    BY <2>1, <2>2, <2>3 DEF Accepts
<1> QED
  BY <1>2, <1>3, <1>4, <1>5, <1>6 DEF ConfigIsSound

-----------------------------------------------------------------------------
(* The run's specification: a step of one part leaves the others alone *)

LEMMA SquawkParts ==
    [MCNext]_MCVars =>
        /\ [Next]_vars /\ [PlatformNext]_platformVars /\ [ConfigNext]_configVars
        /\ [ForwarderNext]_forwarderVars /\ [CacheNext]_cacheVars /\ [DohNext]_dohVars
        /\ [LicenseNext]_licenseVars /\ [DayPasses]_civilVars /\ [NtpNext]_ntpVars
<1>1. CASE UNCHANGED MCVars
  BY <1>1 DEF MCVars
<1>2. CASE MCNext
  BY <1>2 DEF MCNext, InPart
<1> QED
  BY <1>1, <1>2

\* HostDnsIsKept of the run, whatever the links, the services and the failing calls.
THEOREM DnsKept == MCSpec => []HostDnsIsKept
<1>1. MCInit => ResolverInv /\ PlatformInv
  BY ResolverInit, PlatformStart DEF MCInit
<1>2. ResolverInv /\ PlatformInv /\ [MCNext]_MCVars => ResolverInv' /\ PlatformInv'
  BY SquawkParts, ResolverStep, PlatformStep
<1>3. PlatformInv => PlatformTypeOK /\ ManagedIsMarkedOrMissed
  BY DEF PlatformInv, ManagedIsMarkedOrMissed, Astray
<1>4. ResolverInv /\ PlatformInv => HostDnsIsKept
  BY <1>3, ResolverKept DEF HostDnsIsKept, ResolverInv
<1> QED
  BY <1>1, <1>2, <1>4, PTL DEF MCSpec

\* ForwarderIsSound of the run, for any queries, cache size, lookups and servers: what
\* runs is served and what is stopped is released, the cache gives no stale answer and
\* drops no fresh one, and a lookup gives up only if every server it reached is dead.
THEOREM ForwarderSoundness == MCSpec => ForwarderIsSound
<1> DEFINE I == ForwarderInv /\ CacheInv /\ DohInv
<1>1. MCInit => I
  BY ForwarderStart, CacheStart, DohStart DEF MCInit
<1>2. I /\ [MCNext]_MCVars => I'
  BY SquawkParts, ForwarderStep, CacheStep, DohStep
<1>3. I => /\ ForwarderTypeOK /\ RunningIsServed /\ StoppedIsReleased /\ GaugeLiesOnlyIfOverlapped
           /\ CacheTypeOK /\ NoStaleAnswer /\ OrderedUntilExpiry
           /\ DohTypeOK /\ GivesUpOnlyIfAllDead
  BY ForwarderSound, CacheSound, DohSound
<1>4. I /\ [MCNext]_MCVars =>
        [\A k \in DOMAIN dcEntries \ DOMAIN dcEntries' :
           \/ dcClock >= ExpiresAt(k) \/ dcEntries' = << >>
           \/ Cardinality(DOMAIN dcEntries) >= MaxEntries /\ DOMAIN dcEntries' \ DOMAIN dcEntries # {}]_cacheVars
  BY SquawkParts, FreshStaysStep
<1> HIDE DEF I
<1> QED
  BY <1>1, <1>2, <1>3, <1>4, PTL DEF MCSpec, ForwarderIsSound, FreshStays

\* LicenceAndTimeAreTrue of the run, for every cache time, pool and era: "valid" rests on
\* a recent answer, the date is the calendar's, the offset is the skew, and a query fails
\* only once every server was asked twice.
THEOREM LicenceAndTimeTrue == MCSpec => LicenceAndTimeAreTrue
<1> DEFINE I == LicenseInv /\ CivilInv /\ NtpInv
<1>1. MCInit => I
  BY LicenseStart, CivilStart, NtpStart DEF MCInit
<1>2. I /\ [MCNext]_MCVars => I'
  BY SquawkParts, LicenseStep, CivilStep, NtpStep
<1>3. I => LicenseTypeOK /\ DateIsCalendars /\ NtpTypeOK /\ SyncTellsOutcome /\ OffsetIsSkew
  BY LicenseTyped DEF CivilInv, NtpInv, NtpShape, NtpTypeOK
<1>4. I /\ [MCNext]_MCVars =>
        [lvCall'.at = "idle" /\ lvCall'.said = "valid" /\ lvCall # lvCall' =>
           /\ lvCache'.valid
           /\ \/ Day(lvCache'.at) = Day(lvNow)
              \/ lvNow - lvCache'.at < FallbackFreshness \/ lvNow - lvCache'.at < lvCacheTime]_licenseVars
  BY SquawkParts, ValidIsRecentStep
<1>5. I /\ [MCNext]_MCVars =>
        [ntState.sync # ntState'.sync /\ ~ntState'.sync => \A s \in Pool : ntAsked[s] = 2]_ntpVars
  BY SquawkParts, FailureAsksAllStep
<1> HIDE DEF I
<1> QED
  BY <1>1, <1>2, <1>3, <1>4, <1>5, PTL DEF MCSpec, LicenceAndTimeAreTrue, ValidIsRecent, FailureAsksAll

\* ConfigIsSound of the run, for any number of edits and loads: a module is given what
\* passed validation, uses the file exactly if it is valid, runs with the defaults its
\* schema advertises, and is never left half configured.
THEOREM ConfigSoundness == MCSpec => []ConfigIsSound
<1>1. MCInit => ConfigInv
  BY ConfigStart DEF MCInit
<1>2. ConfigInv /\ [MCNext]_MCVars => ConfigInv'
  BY SquawkParts, ConfigStep
<1> QED
  BY <1>1, <1>2, ConfigSound, PTL DEF MCSpec
=============================================================================
