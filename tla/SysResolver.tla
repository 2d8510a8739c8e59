---------------------------- MODULE SysResolver ----------------------------
(***************************************************************************)
(* The squawk module's management of the host's DNS resolver on Linux      *)
(* (crates/penguin-module-squawk/src/sysresolver, driven by init, start    *)
(* and stop of module.rs): the ordering of backup, crash marker and        *)
(* mutation that is meant to make every crash recoverable.                 *)
(*                                                                         *)
(* One module instance at a time drives it (the supervisor serialises      *)
(* lifecycle calls), so the interleaving that matters is with crashes: the *)
(* process may die between any two steps, and a request that is dropped at *)
(* an await loses the instance the same way.  fsutil's writes truncate and *)
(* then fill, so a crash or a failure can leave a file torn.               *)
(*                                                                         *)
(* Data: a resolv.conf is the operator's file ("orig"), the same servers   *)
(* without the rest ("bare"), our server ("managed"), no server ("blank"), *)
(* truncated ("torn") or missing ("absent").  With systemd-resolved the    *)
(* state is the set of links that carry our override.                      *)
(***************************************************************************)
EXTENDS FiniteSets

CONSTANTS
    Links,     \* non-loopback network links (links.rs)
    Faults     \* which calls may fail: see FaultKinds

FaultKinds == {"snapshot", "marker", "commit", "restore"}

ASSUME LinksAssumption == Links # {}
ASSUME FaultsAssumption == Faults \subseteq FaultKinds

VARIABLES
    pc,          \* where the instance is; "down": there is none
    manage,      \* config system_dns.manage of this instance
    job,         \* locals of the apply, restore or recovery in progress
    mem,         \* SysResolver.state
    live,        \* /etc/resolv.conf
    backup,      \* <data_dir>/resolv.conf.backup
    marker,      \* <data_dir>/dns-applied.json
    overridden,  \* links systemd-resolved sends to our server
    origin,      \* history: live before squawk ever ran
    failed       \* history: the kinds of calls that have failed

vars == <<pc, manage, job, mem, live, backup, marker, overridden, origin, failed>>

-----------------------------------------------------------------------------
(* Values *)

Contents == {"orig", "bare", "managed", "blank", "torn", "absent"}
Servers == {"orig", "managed", "none"}
Backends == {"resolved", "resolv_conf"}
Goals == {"none", "apply", "recover", "stop"}
Steps == {"down", "ready", "running", "snapshot", "backup", "mark", "commit",
          "unmark", "undo", "rewrite", "reclaim", "clear"}

\* A marker, and the in-memory AppliedState: which backend, which servers.
Record == [st: {"absent", "torn", "valid"}, backend: Backends \union {"none"},
           prev: Servers]
NoRecord == [st |-> "absent", backend |-> "none", prev |-> "none"]
TornRecord == [st |-> "torn", backend |-> "none", prev |-> "none"]
Recorded(b, s) == [st |-> "valid", backend |-> b, prev |-> s]

\* goal: what the steps serve; from: bytes to write to live; left: links
\* still to visit; opened: the file being written has been truncated.
Job == [goal: Goals, backend: Backends \union {"none"}, prev: Servers,
        from: Contents, left: SUBSET Links, opened: BOOLEAN]
JobFor(g, b, s, links) == [goal |-> g, backend |-> b, prev |-> s,
                           from |-> "absent", left |-> links, opened |-> FALSE]
NoJob == JobFor("none", "none", "none", {})

\* parse_nameservers of a file.
ServersIn(c) == CASE c \in {"orig", "bare"} -> "orig"
                  [] c = "managed" -> "managed"
                  [] OTHER -> "none"

\* format_resolv_conf of a server list: everything else in the file is lost.
Rewritten(s) == CASE s = "orig" -> "bare"
                  [] s = "managed" -> "managed"
                  [] OTHER -> "blank"

\* A call of this kind returns an error.
Fails(kind) == kind \in Faults /\ failed' = failed \union {kind}

-----------------------------------------------------------------------------

Init ==
    /\ pc = "down" /\ manage = FALSE /\ job = NoJob /\ mem = NoRecord
    /\ live \in {"orig", "absent"} /\ backup = "absent" /\ marker = NoRecord
    /\ overridden = {} /\ origin = live /\ failed = {}

\* The process is killed, or the handler's future is dropped at an await.
Crash ==
    /\ pc # "down"
    /\ pc' = "down" /\ job' = NoJob /\ mem' = NoRecord
    /\ UNCHANGED <<manage, live, backup, marker, overridden, origin, failed>>

\* The instance is given up with nothing applied: init or the forwarder's
\* start failed.
Discard ==
    /\ pc = "ready"
    /\ pc' = "down"
    /\ UNCHANGED <<manage, job, mem, live, backup, marker, overridden, origin, failed>>

\* The undo that restore or recover_from_crash is about to do.
UndoJob(g, rec) == JobFor(g, rec.backend, rec.prev, Links)

\* The marker file is renamed away (quarantine) or deleted; a failure is
\* logged and the file stays.
DropMarker == \/ marker' = NoRecord /\ UNCHANGED failed
              \/ Fails("marker") /\ UNCHANGED marker

\* The end of a recovery or a stop that failed: init only warns, stop drops
\* the instance anyway.
GiveUp(g) == /\ pc' = IF g = "recover" THEN "ready" ELSE "down"
             /\ mem' = NoRecord
             /\ job' = NoJob

\* Mutant: recovery is skipped.
LaunchUnrecovered ==
    /\ pc = "down"
    /\ manage' \in BOOLEAN
    /\ pc' = "ready"
    /\ UNCHANGED <<job, mem, live, backup, marker, overridden, origin, failed>>

\* init of a fresh instance, up to recover_from_crash's call of the backend.
Launch ==
    /\ pc = "down"
    /\ manage' \in BOOLEAN
    /\ \/ /\ marker.st = "absent"
          /\ pc' = "ready"
          /\ UNCHANGED <<job, marker, failed>>
       \/ /\ marker.st = "torn"
          /\ pc' = "ready" /\ DropMarker
          /\ UNCHANGED job
       \/ /\ marker.st = "valid"
          /\ pc' = "undo" /\ job' = UndoJob("recover", marker)
          /\ UNCHANGED <<marker, failed>>
       \/ /\ Fails("restore") /\ marker.st # "absent"
          /\ pc' = "ready"
          /\ UNCHANGED <<job, marker>>
    /\ UNCHANGED <<mem, live, backup, overridden, origin>>

\* start: the forwarder is up; DNS is touched only if configured.
Start ==
    /\ pc = "ready"
    /\ pc' = IF manage THEN "snapshot" ELSE "running"
    /\ job' = IF manage THEN JobFor("apply", "none", "none", {}) ELSE NoJob
    /\ UNCHANGED <<manage, mem, live, backup, marker, overridden, origin, failed>>

-----------------------------------------------------------------------------
(* apply *)

\* select_and_snapshot: systemd-resolved if it answers, else resolv.conf,
\* which is copied to the backup unless it is missing.
Snapshot ==
    /\ pc = "snapshot"
    /\ \/ /\ job' = [job EXCEPT !.backend = "resolved", !.left = Links]
          /\ pc' = "mark"
       \/ /\ job' = [job EXCEPT !.backend = "resolv_conf", !.prev = ServersIn(live)]
          /\ pc' = IF live = "absent" THEN "mark" ELSE "backup"
    /\ UNCHANGED <<manage, mem, live, backup, marker, overridden, origin, failed>>

\* write_owner_only opens with truncate(true).
Truncate ==
    /\ ~job.opened
    /\ job' = [job EXCEPT !.opened = TRUE]
    /\ \/ pc = "backup" /\ backup' = "torn" /\ UNCHANGED <<marker, live>>
       \/ pc = "mark" /\ marker' = TornRecord /\ UNCHANGED <<backup, live>>
       \/ /\ pc = "rewrite" \/ (pc = "commit" /\ job.backend = "resolv_conf")
          /\ live' = "torn" /\ UNCHANGED <<backup, marker>>
    /\ UNCHANGED <<pc, manage, mem, overridden, origin, failed>>

BackupWritten ==
    /\ pc = "backup" /\ job.opened
    /\ backup' = live
    /\ pc' = "mark" /\ job' = [job EXCEPT !.opened = FALSE]
    /\ UNCHANGED <<manage, mem, live, marker, overridden, origin, failed>>

MarkerWritten ==
    /\ pc = "mark" /\ job.opened
    /\ marker' = Recorded(job.backend, job.prev)
    /\ pc' = "commit" /\ job' = [job EXCEPT !.opened = FALSE]
    /\ UNCHANGED <<manage, mem, live, backup, overridden, origin, failed>>

\* start goes on without managed DNS when the snapshot or the marker fails.
\* The chmod after a complete write may be what failed.
ApplyFails ==
    /\ \/ /\ pc \in {"snapshot", "backup"} /\ Fails("snapshot")
          /\ \/ UNCHANGED backup
             \/ job.opened /\ backup' = live
          /\ UNCHANGED marker
       \/ /\ pc = "mark" /\ Fails("marker")
          /\ \/ UNCHANGED marker
             \/ job.opened /\ marker' = Recorded(job.backend, job.prev)
          /\ UNCHANGED backup
    /\ pc' = "running" /\ job' = NoJob
    /\ UNCHANGED <<manage, mem, live, overridden, origin>>

\* The end of a successful apply.
Applied == /\ pc' = "running" /\ job' = NoJob
           /\ mem' = Recorded(job.backend, job.prev)

CommitFile ==
    /\ pc = "commit" /\ job.backend = "resolv_conf" /\ job.opened
    /\ live' = "managed"
    /\ Applied
    /\ UNCHANGED <<manage, backup, marker, overridden, origin, failed>>

\* SetLinkDNS and SetLinkDefaultRoute of one link.
CommitLink(l) ==
    /\ pc = "commit" /\ job.backend = "resolved" /\ l \in job.left
    /\ overridden' = overridden \union {l}
    /\ IF job.left = {l}
       THEN Applied
       ELSE job' = [job EXCEPT !.left = @ \ {l}] /\ UNCHANGED <<pc, mem>>
    /\ UNCHANGED <<manage, live, backup, marker, origin, failed>>

\* commit returns an error where it stands; of a link's two calls, or of the
\* file's write and chmod, the second may be the one that failed.
CommitFails ==
    /\ pc = "commit" /\ Fails("commit")
    /\ \/ UNCHANGED <<overridden, live>>
       \/ /\ job.backend = "resolved"
          /\ \E l \in job.left : overridden' = overridden \union {l}
          /\ UNCHANGED live
       \/ /\ job.backend = "resolv_conf" /\ job.opened
          /\ live' = "managed"
          /\ UNCHANGED overridden
    /\ pc' = "unmark" /\ job' = [job EXCEPT !.opened = FALSE]
    /\ UNCHANGED <<manage, mem, backup, marker, origin>>

\* apply's clean-up after a failed commit: the marker is deleted whatever
\* commit had already done.
Unmark ==
    /\ pc = "unmark"
    /\ DropMarker
    /\ pc' = "running" /\ job' = NoJob
    /\ UNCHANGED <<manage, mem, live, backup, overridden, origin>>

-----------------------------------------------------------------------------
(* restore (from stop) and recover_from_crash (from init) *)

\* stop: restore takes the record in memory, else the marker.
Stop ==
    /\ pc = "running"
    /\ \/ /\ ~manage \/ (mem.st # "valid" /\ marker.st = "absent")
          /\ GiveUp("stop") /\ UNCHANGED <<marker, failed>>
       \/ /\ manage /\ mem.st = "valid"
          /\ pc' = "undo" /\ job' = UndoJob("stop", mem)
          /\ UNCHANGED <<mem, marker, failed>>
       \/ /\ manage /\ mem.st # "valid" /\ marker.st = "valid"
          /\ pc' = "undo" /\ job' = UndoJob("stop", marker)
          /\ UNCHANGED <<mem, marker, failed>>
       \/ /\ manage /\ mem.st # "valid" /\ marker.st = "torn"
          /\ GiveUp("stop") /\ DropMarker
       \/ /\ manage /\ mem.st # "valid" /\ Fails("restore") /\ marker.st # "absent"
          /\ GiveUp("stop") /\ UNCHANGED marker
    /\ UNCHANGED <<manage, live, backup, overridden, origin>>

\* ResolvConfBackend::restore reads the backup, or falls back to the list.
UndoFile ==
    /\ pc = "undo" /\ job.backend = "resolv_conf"
    /\ pc' = "rewrite"
    /\ job' = [job EXCEPT !.from = IF backup = "absent" THEN Rewritten(job.prev)
                                                        ELSE backup]
    /\ UNCHANGED <<manage, mem, live, backup, marker, overridden, origin, failed>>

FileRewritten ==
    /\ pc = "rewrite" /\ job.opened
    /\ live' = job.from
    /\ pc' = IF backup = "absent" THEN "clear" ELSE "reclaim"
    /\ job' = [job EXCEPT !.opened = FALSE]
    /\ UNCHANGED <<manage, mem, backup, marker, overridden, origin, failed>>

\* The backup is removed; a failure is only logged.
Reclaim ==
    /\ pc = "reclaim"
    /\ \/ backup' = "absent" /\ UNCHANGED failed
       \/ Fails("restore") /\ UNCHANGED backup
    /\ pc' = "clear"
    /\ UNCHANGED <<manage, job, mem, live, marker, overridden, origin>>

\* RevertLink of one link.
RevertLink(l) ==
    /\ pc = "undo" /\ job.backend = "resolved" /\ l \in job.left
    /\ overridden' = overridden \ {l}
    /\ job' = [job EXCEPT !.left = @ \ {l}]
    /\ pc' = IF job.left = {l} THEN "clear" ELSE pc
    /\ UNCHANGED <<manage, mem, live, backup, marker, origin, failed>>

\* The backend's restore returns an error; the marker stays.
UndoFails ==
    /\ pc \in {"undo", "rewrite"} /\ Fails("restore")
    /\ \/ UNCHANGED live
       \/ job.opened /\ live' = job.from
    /\ GiveUp(job.goal)
    /\ UNCHANGED <<manage, backup, marker, overridden, origin>>

\* The marker is deleted; init and stop go on alike if that fails.
Clear ==
    /\ pc = "clear"
    /\ DropMarker
    /\ GiveUp(job.goal)
    /\ UNCHANGED <<manage, live, backup, overridden, origin>>

-----------------------------------------------------------------------------

Step ==
    \/ Launch \/ Start \/ Snapshot \/ Truncate \/ BackupWritten \/ MarkerWritten
    \/ CommitFile \/ Unmark
    \/ UndoFile \/ FileRewritten \/ Reclaim \/ Clear
    \/ \E l \in Links : CommitLink(l) \/ RevertLink(l)

Next ==
    \/ Crash \/ Discard \/ Stop
    \/ ApplyFails \/ CommitFails \/ UndoFails
    \/ Step

Spec == Init /\ [][Next]_vars

\* The module's own steps go on while the process lives, and a module in the
\* enabled set is launched again at the next boot.
FairSpec == Spec /\ WF_vars(Step)

-----------------------------------------------------------------------------
(* Properties *)

\* Every variable stays within its set of values.
TypeOK ==
    /\ pc \in Steps
    /\ manage \in BOOLEAN
    /\ job \in Job
    /\ mem \in Record /\ marker \in Record
    /\ live \in Contents /\ backup \in Contents /\ origin \in Contents
    /\ overridden \subseteq Links
    /\ failed \subseteq FaultKinds

\* The host resolves through our server somewhere.
Pointed == live = "managed" \/ overridden # {}

\* "The marker exists on disk is a true precondition for DNS might have
\* changed": the host points at us only while a readable marker is there
\* (apply writes it before commit, restore deletes it last).
PointedIsMarked == Pointed => marker.st = "valid"

\* The same, for a host where calls fail: what loses the marker is a failed
\* commit or a failed restore, never a failed backup, a failed marker write
\* or delete, or a crash alone.
LostOnlyByFailure == failed \subseteq {"snapshot", "marker"} => PointedIsMarked

\* With no marker on disk and no instance at work the host resolves exactly
\* through what it did before squawk ever ran ("finding no marker is always
\* correct"), however many crashes, restarts, backend switches and failed
\* backups came between.
UntouchedWithoutMarker ==
    /\ failed \subseteq {"snapshot"}
    /\ marker.st # "valid" /\ pc \in {"down", "ready"}
    => ServersIn(live) = ServersIn(origin) /\ overridden = {}

\* What restoring would write, the byte copy or else the marker's list, names
\* the original servers at every moment a crash may force us to use it: the
\* second of two applies never records our own server as the undo point.
UndoIsOriginal ==
    /\ failed \subseteq {"snapshot"}
    /\ marker.st = "valid" /\ marker.backend = "resolv_conf"
    => ServersIn(IF backup = "absent" THEN Rewritten(marker.prev) ELSE backup)
          = ServersIn(origin)

\* A start that reports the servers applied has them applied on every link,
\* or in the file, whatever failed in earlier lives.
AppliedMeansPointed ==
    pc = "running" /\ mem.st = "valid" =>
        IF mem.backend = "resolved" THEN overridden = Links ELSE live = "managed"

\* Unless crashes never end or a commit or a restore fails, a host left
\* pointed at us with no instance there gets its own servers back from a
\* later launch.
CrashIsRecovered ==
    \/ []<><<Crash>>_vars
    \/ <>(failed \cap {"commit", "restore"} # {})
    \/ (pc = "down" /\ Pointed) ~> ~Pointed

=============================================================================
