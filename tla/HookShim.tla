----------------------------- MODULE HookShim -----------------------------
(***************************************************************************)
(* waddleai's hook shim in a user's own configuration file (hooks/): the   *)
(* install backs the file up once and merges an entry, the uninstall puts  *)
(* the backed up bytes back.  Every write is atomic (fsutil.rs), but an    *)
(* operation is several, nothing excludes another one or the user, and a   *)
(* failure or a crash may end it after any of them.                        *)
(***************************************************************************)
EXTENDS Integers

CONSTANTS
    Hands,      \* concurrent installs and uninstalls
    MaxEdits    \* bound: edits by the user

ASSUME HookAssumption == MaxEdits \in Nat

\* A file: absent, a JSON object, or not one; the user's edits in it; our entries.
Absent == [kind |-> "absent", edit |-> 0, hooks |-> 0]
Files == [kind : {"absent", "json", "bad"}, edit : 0..MaxEdits, hooks : 0..2]
NoFile == [kind |-> "none", edit |-> 0, hooks |-> 0]
NoMeta == "none"

VARIABLES
    hkFile,    \* the configuration file
    hkOrig,    \* <ecosystem>.orig: a file, or none
    hkMeta,    \* <ecosystem>.meta.json: none, or that the file existed or was absent
    hkHand,    \* per operation: the step it is at and the bytes it has read
    hkEdits,   \* edits so far
    hkBefore,  \* history: the file as it was before our entry went in
    hkExcuse   \* history: what has happened since the backup was taken
hookVars == <<hkFile, hkOrig, hkMeta, hkHand, hkEdits, hkBefore, hkExcuse>>

NoHand == [at |-> "idle", bytes |-> Absent]

HookInit ==
    /\ hkFile \in {Absent, [kind |-> "json", edit |-> 0, hooks |-> 0], [kind |-> "bad", edit |-> 0, hooks |-> 0]}
    /\ hkOrig = NoFile /\ hkMeta = NoMeta
    /\ hkHand = [h \in Hands |-> NoHand]
    /\ hkEdits = 0 /\ hkBefore = hkFile /\ hkExcuse = {}

HandAt(h, p) == hkHand[h].at = p
HandTo(h, p) == hkHand' = [hkHand EXCEPT ![h].at = p]
HandRead(h, p, b) == hkHand' = [hkHand EXCEPT ![h] = [at |-> p, bytes |-> b]]
HandDone(h) == hkHand' = [hkHand EXCEPT ![h] = NoHand]
Alone(h) == \A g \in Hands \ {h} : hkHand[g] = NoHand
\* A history of what could explain a file that is not as it should be.
Noted(h) == IF Alone(h) THEN hkExcuse ELSE hkExcuse \cup {"overlap"}

\* hooks::status, and what hooks list and status report: a shim is installed if
\* it has a backup.
ShimInstalled == hkMeta # NoMeta

\* install: a backup that exists is kept; else one is taken.
InstallChecks(h) ==
    /\ HandTo(h, IF ShimInstalled THEN "read" ELSE "snapshot")
    /\ hkExcuse' = IF ~ShimInstalled /\ hkFile.hooks = 0 /\ Alone(h) THEN {} ELSE Noted(h)
    /\ UNCHANGED <<hkFile, hkOrig, hkMeta, hkEdits, hkBefore>>

\* waddleai hooks install; nothing is locked.
HooksInstall(h) == HandAt(h, "idle") /\ InstallChecks(h)

\* The bytes are written before the manifest, whose presence says there is a backup.
SnapshotOrder(p) == CASE p = "snapshot" -> "orig" [] p = "orig" -> "meta" [] OTHER -> "read"

SnapshotReads(h) ==
    /\ HandAt(h, "snapshot")
    /\ HandRead(h, SnapshotOrder("snapshot"), hkFile)
    /\ UNCHANGED <<hkFile, hkOrig, hkMeta, hkEdits, hkBefore, hkExcuse>>

\* There are no bytes to write of a file that is absent.
SnapshotWritesOrig(h) ==
    /\ HandAt(h, "orig")
    /\ hkOrig' = IF hkHand[h].bytes = Absent THEN hkOrig ELSE hkHand[h].bytes
    /\ HandTo(h, SnapshotOrder("orig"))
    /\ UNCHANGED <<hkFile, hkMeta, hkEdits, hkBefore, hkExcuse>>

SnapshotWritesMeta(h) ==
    /\ HandAt(h, "meta")
    /\ hkMeta' = IF hkHand[h].bytes = Absent THEN "absent" ELSE "existed"
    /\ HandTo(h, SnapshotOrder("meta"))
    /\ UNCHANGED <<hkFile, hkOrig, hkEdits, hkBefore, hkExcuse>>

\* merge of every ecosystem: our old entries go, one is added, the rest stays.
Merged(f) == [kind |-> "json", edit |-> f.edit, hooks |-> 1]

\* read_document refuses what is not a JSON object; the backup stays.
ReadRefused(h) ==
    /\ HandAt(h, "read") /\ hkFile.kind = "bad"
    /\ HandDone(h) /\ hkExcuse' = hkExcuse \cup {"refused"}
    /\ UNCHANGED <<hkFile, hkOrig, hkMeta, hkEdits, hkBefore>>

ReadMerges(h) ==
    /\ HandAt(h, "read") /\ hkFile.kind # "bad"
    /\ HandRead(h, "write", Merged(hkFile))
    /\ UNCHANGED <<hkFile, hkOrig, hkMeta, hkEdits, hkBefore, hkExcuse>>

WriteDocument(h) ==
    /\ HandAt(h, "write")
    /\ hkFile' = hkHand[h].bytes
    /\ hkBefore' = IF hkFile.hooks = 0 THEN hkFile ELSE hkBefore
    /\ HandDone(h)
    /\ UNCHANGED <<hkOrig, hkMeta, hkEdits, hkExcuse>>

\* Mutant: the restore writes the file as it is now, without our entry.
BackedUpNow == [hkFile EXCEPT !.hooks = 0]
\* backup::load: the bytes, or that there was no file.
BackedUp == IF hkMeta = "existed" THEN hkOrig ELSE Absent

\* uninstall: refused without a backup, or if its bytes cannot be read.
UninstallLoads(h) ==
    /\ ShimInstalled
    /\ IF hkMeta = "existed" /\ hkOrig = NoFile THEN hkHand' = hkHand ELSE HandRead(h, "restore", BackedUp)
    /\ hkExcuse' = Noted(h)
    /\ UNCHANGED <<hkFile, hkOrig, hkMeta, hkEdits, hkBefore>>

\* waddleai hooks uninstall.
HooksUninstall(h) == HandAt(h, "idle") /\ UninstallLoads(h)

Restore(h) ==
    /\ HandAt(h, "restore")
    /\ hkFile' = hkHand[h].bytes /\ HandTo(h, "clearMeta")
    /\ UNCHANGED <<hkOrig, hkMeta, hkEdits, hkBefore, hkExcuse>>

BackupCleared == NoMeta

\* backup::clear, the manifest first.
ClearMeta(h) ==
    /\ HandAt(h, "clearMeta")
    /\ hkMeta' = BackupCleared /\ HandTo(h, "clearOrig")
    /\ UNCHANGED <<hkFile, hkOrig, hkEdits, hkBefore, hkExcuse>>

ClearOrig(h) ==
    /\ HandAt(h, "clearOrig")
    /\ hkOrig' = NoFile /\ HandDone(h)
    /\ UNCHANGED <<hkFile, hkMeta, hkEdits, hkBefore, hkExcuse>>

\* A write fails, or the daemon dies: what was written stays.
CutShort(h) ==
    /\ ~HandAt(h, "idle")
    /\ HandDone(h) /\ hkExcuse' = hkExcuse \cup {"interrupted"}
    /\ UNCHANGED <<hkFile, hkOrig, hkMeta, hkEdits, hkBefore>>

\* The user edits the file, removes it, or makes it something that is not JSON.
UserEdits(kind) ==
    /\ hkEdits < MaxEdits /\ hkEdits' = hkEdits + 1
    /\ hkFile' = IF kind = "absent" THEN Absent
                 ELSE [kind |-> kind, edit |-> hkEdits + 1, hooks |-> IF kind = "json" THEN hkFile.hooks ELSE 0]
    /\ hkExcuse' = hkExcuse \cup (IF hkFile'.hooks # hkFile.hooks THEN {"removed"} ELSE {})
                            \cup (IF \E h \in Hands : ~HandAt(h, "idle") THEN {"overlap"} ELSE {})
    /\ UNCHANGED <<hkOrig, hkMeta, hkHand, hkBefore>>

HandStep(h) ==
    \/ HooksInstall(h) \/ SnapshotReads(h) \/ SnapshotWritesOrig(h) \/ SnapshotWritesMeta(h)
    \/ ReadRefused(h) \/ ReadMerges(h) \/ WriteDocument(h)
    \/ HooksUninstall(h) \/ Restore(h) \/ ClearMeta(h) \/ ClearOrig(h) \/ CutShort(h)

HookNext == (\E h \in Hands : HandStep(h)) \/ (\E kind \in {"absent", "json", "bad"} : UserEdits(kind))

HookSpec == HookInit /\ [][HookNext]_hookVars

----------------------------------------------------------------------------
\* Types; in particular our entry is in the file at most once, however installs,
\* uninstalls and edits interleave (the promise of Shim::merge).
HookTypeOK ==
    /\ hkFile \in [kind : {"absent", "json", "bad"}, edit : 0..MaxEdits, hooks : 0..1]
    /\ hkOrig \in Files \cup {NoFile} /\ hkMeta \in {NoMeta, "existed", "absent"}

\* uninstall restores the exact bytes from before the install, unless something
\* had overtaken or interrupted the one or the other since the backup was taken.
RestoresExactly ==
    [][\A h \in Hands : HandAt(h, "restore") /\ hkHand'[h].at = "clearMeta" /\ hkExcuse = {}
         => hkFile' = hkBefore]_hookVars

\* A manifest never points at bytes that were not saved, whatever write of an
\* install or an uninstall was the last before a crash.
ManifestHasBytes == hkMeta = "existed" /\ "overlap" \notin hkExcuse => hkOrig # NoFile

\* What hooks list says: with nothing under way and nothing cut short, a shim is
\* reported as installed exactly if its entry is in the file.
StatusIsTrue ==
    (\A h \in Hands : HandAt(h, "idle")) /\ hkExcuse = {}
       => (ShimInstalled <=> hkFile.hooks = 1)
=============================================================================
