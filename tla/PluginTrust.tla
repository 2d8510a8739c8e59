---------------------------- MODULE PluginTrust ----------------------------
(***************************************************************************)
(* Loading an external plugin from its directory (PluginDirLoader::load,   *)
(* penguin-extplugin manifest.rs and verify.rs): manifest, ownership, hash *)
(* and signature are read one after the other, and the binary is started   *)
(* last, by its path.  Meanwhile its files may be replaced by an update.   *)
(***************************************************************************)
EXTENDS Integers, Sequences, SequencesExt

CONSTANT MaxVersion  \* bound: versions an update may install

ASSUME TrustAssumption == MaxVersion \in Nat \ {0}

Versions == 1..MaxVersion
NoVersion == 0
\* What the trusted-publishers directory may hold.
KeyFiles == {<<>>, <<"k1">>, <<"bad", "k1">>, <<"k1", "k2">>}

VARIABLES
    ptDir,      \* whether the directory is there, and whether it is fit
    ptManifest, \* plugin.json: the version whose hash it names; 0 is unreadable or incomplete
    ptBinary,   \* the binary: its version, and whether its owner and mode are fit
    ptSig,      \* the signature: the version it is for and the key that made it
    ptKeys,     \* the trusted publishers' key files, in the order they are listed
    ptAt,       \* the step the load is at
    ptRead,     \* what the load has read: the hash it expects, the keys it trusts
    ptRan,      \* the version that was started
    ptTouched   \* history: files were replaced since the load began
trustVars == <<ptDir, ptManifest, ptBinary, ptSig, ptKeys, ptAt, ptRead, ptRan, ptTouched>>
fileVars == <<ptDir, ptManifest, ptBinary, ptSig, ptKeys>>

Signatures == [version : Versions \cup {NoVersion}, key : {"k1", "k2"}]
NothingRead == [hash |-> NoVersion, keys |-> <<>>]

TrustInit ==
    /\ ptDir \in {"absent", "writable", "foreign", "fit"}
    /\ ptManifest \in {NoVersion, 1}
    /\ ptBinary \in [version : {1}, fit : BOOLEAN]
    /\ ptSig \in [version : {NoVersion, 1}, key : {"k1", "k2"}]
    /\ ptKeys \in KeyFiles
    /\ ptAt = "idle" /\ ptRead = NothingRead /\ ptRan = NoVersion /\ ptTouched = FALSE

LoadTo(p) == ptAt' = p
Refuses == ptAt' = "refused" /\ UNCHANGED <<ptRead, ptRan>>
Settled == ptAt \in {"idle", "refused", "running", "unknown"}

\* load: a name without a directory is unknown, not a failure.
LoadBegins ==
    /\ ptAt \in {"idle", "refused", "unknown"}
    /\ LoadTo(IF ptDir = "absent" THEN "unknown" ELSE "manifest")
    /\ ptRead' = NothingRead /\ ptTouched' = FALSE
    /\ UNCHANGED <<ptRan, fileVars>>

\* load_manifest, then a verifier that scans the trusted keys afresh.
ReadsManifest ==
    /\ ptAt = "manifest"
    /\ IF ptManifest = NoVersion THEN Refuses
       ELSE LoadTo("owner") /\ ptRead' = [hash |-> ptManifest, keys |-> ptKeys] /\ UNCHANGED ptRan
    /\ UNCHANGED <<ptTouched, fileVars>>

\* verify_ownership of the directory and of the binary.
ChecksOwner ==
    /\ ptAt = "owner"
    /\ IF ptDir = "fit" /\ ptBinary.fit THEN LoadTo("hash") /\ UNCHANGED <<ptRead, ptRan>> ELSE Refuses
    /\ UNCHANGED <<ptTouched, fileVars>>

HashMatches == ptBinary.version = ptRead.hash

ChecksHash ==
    /\ ptAt = "hash"
    /\ IF HashMatches THEN LoadTo("signature") /\ UNCHANGED <<ptRead, ptRan>> ELSE Refuses
    /\ UNCHANGED <<ptTouched, fileVars>>

\* Every key that decodes is tried.
Tried(keys) == ToSet(keys) \ {"bad"}

\* verify_signature reads the binary again.
Verifies(version) == ptSig.version = version /\ ptSig.key \in Tried(ptRead.keys)

ChecksSignature ==
    /\ ptAt = "signature"
    /\ IF Verifies(ptBinary.version) THEN LoadTo("launch") /\ UNCHANGED <<ptRead, ptRan>> ELSE Refuses
    /\ UNCHANGED <<ptTouched, fileVars>>

\* The process is started from the path.
Launches ==
    /\ ptAt = "launch"
    /\ LoadTo("running") /\ ptRan' = ptBinary.version
    /\ UNCHANGED <<ptRead, ptTouched, fileVars>>

\* An operator or a package replaces the files, in any order.
OneFileChanges ==
    \/ \E v \in Versions : v > ptManifest /\ ptManifest' = v /\ UNCHANGED <<ptDir, ptBinary, ptSig, ptKeys>>
    \/ \E v \in Versions : v > ptBinary.version /\ ptBinary' = [version |-> v, fit |-> TRUE] /\ UNCHANGED <<ptDir, ptManifest, ptSig, ptKeys>>
    \/ \E v \in Versions, k \in {"k1", "k2"} : v > ptSig.version /\ ptSig' = [version |-> v, key |-> k] /\ UNCHANGED <<ptDir, ptManifest, ptBinary, ptKeys>>
    \/ ptDir # "fit" /\ ptDir' = "fit" /\ UNCHANGED <<ptManifest, ptBinary, ptSig, ptKeys>>
    \/ \E keys \in KeyFiles : keys # ptKeys /\ ptKeys' = keys /\ UNCHANGED <<ptDir, ptManifest, ptBinary, ptSig>>

FilesReplaced == OneFileChanges /\ ptAt # "running" /\ ptTouched' = (ptTouched \/ ~Settled) /\ UNCHANGED <<ptAt, ptRead, ptRan>>

TrustNext ==
    \/ LoadBegins \/ ReadsManifest \/ ChecksOwner \/ ChecksHash \/ ChecksSignature \/ Launches \/ FilesReplaced

TrustSpec == TrustInit /\ [][TrustNext]_trustVars

----------------------------------------------------------------------------
\* Types; a load past its manifest trusts only keys that were in the directory.
TrustTypeOK ==
    /\ ptRead.hash \in Versions \cup {NoVersion} /\ ptRead.keys \in KeyFiles \cup {<<>>}
    /\ ptSig \in Signatures /\ ptManifest \in Versions \cup {NoVersion}
    /\ ptAt = "launch" /\ ~ptTouched => ptBinary.version = ptRead.hash

\* What runs is signed by a publisher that was trusted when the load began, unless
\* the files were replaced while it was under way.
RunsWhatIsSigned ==
    ptAt = "running" /\ ~ptTouched => ptSig.version = ptRan /\ ptSig.key \in ToSet(ptRead.keys)

\* A load is refused for a reason: with every file fit and of one version, signed
\* by a trusted publisher, and nothing replaced meanwhile, it goes through.
RefusedForAReason ==
    [][ptAt' = "refused" /\ ptAt # "refused" /\ ~ptTouched
         => ~(/\ ptDir = "fit" /\ ptBinary.fit
              /\ ptManifest = ptBinary.version /\ ptSig.version = ptBinary.version
              /\ ptSig.key \in ToSet(ptKeys))]_trustVars
=============================================================================
