------------------------------- MODULE Updater -------------------------------
(***************************************************************************)
(* Self-update (penguin-update): the newest release is listed, its archive *)
(* and its signature are downloaded one after the other, and what verifies *)
(* replaces the executable.  Releases change at the publisher in between,  *)
(* and nothing keeps two applies apart (service.rs apply_update).          *)
(***************************************************************************)
EXTENDS Integers, FiniteSetsExt

CONSTANTS
    Appliers,     \* concurrent ApplyUpdate calls
    MaxRelease,   \* bound: versions that are released
    MaxBuilds     \* bound: builds of one version's archive

ASSUME UpdAssumption == MaxRelease \in Nat \ {0} /\ MaxBuilds \in Nat \ {0}

Nightly == MaxRelease + 1        \* a tag that does not parse as semver
Tags == 1..Nightly
Hosts == {"linux", "macos", "windows", "freebsd"}   \* std::env::consts::OS

VARIABLES
    upHost,      \* the operating system we run on
    upKeyed,     \* a verification key is configured (on two of the four hosts)
    upRelease,   \* per tag: its state and the builds of its archive and signature
    upDisk,      \* the executable on disk: version and build
    upRun,       \* the version that is running
    upApply,     \* per apply: its step, the tag listed, and what was downloaded
    upSigned,    \* history: archives the publisher signed
    upWithdrawn, \* history: a release was withdrawn
    upRaced      \* history: two applies overlapped, or a release came out during one
updVars == <<upHost, upKeyed, upRelease, upDisk, upRun, upApply, upSigned, upWithdrawn, upRaced>>

NoRelease == [state |-> "none", archive |-> 0, sig |-> 0]
NoApply == [at |-> "idle", tag |-> 0, archive |-> 0, sig |-> 0]

UpdInit ==
    /\ upHost \in Hosts /\ upKeyed = (upHost \in {"macos", "freebsd"})
    /\ upRelease = [t \in Tags |-> NoRelease]
    /\ upDisk = [ver |-> 0, build |-> 0] /\ upRun = 0
    /\ upApply = [a \in Appliers |-> NoApply]
    /\ upSigned = {<<0, 0>>} /\ upWithdrawn = FALSE /\ upRaced = FALSE

NotApplying(a) == upApply[a].at = "idle"
\* What the publisher changes while an apply is under way may show in it.
Race == upRaced' = (upRaced \/ \E a \in Appliers : ~NotApplying(a))

----------------------------------------------------------------------------
\* The publisher: a draft, which comes out, is given its archive and then its
\* signature; a build may be replaced (archive first) and a release withdrawn.
Release(t, r) ==
    /\ upRelease' = [upRelease EXCEPT ![t] = r]
    /\ Race /\ UNCHANGED <<upHost, upKeyed, upDisk, upRun, upApply>>

PublishDraft(t) ==
    /\ upRelease[t].state = "none" /\ (t \in 2..MaxRelease => upRelease[t - 1].state # "none")
    /\ Release(t, [upRelease[t] EXCEPT !.state = IF t = Nightly THEN "out" ELSE "draft"])
    /\ UNCHANGED <<upSigned, upWithdrawn>>

UploadArchive(t) ==
    /\ upRelease[t].state = "out" /\ t # Nightly /\ upRelease[t].archive < MaxBuilds
    /\ Release(t, [upRelease[t] EXCEPT !.archive = @ + 1])
    /\ UNCHANGED <<upSigned, upWithdrawn>>

UploadSignature(t) ==
    /\ upRelease[t].state = "out" /\ upRelease[t].sig < upRelease[t].archive
    /\ Release(t, [upRelease[t] EXCEPT !.sig = @ + 1])
    /\ upSigned' = upSigned \cup {<<t, upRelease[t].sig + 1>>} /\ UNCHANGED upWithdrawn

Publish(t) ==
    /\ upRelease[t].state = "draft"
    /\ Release(t, [upRelease[t] EXCEPT !.state = "out"])
    /\ UNCHANGED <<upSigned, upWithdrawn>>

Withdraw(t) ==
    /\ upRelease[t].state = "out" /\ t # Nightly
    /\ Release(t, [NoRelease EXCEPT !.state = "gone"])
    /\ upWithdrawn' = TRUE /\ UNCHANGED upSigned

PublisherStep(t) == PublishDraft(t) \/ UploadArchive(t) \/ UploadSignature(t) \/ Publish(t) \/ Withdraw(t)

----------------------------------------------------------------------------
\* goreleaser's name_template (external): what the archive of an OS is called.
PublishedName(os) ==
    CASE os = "linux" -> <<"linux", "tar.gz">> [] os = "macos" -> <<"darwin", "tar.gz">>
      [] os = "windows" -> <<"windows", "zip">> [] OTHER -> <<"none", "none">>

Supported(os) == os # "freebsd"
AssetToken(os) == IF os = "macos" THEN "darwin" ELSE os
ArchiveFormat(os) == IF os = "windows" THEN "zip" ELSE "tar.gz"
AssetFilename(os) == <<AssetToken(os), ArchiveFormat(os)>>

TagParses(t) == t # Nightly
Candidates == {t \in Tags : upRelease[t].state = "out" /\ TagParses(t)}
\* Mutant: the first of the list, whatever its version.
SelectFirst == Min(Candidates)
SelectLatest == Max(Candidates)

\* select_asset: the exact name, then its .minisig sibling.
HasAsset(r) == r.archive # 0 /\ AssetFilename(upHost) = PublishedName(upHost)
Selected(r) == IF ~HasAsset(r) THEN "asset not found" ELSE IF r.sig = 0 THEN "signature not found" ELSE "archive"

----------------------------------------------------------------------------
UpdFixed == UNCHANGED <<upHost, upKeyed, upRelease, upSigned, upWithdrawn>>

Applying(a, x) ==
    /\ upApply' = [upApply EXCEPT ![a] = x]
    /\ UpdFixed /\ UNCHANGED <<upRun>>

\* No key, before any request; or a platform there are no releases for.
Refusal == IF ~upKeyed THEN "no verification key" ELSE IF ~Supported(upHost) THEN "unsupported" ELSE "none"

ApplyUpdate(a) ==
    /\ NotApplying(a)
    /\ Applying(a, IF Refusal # "none" THEN NoApply ELSE [NoApply EXCEPT !.at = "list"])
    /\ Race /\ UNCHANGED upDisk

FetchLatestRelease(a) ==
    /\ upApply[a].at = "list"
    /\ Applying(a, IF Candidates = {} THEN NoApply
                   ELSE LET s == Selected(upRelease[SelectLatest])
                        IN  IF s = "archive" THEN [upApply[a] EXCEPT !.at = s, !.tag = SelectLatest] ELSE NoApply)
    /\ UNCHANGED <<upDisk, upRaced>>

\* The URLs of a release that was withdrawn answer 404.
Downloadable(a) == upRelease[upApply[a].tag].state = "out"

DownloadArchive(a) ==
    /\ upApply[a].at = "archive" /\ Downloadable(a)
    /\ Applying(a, [upApply[a] EXCEPT !.at = "sig", !.archive = upRelease[upApply[a].tag].archive])
    /\ UNCHANGED <<upDisk, upRaced>>

DownloadSignature(a) ==
    /\ upApply[a].at = "sig" /\ Downloadable(a)
    /\ Applying(a, [upApply[a] EXCEPT !.at = "verify", !.sig = upRelease[upApply[a].tag].sig])
    /\ UNCHANGED <<upDisk, upRaced>>

\* A request fails, or takes longer than REQUEST_TIMEOUT.
RequestFails(a) ==
    /\ upApply[a].at \in {"list", "archive", "sig"}
    /\ Applying(a, NoApply)
    /\ UNCHANGED <<upDisk, upRaced>>

\* verify: the signature is of these bytes.
ArchiveVerifies(x) == x.sig = x.archive

\* The archive holds the binary, or extract_binary fails.
VerifyAndExtract(a, whole) ==
    /\ upApply[a].at = "verify"
    /\ Applying(a, IF ~ArchiveVerifies(upApply[a]) \/ ~whole THEN NoApply ELSE [upApply[a] EXCEPT !.at = "install"])
    /\ UNCHANGED <<upDisk, upRaced>>

\* install: staged in a temporary file, then swapped in at once.
Install(a) ==
    /\ upApply[a].at = "install"
    /\ upDisk' = [ver |-> upApply[a].tag, build |-> upApply[a].archive]
    /\ Applying(a, NoApply) /\ UNCHANGED upRaced

InstallFails(a) ==
    /\ upApply[a].at = "install"
    /\ Applying(a, NoApply)
    /\ UNCHANGED <<upDisk, upRaced>>

\* check compares the tag with the version compiled in, for inequality.
Available(latest) == latest # upRun

\* CheckUpdate only reads: the version it offers, 0 if it says there is none.
CheckUpdate == IF Candidates # {} /\ Available(SelectLatest) THEN SelectLatest ELSE 0

\* The daemon is restarted: what is on disk runs.
RunsInstalled ==
    /\ upRun' = upDisk.ver /\ upApply' = [a \in Appliers |-> NoApply]
    /\ UpdFixed /\ UNCHANGED <<upDisk, upRaced>>

ApplyStep(a) ==
    \/ FetchLatestRelease(a) \/ DownloadArchive(a) \/ DownloadSignature(a) \/ RequestFails(a)
    \/ \E whole \in BOOLEAN : VerifyAndExtract(a, whole)
    \/ Install(a) \/ InstallFails(a)

UpdNext ==
    \/ \E t \in Tags : PublisherStep(t)
    \/ \E a \in Appliers : ApplyUpdate(a) \/ ApplyStep(a)
    \/ RunsInstalled

UpdSpec == UpdInit /\ [][UpdNext]_updVars

----------------------------------------------------------------------------
\* Types; what is on disk and what is offered is a version, never another tag.
UpdTypeOK ==
    /\ upDisk \in [ver : 0..MaxRelease, build : 0..MaxBuilds]
    /\ upRun \in 0..MaxRelease /\ CheckUpdate \in 0..MaxRelease
    /\ \A a \in Appliers : upApply[a].at \in {"idle", "list", "archive", "sig", "verify", "install"}

\* The executable on disk is one the publisher signed, whatever was uploaded
\* between the listing and the two downloads.
DiskIsSigned == <<upDisk.ver, upDisk.build>> \in upSigned

\* An apply finds no asset for this platform only if none was uploaded.
NotFoundIsTrue ==
    Supported(upHost) /\ Candidates # {}
       => (Selected(upRelease[SelectLatest]) = "asset not found" => upRelease[SelectLatest].archive = 0)

\* The executable goes back to an older version only if a release was withdrawn,
\* or an apply overlapped with another or with a release.
NoSilentDowngrade == [][upDisk'.ver < upDisk.ver => upWithdrawn \/ upRaced]_updVars

\* An update is offered only for a version that is newer than the one that runs,
\* unless a release was withdrawn or an apply was overtaken.
OfferIsNewer == ~upWithdrawn /\ ~upRaced /\ CheckUpdate # 0 => CheckUpdate > upRun
=============================================================================
