----------------------------- MODULE MCSquawk -----------------------------
(***************************************************************************)
(* The parts of squawk: the system resolver on each platform, the          *)
(* forwarder, its cache and its lookups, the licence check and the time    *)
(* query; and the file it, like every module, is configured from.  They    *)
(* share no variable: a behaviour exercises one of them.                   *)
(***************************************************************************)
EXTENDS SysResolver, PlatformResolver, Forwarder, DohClient, LicenseValidator, NtpClient, ModuleConfig

CONSTANTS eth0, wlan0

VARIABLE part

Parts == {"resolver", "platform", "forwarder", "cache", "doh", "license", "civil", "ntp", "config"}

\* Parts that are not exercised stay in one of their initial states.
MCInit ==
    /\ part \in Parts
    /\ Init /\ (part # "resolver" => live = "orig")
    /\ PlatformInit /\ (part # "platform" => prPresent = {} /\ \A s \in NetServices : prOrigin[s] = "dhcp")
    /\ ForwarderInit /\ (part # "forwarder" => ~fwEphemeral)
    /\ DohInit /\ (part # "doh" => dhDead = {})
    /\ LicenseInit /\ (part # "license" => lvOnline /\ lvCacheTime = 0)
    /\ CivilInit /\ (part # "civil" => cdDay = 0)
    /\ CacheInit /\ NtpInit
    /\ ConfigInit
    /\ part # "config" => cfOwner = "waddleai" /\ cfField = "hooks.claude" /\ cfFile = Blank

\* A step of one part.
InPart(p, A) ==
    /\ part = p /\ A /\ UNCHANGED part
    /\ IF p = "resolver" THEN TRUE ELSE UNCHANGED vars
    /\ IF p = "platform" THEN TRUE ELSE UNCHANGED platformVars
    /\ IF p = "forwarder" THEN TRUE ELSE UNCHANGED forwarderVars
    /\ IF p = "cache" THEN TRUE ELSE UNCHANGED cacheVars
    /\ IF p = "doh" THEN TRUE ELSE UNCHANGED dohVars
    /\ IF p = "license" THEN TRUE ELSE UNCHANGED licenseVars
    /\ IF p = "civil" THEN TRUE ELSE UNCHANGED civilVars
    /\ IF p = "ntp" THEN TRUE ELSE UNCHANGED ntpVars
    /\ IF p = "config" THEN TRUE ELSE UNCHANGED configVars

MCNext ==
    \/ InPart("resolver", Next)
    \/ InPart("platform", PlatformNext)
    \/ InPart("forwarder", ForwarderNext)
    \/ InPart("cache", CacheNext)
    \/ InPart("doh", DohNext)
    \/ InPart("license", LicenseNext)
    \/ InPart("civil", DayPasses)
    \/ InPart("ntp", NtpNext)
    \/ InPart("config", ConfigNext)

MCVars == <<part, vars, platformVars, forwarderVars, cacheVars, dohVars, licenseVars, civilVars, ntpVars, configVars>>

\* Fairness: the runtime polls what is ready, and limits run out.  The parts are
\* never mixed, so the fairness of a step of one of them is the fairness of each.
MCFairness ==
    /\ WF_MCVars(InPart("resolver", Step) \/ InPart("forwarder", SessionLoopEnds))
    /\ \A o \in Operators : WF_MCVars(InPart("forwarder", OperatorStep(o)))
    /\ \A l \in Lookups : WF_MCVars(InPart("doh", LookupProceeds(l)))

MCSpec == MCInit /\ [][MCNext]_MCVars /\ MCFairness

-----------------------------------------------------------------------------
\* The host's own DNS servers are never lost: on Linux only a failed commit or restore
\* leaves the host pointed at squawk without a marker, without a marker nothing was
\* touched, the undo point is the original, and applied means pointed; on macOS and
\* Windows what is managed is marked or was missed.
HostDnsIsKept ==
    /\ TypeOK /\ LostOnlyByFailure /\ UntouchedWithoutMarker /\ UndoIsOriginal /\ AppliedMeansPointed
    /\ PlatformTypeOK /\ ManagedIsMarkedOrMissed

\* The forwarder, its cache and its lookups: running means served, stopped means
\* released, the gauge is wrong only after calls that overlapped; no answer outlives its
\* TTL, eviction order is that of insertion until entries expire, a fresh entry stays
\* while there is room; and a lookup gives up only if every server it reached is dead.
ForwarderIsSound ==
    /\ [](/\ ForwarderTypeOK /\ RunningIsServed /\ StoppedIsReleased /\ GaugeLiesOnlyIfOverlapped
          /\ CacheTypeOK /\ NoStaleAnswer /\ OrderedUntilExpiry
          /\ DohTypeOK /\ GivesUpOnlyIfAllDead)
    /\ FreshStays

\* The licence check and the clock: "valid" rests on a recent answer, the day it is kept
\* by is the calendar's; a time query says whether it succeeded, its offset is the
\* clock's skew, and it fails only after asking every server.
LicenceAndTimeAreTrue ==
    /\ [](LicenseTypeOK /\ DateIsCalendars /\ NtpTypeOK /\ SyncTellsOutcome /\ OffsetIsSkew)
    /\ ValidIsRecent /\ FailureAsksAll

\* Configuration: what passed validation is what a module gets, and it uses the file
\* exactly if it is valid; an unset field has its advertised default; a module is never
\* left half configured.
ConfigIsSound ==
    ConfigTypeOK /\ ValidatedIsAccepted /\ UsedExactlyIfValid /\ UnsetMeansAdvertised /\ NeverHalfConfigured

\* A crash is recovered from at the next launch, a stop of the forwarder ends, and so
\* does every lookup.
SquawkProgresses == CrashIsRecovered /\ ForwarderStopEnds /\ LookupsEnd
=============================================================================
