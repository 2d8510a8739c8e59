-------------------------- MODULE LicenseValidator --------------------------
(***************************************************************************)
(* squawk's licence check (squawk-client license.rs): is_valid over an     *)
(* answer cached for the day, for cache_time when not online, and as a     *)
(* fallback when the server cannot be reached.  Time is in half days of    *)
(* the host's clock, which may be set back.  The day of an answer is a     *)
(* date (today_string, civil_from_days), which the second half compares    *)
(* with the calendar, day after day.                                       *)
(***************************************************************************)
EXTENDS Integers

CONSTANTS
    MaxTime,    \* bound: half days
    DaysWalked  \* bound: days from each start

ASSUME LicenseAssumption == MaxTime \in Nat /\ DaysWalked \in Nat

FallbackFreshness == 2  \* 24 hours

VARIABLES
    lvNow,      \* the clock
    lvCache,    \* the entry of the cache: valid and validated_at; at -1 there is none
    lvToday,    \* validated_today, -1 if none
    lvCall,     \* is_valid: its step, and what it returned last
    lvOnline,   \* validate_online
    lvCacheTime \* cache_time
licenseVars == <<lvNow, lvCache, lvToday, lvCall, lvOnline, lvCacheTime>>

NoEntry == [valid |-> FALSE, at |-> -1]

LicenseInit ==
    /\ lvNow = 0 /\ lvCache = NoEntry /\ lvToday = -1 /\ lvCall = [at |-> "idle", said |-> "none"]
    /\ lvOnline \in BOOLEAN /\ lvCacheTime \in {0, 1, 3}

Day(t) == t \div 2
Cached == lvCache.at # -1
Says(valid) == IF valid THEN "valid" ELSE "invalid"
Returns(said) == lvCall' = [at |-> "idle", said |-> said]

\* today_cached_result.
ValidatedToday == lvToday = Day(lvNow) /\ Cached

\* fresh_offline_result: an entry from the future is not fresh.
FreshOffline == ~lvOnline /\ Cached /\ lvNow >= lvCache.at /\ lvNow - lvCache.at < lvCacheTime

\* Mutant: any entry of the fallback's age will do.
RecentValidCacheAny == Cached /\ lvNow - lvCache.at < FallbackFreshness
\* has_recent_valid_cache: an entry from the future is recent.
RecentValidCache ==
    Cached /\ lvCache.valid /\ (lvNow - lvCache.at < FallbackFreshness \/ lvNow < lvCache.at + lvCacheTime)

\* is_valid: today's answer, or an entry that will do when not online ...
AnsweredFromCache ==
    /\ lvCall.at = "idle" /\ (ValidatedToday \/ FreshOffline)
    /\ Returns(Says(lvCache.valid))
    /\ UNCHANGED <<lvNow, lvCache, lvToday, lvOnline, lvCacheTime>>

\* ... or the server's: a token's check or a key's, as configured.
AskServer ==
    /\ lvCall.at = "idle" /\ ~ValidatedToday /\ ~FreshOffline
    /\ lvCall' = [lvCall EXCEPT !.at = "asking"]
    /\ UNCHANGED <<lvNow, lvCache, lvToday, lvOnline, lvCacheTime>>

\* cache_validation: as of now.
DayOfAnswer == Day(lvNow)

\* A body that can be decoded is an answer, whatever the status.
ServerAnswers(valid) ==
    /\ lvCall.at = "asking" /\ Returns(Says(valid))
    /\ lvCache' = [valid |-> valid, at |-> lvNow] /\ lvToday' = DayOfAnswer
    /\ UNCHANGED <<lvNow, lvOnline, lvCacheTime>>

\* The server cannot be reached, or its body not be decoded.
ServerFails ==
    /\ lvCall.at = "asking" /\ Returns(IF RecentValidCache THEN "valid" ELSE "error")
    /\ UNCHANGED <<lvNow, lvCache, lvToday, lvOnline, lvCacheTime>>

ClearCache ==
    /\ lvCache' = NoEntry /\ lvToday' = -1
    /\ UNCHANGED <<lvNow, lvCall, lvOnline, lvCacheTime>>

ClockMoves(t) ==
    /\ lvNow' = t /\ lvCall' = [lvCall EXCEPT !.said = "none"]
    /\ UNCHANGED <<lvCache, lvToday, lvOnline, lvCacheTime>>

LicenseNext ==
    \/ AnsweredFromCache \/ AskServer \/ ServerFails \/ ClearCache
    \/ \E valid \in BOOLEAN : ServerAnswers(valid)
    \/ \E t \in {lvNow - 1, lvNow + 1} \cap 0..MaxTime : ClockMoves(t)

LicenseSpec == LicenseInit /\ [][LicenseNext]_licenseVars

----------------------------------------------------------------------------
\* The date of a day since 1970.

VARIABLES cdDay, cdDate, cdStart
civilVars == <<cdDay, cdDate, cdStart>>

YearOfEra(doe) == (doe - doe \div 1460 + doe \div 36524 - doe \div 146096) \div 365

\* <<year, month, day>>, counted in years that begin in March of eras of 400 years.
CivilFromDays(days) ==
    LET z == days + 719468
        era == z \div 146097
        doe == z - era * 146097
        yoe == YearOfEra(doe)
        doy == doe - (365 * yoe + yoe \div 4 - yoe \div 100)
        mp == (5 * doy + 2) \div 153
        month == IF mp < 10 THEN mp + 3 ELSE mp - 9
    IN <<yoe + era * 400 + (IF month <= 2 THEN 1 ELSE 0), month, doy - (153 * mp + 2) \div 5 + 1>>

\* The calendar.
IsLeap(y) == y % 4 = 0 /\ (y % 100 # 0 \/ y % 400 = 0)
DaysIn(y, m) == CASE m = 2 -> IF IsLeap(y) THEN 29 ELSE 28 [] m \in {4, 6, 9, 11} -> 30 [] OTHER -> 31
Following(d) ==
    IF d[3] < DaysIn(d[1], d[2]) THEN <<d[1], d[2], d[3] + 1>>
    ELSE IF d[2] < 12 THEN <<d[1], d[2] + 1, 1>> ELSE <<d[1] + 1, 1, 1>>

\* The epoch, and a December before a February of every kind: common, leap, of a
\* century, of a fourth century.
Starts == {<<0, <<1970, 1, 1>>>>, <<10926, <<1999, 12, 1>>>>, <<47451, <<2099, 12, 1>>>>, <<19692, <<2023, 12, 1>>>>}

CivilInit == \E s \in Starts : cdStart = s[1] /\ cdDay = s[1] /\ cdDate = s[2]

DayPasses ==
    /\ cdDay < cdStart + DaysWalked
    /\ cdDay' = cdDay + 1 /\ cdDate' = Following(cdDate) /\ UNCHANGED cdStart

----------------------------------------------------------------------------
\* Types; and what was validated today is cached, of this day.
LicenseTypeOK ==
    /\ lvNow \in 0..MaxTime /\ lvCache.at \in -1..MaxTime /\ lvToday \in -1..Day(MaxTime)
    /\ lvToday # -1 => Cached /\ Day(lvCache.at) = lvToday

\* "valid" rests on the server's last answer, which was that, and which is of this
\* day, or less than 24 hours or cache_time old: never on an older or a withdrawn one.
ValidIsRecent ==
    [][lvCall'.at = "idle" /\ lvCall'.said = "valid" /\ lvCall # lvCall' =>
         /\ lvCache'.valid
         /\ \/ Day(lvCache'.at) = Day(lvNow)
            \/ lvNow - lvCache'.at < FallbackFreshness \/ lvNow - lvCache'.at < lvCacheTime]_licenseVars

\* The date computed from the day is the calendar's, across every kind of leap year.
DateIsCalendars == CivilFromDays(cdDay) = cdDate
=============================================================================
