--------------------------- MODULE DesktopSession ---------------------------
(***************************************************************************)
(* The desktop's session (penguin-desktop-core lib.rs, token_store.rs,     *)
(* oauth.rs): a password login or an OAuth callback stores the tokens in   *)
(* the keychain, key by key, and primes penguind with them; the shell      *)
(* resumes from the keychain when it starts again.  Every operation holds  *)
(* the session's mutex, so a crash of the shell is what can separate the   *)
(* steps of one; a keychain call may also fail by itself.                  *)
(***************************************************************************)
EXTENDS Integers, FiniteSets

CONSTANTS
    Hubs,      \* hub URLs; NoValue is an absent keychain entry or session
    NoValue,
    MaxTokens  \* bound: token pairs the hubs issue

\* A token pair is known by the hub that issued it and a serial number.
Tokens == [hub : Hubs, n : 1..MaxTokens]

ASSUME SessionAssumption == NoValue \notin Hubs \cup Tokens /\ MaxTokens \in Nat

VARIABLES
    kc,      \* the three keychain entries
    primed,  \* penguind's UserSession: the tokens and the hub URL sent with them
    oauth,   \* the state parameters handed out and not used, with their hub
    writing, \* what is left of a TokenStore::store in progress
    issued,  \* serial numbers used
    answer,  \* what the last login was answered, before any keychain call
    machine, \* the machine id in the secret store, and the last one registered
    excuse   \* ghost: a keychain call failed, the shell crashed, or OAuth was
             \* completed for another hub than the stored one, or a login
             \* given another hub than penguind's
sessVars == <<kc, primed, oauth, writing, issued, answer, machine, excuse>>

None == [step |-> "none"]

SessInit ==
    /\ kc = [access |-> NoValue, refresh |-> NoValue, hub |-> NoValue]
    /\ primed = NoValue
    /\ oauth = {}
    /\ writing = None
    /\ issued = 0
    /\ answer = "none"
    /\ machine = [stored |-> 0, used |-> 0]
    /\ excuse = FALSE

\* Mutant: a session without a refresh token leaves the old one in place.
StoreKeyNoDelete(w) ==
    CASE w.step = "access"  -> [kc EXCEPT !.access = w.tok]
      [] w.step = "refresh" -> IF w.refresh THEN [kc EXCEPT !.refresh = w.tok] ELSE kc
      [] w.step = "hub"     -> [kc EXCEPT !.hub = w.hub]

\* The three entries TokenStore::store writes, one after the other.
StoreKey(w) ==
    CASE w.step = "access"  -> [kc EXCEPT !.access = w.tok]
      [] w.step = "refresh" -> [kc EXCEPT !.refresh = IF w.refresh THEN w.tok ELSE NoValue]
      [] w.step = "hub"     -> [kc EXCEPT !.hub = w.hub]

After(step) ==
    CASE step = "access" -> "refresh" [] step = "refresh" -> "hub" [] step = "hub" -> "prime"

\* login posts the credentials through penguind's proxy, which forwards only
\* for a session and only to that session's hub.  The hub accepts them and
\* issues a pair, with or without a refresh token; the pair is stored under
\* the hub URL the user gave.
Login(h, refresh) ==
    /\ writing = None /\ primed # NoValue /\ issued < MaxTokens
    /\ issued' = issued + 1
    /\ answer' = "accepted"
    /\ writing' = [step |-> "access", tok |-> [hub |-> primed.hub, n |-> issued + 1],
                   refresh |-> refresh, hub |-> h]
    /\ excuse' = (excuse \/ h # primed.hub)
    /\ UNCHANGED <<kc, primed, oauth, machine>>

\* The same credentials without a session in penguind: FAILED_PRECONDITION.
LoginUnprimed ==
    /\ writing = None /\ primed = NoValue
    /\ answer' = "no session"
    /\ UNCHANGED <<kc, primed, oauth, writing, issued, machine, excuse>>

\* Another client of the socket calls SetUserSession: the shell itself only
\* does so after a login.
OtherClientPrimes(h) ==
    /\ issued < MaxTokens
    /\ issued' = issued + 1
    /\ primed' = [tok |-> [hub |-> h, n |-> issued + 1], hub |-> h]
    /\ UNCHANGED <<kc, oauth, writing, answer, machine, excuse>>

\* oauth_start: a fresh state parameter for the browser's round trip.
OauthStart(h) ==
    /\ writing = None
    /\ oauth' = oauth \cup {h}
    /\ UNCHANGED <<answer, kc, primed, writing, issued, machine, excuse>>

\* TokenStore::load, which finds a session only with both the access token and
\* the hub URL.
Loadable == kc.access # NoValue /\ kc.hub # NoValue

\* complete_oauth: the state matches one handed out and the JWT has an access
\* token.
CallbackAccepted(h) == h \in oauth

\* oauth_complete: the tokens are those of the hub the flow was started with,
\* the hub URL is the stored one.
OauthComplete(h, refresh) ==
    /\ writing = None /\ issued < MaxTokens
    /\ CallbackAccepted(h) /\ Loadable
    /\ oauth' = oauth \ {h}
    /\ issued' = issued + 1
    /\ writing' = [step |-> "access", tok |-> [hub |-> h, n |-> issued + 1],
                   refresh |-> refresh, hub |-> kc.hub]
    /\ excuse' = (excuse \/ h # kc.hub)
    /\ UNCHANGED <<answer, kc, primed, machine>>

\* TokenStore::store: the next entry is written, or the call fails and store
\* returns there.  A failed delete of the refresh token is ignored.
StoreStep ==
    /\ writing.step \in {"access", "refresh", "hub"}
    /\ \/ /\ kc' = StoreKey(writing)
          /\ writing' = [writing EXCEPT !.step = After(@)]
          /\ UNCHANGED excuse
       \/ /\ writing' = IF writing.step = "refresh" /\ ~writing.refresh
                        THEN [writing EXCEPT !.step = "hub"] ELSE None
          /\ excuse' = TRUE
          /\ UNCHANGED kc
    /\ UNCHANGED <<answer, primed, oauth, issued, machine>>

\* set_user_session: penguind takes the tokens, or the call fails and the
\* operation returns an error with the keychain already written.
Prime ==
    /\ writing.step = "prime"
    /\ \/ primed' = [tok |-> writing.tok, hub |-> writing.hub]
       \/ UNCHANGED primed
    /\ writing' = None
    /\ UNCHANGED <<answer, kc, oauth, issued, machine, excuse>>

\* TokenStore::clear: each entry is deleted, and a failure ignored.
Cleared(gone) == [k \in DOMAIN kc |-> IF k \in gone THEN NoValue ELSE kc[k]]

\* logout: the keychain is cleared; penguind keeps its session.
Logout ==
    /\ writing = None
    /\ \E gone \in SUBSET DOMAIN kc :
          /\ kc' = Cleared(gone)
          /\ excuse' = (excuse \/ gone # DOMAIN kc)
    /\ UNCHANGED <<answer, primed, oauth, writing, issued, machine>>

\* MachineId::load_or_create: the stored id; or, when the read fails for
\* whatever reason, a new one that is stored first.
MachineIds ==
    {i \in {machine.stored, machine.stored + 1} : i \in 1..2}

\* TokenStore::has_session looks at the access token alone.
HasSession == kc.access # NoValue

\* A login, or main's setup hook when it finds a session, starts a poll loop.
Spawn ==
    /\ writing = None /\ HasSession
    /\ \E id \in MachineIds : machine' = [stored |-> id, used |-> id]
    /\ UNCHANGED <<answer, kc, primed, oauth, writing, issued, excuse>>

\* The shell dies and is started again: what is left is the keychain, the
\* secret store and penguind, which is not primed again from the keychain.
ShellCrash ==
    /\ writing' = None /\ oauth' = {}
    /\ excuse' = (excuse \/ writing # None)
    /\ UNCHANGED <<answer, kc, primed, issued, machine>>

\* penguind restarts and has no session until the next login.
DaemonRestart ==
    /\ primed' = NoValue
    /\ UNCHANGED <<answer, kc, oauth, writing, issued, machine, excuse>>

SessNext ==
    \/ \E h \in Hubs, refresh \in BOOLEAN : Login(h, refresh) \/ OauthComplete(h, refresh)
    \/ \E h \in Hubs : OauthStart(h) \/ OtherClientPrimes(h)
    \/ LoginUnprimed
    \/ StoreStep \/ Prime \/ Logout \/ Spawn \/ ShellCrash \/ DaemonRestart

SessSpec == SessInit /\ [][SessNext]_sessVars

-----------------------------------------------------------------------------
SessTypeOK ==
    /\ kc.access \in Tokens \cup {NoValue} /\ kc.refresh \in Tokens \cup {NoValue}
    /\ kc.hub \in Hubs \cup {NoValue}
    /\ primed = NoValue \/ primed \in [tok : Tokens, hub : Hubs]
    /\ oauth \subseteq Hubs /\ issued \in 0..MaxTokens
    /\ writing = None \/ writing \in [step : {"access", "refresh", "hub", "prime"},
                                      tok : Tokens, refresh : BOOLEAN, hub : Hubs]
    /\ answer \in {"none", "accepted", "no session"}
    /\ machine \in [stored : 0..2, used : 0..2] /\ excuse \in BOOLEAN

\* Between operations the keychain is empty or holds one session: both tokens
\* are of one pair and of the hub stored beside them.  Only a keychain call
\* that failed, a crash inside store, or a login or OAuth flow for another hub
\* than the one in use leaves entries of two sessions, or some of one.
OneSessionStored ==
    writing = None /\ ~excuse =>
        \/ \A k \in DOMAIN kc : kc[k] = NoValue
        \/ /\ kc.access # NoValue /\ kc.hub = kc.access.hub
           /\ kc.refresh \in {kc.access, NoValue}

\* penguind acts only for a session that was stored whole: the pair it was
\* given is no newer than the one in the keychain, and while that one is
\* still there it is not accompanied by the refresh token of another.
PrimedWasStored ==
    primed # NoValue /\ kc.access = primed.tok /\ writing = None /\ ~excuse =>
        kc.hub = primed.hub /\ kc.refresh \in {primed.tok, NoValue}
=============================================================================
