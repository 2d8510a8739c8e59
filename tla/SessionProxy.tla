---------------------------- MODULE SessionProxy ----------------------------
(***************************************************************************)
(* The user session penguind keeps for the desktop: the two RPCs of        *)
(* SessionProxyService (service.rs, supervisor.rs) and the SessionProxy of *)
(* the waddlebot module behind them (session_proxy.rs).  Every RPC runs on *)
(* its own task and no lock is held across a hub call, so calls interleave *)
(* at each lock of the credentials.  A load of the module puts a new, empty *)
(* proxy in the registry while calls may still hold the old one.           *)
(***************************************************************************)
EXTENDS Integers, FiniteSets

CONSTANTS
    Users,       \* users, each of a hub of their own
    Refreshable, \* the users whose login came with a refresh token
    Calls,       \* RPCs the desktop makes
    NoCreds,     \* no session is stored
    MaxProxies   \* bound: times the module is initialised

\* An access token: whose it is, and how it was obtained.
AccessTokens == [user : Users, by : {"login", "refresh"}]
Credentials == [user : Users, tok : AccessTokens]

ASSUME ProxyAssumption ==
    Refreshable \subseteq Users /\ MaxProxies \in Nat /\ NoCreds \notin Credentials \cup AccessTokens

VARIABLES
    spCreds,    \* per proxy: the stored session, or NoCreds
    spRotated,  \* per proxy: has_rotated
    spRegistry, \* the proxy the registry holds; 0 before the first init
    spLoaded,   \* the supervisor has the module in its table
    spCall,     \* per RPC: where it is and what it holds
    spRaced     \* ghost, per proxy: a session was set while a refresh was on its way
proxyVars == <<spCreds, spRotated, spRegistry, spLoaded, spCall, spRaced>>

Proxies == 1..MaxProxies
\* A call's locals: the requests it has sent, its proxy, its credentials, the new token.
NewCall(pc, creds) == [pc |-> pc, sends |-> 0, proxy |-> 0, creds |-> creds, new |-> NoCreds]
Idle == NewCall("idle", NoCreds)

ProxyInit ==
    /\ spCreds = [p \in Proxies |-> NoCreds]
    /\ spRotated = [p \in Proxies |-> FALSE]
    /\ spRegistry = 0
    /\ spLoaded = FALSE
    /\ spCall = [c \in Calls |-> Idle]
    /\ spRaced = [p \in Proxies |-> FALSE]

Answer(c) == spCall' = [spCall EXCEPT ![c] = Idle]  \* the caller has its answer
Goto(c, pc) == spCall' = [spCall EXCEPT ![c] = [@ EXCEPT !.pc = pc]]

\* Module init: a new SessionProxy replaces the registry's.
ModuleInit ==
    /\ ~spLoaded /\ spRegistry < MaxProxies
    /\ spRegistry' = spRegistry + 1
    /\ spLoaded' = TRUE
    /\ UNCHANGED <<spCreds, spRotated, spCall, spRaced>>

\* Unload leaves the proxy, and the session in it, in the registry.
ModuleUnload ==
    /\ spLoaded
    /\ spLoaded' = FALSE
    /\ UNCHANGED <<spCreds, spRotated, spRegistry, spCall, spRaced>>

\* The header of both RPCs: the API version (a wrong one is
\* answered at once, like a module that is not loaded), then the supervisor's table.
Receive(c, pc, creds) ==
    /\ spCall[c] = Idle
    /\ \/ ~spLoaded /\ Answer(c)
       \/ /\ spLoaded
          /\ spCall' = [spCall EXCEPT ![c] = NewCall(pc, creds)]

ProxyRequest(c) ==
    /\ Receive(c, "lookup", NoCreds)
    /\ UNCHANGED <<spCreds, spRotated, spRegistry, spLoaded, spRaced>>

SetUserSession(c, u) ==
    /\ Receive(c, "set lookup", [user |-> u, tok |-> [user |-> u, by |-> "login"]])
    /\ UNCHANGED <<spCreds, spRotated, spRegistry, spLoaded, spRaced>>

\* The table's lock is released before the registry is read.
Lookup(c) ==
    /\ spCall[c].pc \in {"lookup", "set lookup"}
    /\ spCall' = [spCall EXCEPT ![c] =
         [@ EXCEPT !.proxy = spRegistry, !.pc = IF spCall[c].pc = "lookup" THEN "clone" ELSE "set"]]
    /\ UNCHANGED <<spCreds, spRotated, spRegistry, spLoaded, spRaced>>

\* A call is between reading the credentials to refresh them and raising the flag.
Refreshing(c) == spCall[c].pc \in {"send", "body", "refresh", "store", "flag"}
Overtakes(p) == \E d \in Calls : Refreshing(d) /\ spCall[d].proxy = p

Session(old, new) == new

\* set_session, first step: a URL that does not parse, or is neither https nor
\* the loopback, is refused; else the session is stored.
SetCreds(c) ==
    LET p == spCall[c].proxy IN
    /\ spCall[c].pc = "set"
    /\ \/ /\ spCreds' = [spCreds EXCEPT ![p] = Session(@, spCall[c].creds)]
          /\ spRaced' = [spRaced EXCEPT ![p] = @ \/ Overtakes(p)]
          /\ Goto(c, "set flag")
       \/ Answer(c) /\ UNCHANGED <<spCreds, spRaced>>
    /\ UNCHANGED <<spRotated, spRegistry, spLoaded>>

\* set_session, second step: the flag, after the lock is released.
SetFlag(c) ==
    LET p == spCall[c].proxy IN
    /\ spCall[c].pc = "set flag"
    /\ spRotated' = [spRotated EXCEPT ![p] = FALSE]
    /\ spRaced' = [spRaced EXCEPT ![p] = @ \/ Overtakes(p) \/ spCreds[p] # spCall[c].creds]
    /\ Answer(c)
    /\ UNCHANGED <<spCreds, spRegistry, spLoaded>>

\* forward_request: the clone of the credentials every later step works on.
CloneCreds(c) ==
    LET p == spCall[c].proxy IN
    /\ spCall[c].pc = "clone"
    /\ IF spCreds[p] = NoCreds
       THEN Answer(c)
       ELSE spCall' = [spCall EXCEPT ![c] = [@ EXCEPT !.creds = spCreds[p], !.pc = "send"]]
    /\ UNCHANGED <<spCreds, spRotated, spRegistry, spLoaded, spRaced>>

\* send_request up to the status: an invalid path or method never leaves the
\* daemon, the 30 s timeout and a transport error end the call.
SendRequest(c) ==
    /\ spCall[c].pc = "send"
    /\ \/ spCall' = [spCall EXCEPT ![c] = [@ EXCEPT !.pc = "body", !.sends = spCall[c].sends + 1]]
       \/ Answer(c)
    /\ UNCHANGED <<spCreds, spRotated, spRegistry, spLoaded, spRaced>>

MayRefresh(call) == call.sends = 1 /\ call.creds.user \in Refreshable

\* The body, which no timeout bounds, and then the 401 test.
ReadBody(c, status) ==
    /\ spCall[c].pc = "body"
    /\ \/ status = 401 /\ MayRefresh(spCall[c]) /\ Goto(c, "refresh")
       \/ (status # 401 \/ ~MayRefresh(spCall[c])) /\ Answer(c)
       \/ Answer(c)
    /\ UNCHANGED <<spCreds, spRotated, spRegistry, spLoaded, spRaced>>

\* Mutant: a refresh without a timeout waits for a hub that never answers.
RefreshTokenWaits(c) == spCall[c].pc = "refresh" /\ UNCHANGED proxyVars

\* refresh_token: a new access token for the user whose refresh token was
\* cloned, or a failure, which hands the caller the 401.
RefreshToken(c) ==
    /\ spCall[c].pc = "refresh"
    /\ \/ spCall' = [spCall EXCEPT ![c] =
            [@ EXCEPT !.new = [user |-> spCall[c].creds.user, by |-> "refresh"], !.pc = "store"]]
       \/ Answer(c)
    /\ UNCHANGED <<spCreds, spRotated, spRegistry, spLoaded, spRaced>>

\* Mutant: the refreshed credentials are stored whole.
RefreshedWhole(old, call) == [call.creds EXCEPT !.tok = call.new]
\* The new token goes into whatever session is stored by now.
Refreshed(old, call) == [old EXCEPT !.tok = call.new]

StoreRefreshed(c) ==
    LET p == spCall[c].proxy IN
    /\ spCall[c].pc = "store"
    /\ spCreds' = [spCreds EXCEPT ![p] = Refreshed(@, spCall[c])]
    /\ Goto(c, "flag")
    /\ UNCHANGED <<spRotated, spRegistry, spLoaded, spRaced>>

RaiseFlag(p) == [spRotated EXCEPT ![p] = TRUE]

FlagRotated(c) ==
    /\ spCall[c].pc = "flag"
    /\ spRotated' = RaiseFlag(spCall[c].proxy)
    /\ Goto(c, "reclone")
    /\ UNCHANGED <<spCreds, spRegistry, spLoaded, spRaced>>

\* The retry uses the credentials stored now.
Reclone(c) ==
    LET p == spCall[c].proxy IN
    /\ spCall[c].pc = "reclone"
    /\ spCall' = [spCall EXCEPT ![c] = [@ EXCEPT !.creds = spCreds[p], !.pc = "send"]]
    /\ UNCHANGED <<spCreds, spRotated, spRegistry, spLoaded, spRaced>>

ProxyNext ==
    \/ ModuleInit \/ ModuleUnload
    \/ \E c \in Calls :
        \/ ProxyRequest(c)
        \/ \E u \in Users : SetUserSession(c, u)
        \/ Lookup(c) \/ SetCreds(c) \/ SetFlag(c) \/ CloneCreds(c) \/ SendRequest(c)
        \/ \E status \in {200, 401} : ReadBody(c, status)
        \/ RefreshToken(c) \/ StoreRefreshed(c) \/ FlagRotated(c) \/ Reclone(c)

\* The daemon's own steps go on; a body arrives only if the hub sends it.
ProxyStep(c) ==
    \/ Lookup(c) \/ SetCreds(c) \/ SetFlag(c) \/ CloneCreds(c) \/ SendRequest(c)
    \/ RefreshToken(c) \/ StoreRefreshed(c) \/ FlagRotated(c) \/ Reclone(c)

ProxySpec == ProxyInit /\ [][ProxyNext]_proxyVars /\ \A c \in Calls : WF_proxyVars(ProxyStep(c))

(***************************************************************************)
(* Properties.                                                             *)
(***************************************************************************)

\* Types; a request is sent at most twice, once before and once after the
\* one refresh (retry_count in forward_request).
ProxyTypeOK ==
    /\ spCreds \in [Proxies -> Credentials \cup {NoCreds}]
    /\ spRotated \in [Proxies -> BOOLEAN] /\ spRaced \in [Proxies -> BOOLEAN]
    /\ spRegistry \in 0..MaxProxies /\ spLoaded \in BOOLEAN
    /\ \A c \in Calls : spCall[c].pc \in {"send", "body"} => spCall[c].sends \in 0..2

\* The stored access token is the stored user's.  forward_request writes the
\* refreshed token into the session it finds, so only a set_session that
\* overtook a refresh can leave one user's token in another's session.
OwnToken ==
    \A p \in Proxies :
        spCreds[p] # NoCreds /\ spCreds[p].tok.user # spCreds[p].user => spRaced[p]

\* A refresh never changes whose session it is: only set_session does, however
\* long the refresh took (creds_inner.access_token is all forward_request writes).
RefreshKeepsUser ==
    [][\A p \in Proxies :
         spCreds[p] # NoCreds /\ spCreds'[p].user # spCreds[p].user
            => \E c \in Calls : spCall[c].pc = "set" /\ spCall'[c].pc = "set flag"]_proxyVars

\* token_rotated tells whether the stored token came from a refresh, once the
\* calls that are between the token and the flag have passed, unless a
\* set_session overtook a refresh.
FlagExact ==
    \A p \in Proxies :
        spCreds[p] # NoCreds /\ ~spRaced[p]
          /\ (\A c \in Calls : spCall[c].pc \in {"flag", "set flag"} => spCall[c].proxy # p)
            => (spRotated[p] <=> spCreds[p].tok.by = "refresh")

\* Every RPC is answered, whatever the hub does, unless it is reading the body
\* of a response: the 30 s and 10 s timeouts cover the send, not the body.
RpcEnds ==
    \A c \in Calls : (spCall[c] # Idle) ~> (spCall[c].pc \in {"body", "idle"})
=============================================================================
