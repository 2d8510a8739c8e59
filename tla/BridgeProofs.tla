---------------------------- MODULE BridgeProofs ----------------------------
(***************************************************************************)
(* Theorems about the waddlebot module, for every set of users, calls,     *)
(* requests, clients, commands and communities and every bound.            *)
(***************************************************************************)
EXTENDS MCBridge, FiniteSetTheorems, TLAPS

-----------------------------------------------------------------------------
(* SessionProxy: the inductive invariant *)

CallPlaces == {"idle", "lookup", "set lookup", "set", "set flag", "clone", "send", "body",
               "refresh", "store", "flag", "reclone"}

CallRecords ==
    [pc : CallPlaces, sends : 0..2, proxy : 0..MaxProxies,
     creds : Credentials \cup {NoCreds}, new : AccessTokens \cup {NoCreds}]

ProxyShape ==
    /\ spCreds \in [Proxies -> Credentials \cup {NoCreds}]
    /\ spRotated \in [Proxies -> BOOLEAN] /\ spRaced \in [Proxies -> BOOLEAN]
    /\ spRegistry \in 0..MaxProxies /\ spLoaded \in BOOLEAN
    /\ spCall \in [Calls -> CallRecords]
    /\ spLoaded => spRegistry > 0

\* A call has a proxy once it has looked it up, sends once more after its one
\* refresh, and, unless a set_session overtook it, works for the stored user.
Fits(k) ==
    /\ k.pc # "idle" => spRegistry > 0
    /\ k.pc \notin {"idle", "lookup", "set lookup"} => k.proxy \in Proxies
    /\ k.pc \in {"lookup", "clone"} => k.sends = 0
    /\ k.pc = "send" => k.sends \in 0..1
    /\ k.pc \in {"refresh", "store", "flag", "reclone"} => k.sends = 1
    /\ k.pc \in {"set lookup", "set", "set flag"} =>
         k.creds \in Credentials /\ k.creds.tok.user = k.creds.user /\ k.creds.tok.by = "login"
    /\ k.pc \in {"send", "body", "refresh", "store", "flag", "reclone"} =>
         k.creds \in Credentials /\ spCreds[k.proxy] # NoCreds
    /\ k.pc = "store" => k.new = [user |-> k.creds.user, by |-> "refresh"]
    /\ k.pc \in {"send", "body", "refresh", "store"} /\ ~spRaced[k.proxy] =>
         spCreds[k.proxy].user = k.creds.user
    /\ k.pc = "flag" /\ ~spRaced[k.proxy] => spCreds[k.proxy].tok.by = "refresh"

ProxyInv == ProxyShape /\ (\A c \in Calls : Fits(spCall[c])) /\ OwnToken /\ FlagExact

\* A call as it is received, and an idle one.
LEMMA NewCallIsCall ==
    ASSUME NEW pc \in CallPlaces, NEW creds \in Credentials \cup {NoCreds}
    PROVE  NewCall(pc, creds) \in CallRecords
  BY ProxyAssumption DEF CallRecords, NewCall

LEMMA IdleCall == Idle \in CallRecords /\ Idle.pc = "idle"
  BY NewCallIsCall DEF Idle, NewCall, CallPlaces

\* The initial state.
LEMMA ProxyInvInit == ProxyInit => ProxyInv
<1> SUFFICES ASSUME ProxyInit PROVE ProxyInv
  OBVIOUS
<1>1. Idle \in CallRecords
  BY IdleCall
<1>2. ProxyShape
  <2>1. spCreds \in [Proxies -> Credentials \cup {NoCreds}] /\ spCall \in [Calls -> CallRecords]
    BY <1>1 DEF ProxyInit
  <2>2. spRotated \in [Proxies -> BOOLEAN] /\ spRaced \in [Proxies -> BOOLEAN]
    BY DEF ProxyInit
  <2>3. spRegistry \in 0..MaxProxies
    BY ProxyAssumption DEF ProxyInit
  <2>4. spLoaded \in BOOLEAN /\ ~spLoaded
    BY DEF ProxyInit
  <2> QED
    BY <2>1, <2>2, <2>3, <2>4 DEF ProxyShape
<1>3. \A c \in Calls : Fits(spCall[c])
  BY DEF ProxyInit, Fits, Idle, NewCall
<1>4. OwnToken /\ FlagExact
  BY DEF ProxyInit, OwnToken, FlagExact
<1> QED
  BY <1>2, <1>3, <1>4 DEF ProxyInv

\* A step that moves one call and touches no session keeps the invariant, when the
\* call fits where it goes and was not between a token and its flag.
LEMMA CallMoves ==
    ASSUME ProxyInv, NEW c \in Calls, NEW k \in CallRecords, Fits(k),
           spCall[c].pc \notin {"flag", "set flag"},
           spCall' = [spCall EXCEPT ![c] = k],
           UNCHANGED <<spCreds, spRotated, spRegistry, spLoaded, spRaced>>
    PROVE  ProxyInv'
<1>1. /\ spCall' \in [Calls -> CallRecords] /\ spCall'[c] = k
      /\ \A d \in Calls \ {c} : spCall'[d] = spCall[d]
  BY DEF ProxyInv, ProxyShape
<1>2. ProxyShape'
  BY <1>1 DEF ProxyInv, ProxyShape
<1>3. \A r : Fits(r)' <=> Fits(r)
  BY DEF Fits
<1>4. \A d \in Calls : Fits(spCall[d])'
  <2> TAKE d \in Calls
  <2>1. CASE d = c
    BY <2>1, <1>1 DEF Fits
  <2>2. CASE d # c
    BY <2>2, <1>1 DEF Fits, ProxyInv
  <2> QED
    BY <2>1, <2>2
<1>5. OwnToken'
  BY DEF ProxyInv, OwnToken
<1>6. FlagExact'
  BY <1>1 DEF ProxyInv, FlagExact
<1> QED
  BY <1>2, <1>4, <1>5, <1>6 DEF ProxyInv

\* A call that is answered.
LEMMA CallAnswered ==
    ASSUME ProxyInv, NEW c \in Calls, spCall[c].pc \notin {"flag", "set flag"}, Answer(c),
           UNCHANGED <<spCreds, spRotated, spRegistry, spLoaded, spRaced>>
    PROVE  ProxyInv'
<1>1. Idle \in CallRecords
  BY IdleCall
<1>2. Fits(Idle)
  BY DEF Fits, Idle, NewCall
<1> QED
  BY <1>1, <1>2, CallMoves DEF Answer

\* A call that is received: its first locals.
LEMMA CallReceived ==
    ASSUME ProxyInv, NEW c \in Calls, NEW pc \in {"lookup", "set lookup"},
           NEW creds \in Credentials \cup {NoCreds},
           pc = "set lookup" =>
             creds \in Credentials /\ creds.tok.user = creds.user /\ creds.tok.by = "login",
           Receive(c, pc, creds), UNCHANGED <<spCreds, spRotated, spRegistry, spLoaded, spRaced>>
    PROVE  ProxyInv'
<1>0. spCall[c].pc = "idle"
  BY IdleCall DEF Receive
<1>1. CASE Answer(c)
  BY <1>0, <1>1, CallAnswered
<1>2. CASE spLoaded /\ spCall' = [spCall EXCEPT ![c] = NewCall(pc, creds)]
  <2>1. NewCall(pc, creds) \in CallRecords
    BY NewCallIsCall DEF CallPlaces
  <2>2. Fits(NewCall(pc, creds))
    BY <1>2 DEF Fits, ProxyInv, ProxyShape, NewCall
  <2> QED
    BY <1>0, <1>2, <2>1, <2>2, CallMoves
<1> QED
  BY <1>1, <1>2 DEF Receive

\* The RPCs arrive, and find their proxy.
LEMMA ReceiveKeeps ==
    ASSUME ProxyInv, NEW c \in Calls,
           ProxyRequest(c) \/ (\E u \in Users : SetUserSession(c, u)) \/ Lookup(c)
    PROVE  ProxyInv'
<1>1. CASE ProxyRequest(c)
  BY <1>1, CallReceived DEF ProxyRequest
<1>2. ASSUME NEW u \in Users, SetUserSession(c, u) PROVE ProxyInv'
  <2> DEFINE creds == [user |-> u, tok |-> [user |-> u, by |-> "login"]]
  <2>1. creds \in Credentials /\ creds.tok.user = creds.user /\ creds.tok.by = "login"
    BY DEF Credentials, AccessTokens
  <2>2. Receive(c, "set lookup", creds) /\ UNCHANGED <<spCreds, spRotated, spRegistry, spLoaded, spRaced>>
    BY <1>2 DEF SetUserSession
  <2> HIDE DEF creds
  <2> QED
    BY <2>1, <2>2, CallReceived
<1>3. CASE Lookup(c)
  <2> DEFINE k == [spCall[c] EXCEPT !.proxy = spRegistry, !.pc = IF spCall[c].pc = "lookup" THEN "clone" ELSE "set"]
  <2>1. spCall' = [spCall EXCEPT ![c] = k]
    BY <1>3 DEF Lookup, ProxyInv, ProxyShape
  <2>2. spCall[c] \in CallRecords /\ Fits(spCall[c]) /\ spRegistry \in 0..MaxProxies
    BY DEF ProxyInv, ProxyShape
  <2>3. k \in CallRecords
    BY <2>2 DEF CallRecords, CallPlaces
  <2>4. Fits(k)
    <3>0. spRegistry > 0
      BY <2>2, <1>3 DEF Fits, Lookup
    <3>1. spRegistry \in Proxies /\ spRegistry > 0
      BY <2>2, <3>0, ProxyAssumption DEF Proxies
    <3>2. k.pc \in {"clone", "set"} /\ k.proxy = spRegistry /\ k.sends = spCall[c].sends /\ k.creds = spCall[c].creds
      BY <2>2 DEF CallRecords
    <3>3. k.pc = "clone" => spCall[c].pc = "lookup"
      BY <2>2 DEF CallRecords
    <3>4. k.pc = "set" => spCall[c].pc = "set lookup"
      BY <2>2, <1>3 DEF CallRecords, Lookup
    <3> HIDE DEF k
    <3> QED
      BY <2>2, <3>1, <3>2, <3>3, <3>4 DEF Fits
  <2>5. spCall[c].pc \notin {"flag", "set flag"} /\ UNCHANGED <<spCreds, spRotated, spRegistry, spLoaded, spRaced>>
    BY <1>3 DEF Lookup
  <2> HIDE DEF k
  <2> QED
    BY <2>1, <2>3, <2>4, <2>5, CallMoves
<1> QED
  BY <1>1, <1>2, <1>3

\* forward_request up to the refreshed token.
LEMMA ForwardKeeps ==
    ASSUME ProxyInv, NEW c \in Calls,
           NEW status, CloneCreds(c) \/ SendRequest(c) \/ ReadBody(c, status) \/ RefreshToken(c) \/ Reclone(c)
    PROVE  ProxyInv'
<1>1. UNCHANGED <<spCreds, spRotated, spRegistry, spLoaded, spRaced>> /\ spCall[c].pc \notin {"flag", "set flag"}
  BY DEF CloneCreds, SendRequest, RefreshToken, Reclone, ReadBody
<1>2. spCall[c] \in CallRecords /\ Fits(spCall[c]) /\ spCall \in [Calls -> CallRecords]
      /\ spCreds \in [Proxies -> Credentials \cup {NoCreds}]
  BY DEF ProxyInv, ProxyShape
<1>3. CASE Answer(c)
  BY <1>1, <1>3, CallAnswered
<1>4. CASE spCall[c].pc = "clone" /\ spCreds[spCall[c].proxy] # NoCreds
           /\ spCall' = [spCall EXCEPT ![c] = [@ EXCEPT !.creds = spCreds[spCall[c].proxy], !.pc = "send"]]
  <2> DEFINE k == [spCall[c] EXCEPT !.creds = spCreds[spCall[c].proxy], !.pc = "send"]
  <2>1. spCall' = [spCall EXCEPT ![c] = k]
    BY <1>2, <1>4
  <2>2. spCall[c].proxy \in Proxies /\ spCreds[spCall[c].proxy] \in Credentials
    BY <1>2, <1>4 DEF Fits
  <2>3. k \in CallRecords
    BY <1>2, <2>2 DEF CallRecords, CallPlaces
  <2>4. Fits(k)
    BY <1>2, <1>4, <2>2 DEF Fits, CallRecords
  <2> HIDE DEF k
  <2> QED
    BY <1>1, <2>1, <2>3, <2>4, CallMoves
<1>5. CASE spCall[c].pc = "send" /\ spCall' = [spCall EXCEPT ![c] = [@ EXCEPT !.pc = "body", !.sends = spCall[c].sends + 1]]
  <2> DEFINE k == [spCall[c] EXCEPT !.pc = "body", !.sends = spCall[c].sends + 1]
  <2>1. spCall' = [spCall EXCEPT ![c] = k]
    BY <1>2, <1>5
  <2>2. k \in CallRecords
    <3>1. spCall[c].sends + 1 \in 0..2
      BY <1>2, <1>5 DEF Fits
    <3> QED
      BY <1>2, <3>1 DEF CallRecords, CallPlaces
  <2>3. Fits(k)
    BY <1>2, <1>5 DEF Fits, CallRecords
  <2> HIDE DEF k
  <2> QED
    BY <1>1, <2>1, <2>2, <2>3, CallMoves
<1>6. CASE spCall[c].pc = "body" /\ MayRefresh(spCall[c]) /\ Goto(c, "refresh")
  <2> DEFINE k == [spCall[c] EXCEPT !.pc = "refresh"]
  <2>1. spCall' = [spCall EXCEPT ![c] = k]
    BY <1>2, <1>6 DEF Goto
  <2>2. k \in CallRecords
    BY <1>2 DEF CallRecords, CallPlaces
  <2>3. Fits(k)
    BY <1>2, <1>6 DEF Fits, CallRecords, MayRefresh
  <2> HIDE DEF k
  <2> QED
    BY <1>1, <2>1, <2>2, <2>3, CallMoves
<1>7. CASE /\ spCall[c].pc = "refresh"
           /\ spCall' = [spCall EXCEPT ![c] =
                [@ EXCEPT !.new = [user |-> spCall[c].creds.user, by |-> "refresh"], !.pc = "store"]]
  <2> DEFINE k == [spCall[c] EXCEPT !.new = [user |-> spCall[c].creds.user, by |-> "refresh"], !.pc = "store"]
  <2>1. spCall' = [spCall EXCEPT ![c] = k]
    BY <1>2, <1>7
  <2>2. k \in CallRecords
    BY <1>2, <1>7 DEF CallRecords, CallPlaces, Fits, Credentials, AccessTokens
  <2>3. Fits(k)
    BY <1>2, <1>7 DEF Fits, CallRecords
  <2> HIDE DEF k
  <2> QED
    BY <1>1, <2>1, <2>2, <2>3, CallMoves
<1>8. CASE spCall[c].pc = "reclone" /\ spCall' = [spCall EXCEPT ![c] = [@ EXCEPT !.creds = spCreds[spCall[c].proxy], !.pc = "send"]]
  <2> DEFINE k == [spCall[c] EXCEPT !.creds = spCreds[spCall[c].proxy], !.pc = "send"]
  <2>1. spCall' = [spCall EXCEPT ![c] = k]
    BY <1>2, <1>8
  <2>2. spCall[c].proxy \in Proxies /\ spCreds[spCall[c].proxy] \in Credentials
    BY <1>2, <1>8 DEF Fits
  <2>3. k \in CallRecords
    BY <1>2, <2>2 DEF CallRecords, CallPlaces
  <2>4. Fits(k)
    BY <1>2, <1>8, <2>2 DEF Fits, CallRecords
  <2> HIDE DEF k
  <2> QED
    BY <1>1, <2>1, <2>3, <2>4, CallMoves
<1> QED
  BY <1>3, <1>4, <1>5, <1>6, <1>7, <1>8 DEF CloneCreds, SendRequest, RefreshToken, Reclone, ReadBody

\* set_session's first half: a refresh under way is marked as overtaken.
LEMMA SetCredsKeeps ==
    ASSUME ProxyInv, NEW c \in Calls, SetCreds(c)
    PROVE  ProxyInv'
<1> DEFINE p == spCall[c].proxy
<1> DEFINE k == [spCall[c] EXCEPT !.pc = "set flag"]
<1>1. CASE Answer(c) /\ UNCHANGED <<spCreds, spRaced>>
  BY <1>1, CallAnswered DEF SetCreds
<1>2. CASE /\ spCreds' = [spCreds EXCEPT ![p] = spCall[c].creds]
           /\ spRaced' = [spRaced EXCEPT ![p] = @ \/ Overtakes(p)]
           /\ Goto(c, "set flag")
  <2>1. ProxyShape /\ Fits(spCall[c]) /\ spCall[c] \in CallRecords /\ spCall[c].pc = "set"
        /\ UNCHANGED <<spRotated, spRegistry, spLoaded>>
    BY DEF ProxyInv, ProxyShape, SetCreds
  <2>2. /\ p \in Proxies /\ spCall[c].creds \in Credentials /\ spRegistry > 0
        /\ spCall[c].creds.tok.user = spCall[c].creds.user /\ spCall[c].creds.tok.by = "login"
    BY <2>1 DEF Fits
  <2>3. k \in CallRecords /\ k.pc = "set flag" /\ k.proxy = p /\ k.creds = spCall[c].creds
    BY <2>1 DEF CallRecords, CallPlaces
  <2>4. spCall' = [spCall EXCEPT ![c] = k]
    BY <1>2 DEF Goto
  <2> HIDE DEF k
  <2>5. /\ spCall' \in [Calls -> CallRecords] /\ spCall'[c] = k
        /\ \A d \in Calls \ {c} : spCall'[d] = spCall[d]
    BY <2>1, <2>3, <2>4 DEF ProxyShape
  <2>6. /\ spCreds' \in [Proxies -> Credentials \cup {NoCreds}] /\ spCreds'[p] = spCall[c].creds
        /\ \A q \in Proxies \ {p} : spCreds'[q] = spCreds[q]
    BY <1>2, <2>1, <2>2 DEF ProxyShape
  <2>7. /\ spRaced' \in [Proxies -> BOOLEAN] /\ spRaced'[p] = (spRaced[p] \/ Overtakes(p))
        /\ \A q \in Proxies \ {p} : spRaced'[q] = spRaced[q]
    BY <1>2, <2>1, <2>2, Zenon DEF ProxyShape, Overtakes
  <2> HIDE DEF p
  <2>8. ProxyShape'
    BY <2>1, <2>5, <2>6, <2>7 DEF ProxyShape
  <2>9. \A d \in Calls : Fits(spCall[d])'
    <3> TAKE d \in Calls
    <3>1. CASE d = c
      BY <3>1, <2>1, <2>2, <2>3, <2>5 DEF Fits
    <3>2. CASE d # c /\ spCall[d].proxy # p
      <4>1. Fits(spCall[d]) /\ spCall'[d] = spCall[d] /\ spRegistry' = spRegistry
        BY <3>2, <2>1, <2>5 DEF ProxyInv
      <4>2. spCall[d].proxy \in Proxies =>
              /\ spCreds'[spCall[d].proxy] = spCreds[spCall[d].proxy]
              /\ spRaced'[spCall[d].proxy] = spRaced[spCall[d].proxy]
        BY <3>2, <2>6, <2>7
      <4> QED
        BY <4>1, <4>2 DEF Fits
    <3>3. CASE d # c /\ spCall[d].proxy = p
      <4>1. Fits(spCall[d]) /\ spCall'[d] = spCall[d]
        BY <3>3, <2>5 DEF ProxyInv
      <4>2. spCall[d].pc \in {"send", "body", "refresh", "store", "flag"} => spRaced'[p]
        BY <3>3, <2>7, Zenon DEF Overtakes, Refreshing
      <4>3. spCreds'[p] # NoCreds
        BY <2>2, <2>6, ProxyAssumption
      <4> QED
        BY <3>3, <4>1, <4>2, <4>3, <2>1 DEF Fits
    <3> QED
      BY <3>1, <3>2, <3>3
  <2>10. OwnToken'
    BY <2>2, <2>6, <2>7 DEF OwnToken, ProxyInv
  <2>11. FlagExact'
    <3> SUFFICES ASSUME NEW q \in Proxies,
                        (spCreds[q] # NoCreds /\ ~spRaced[q]
                          /\ (\A d \in Calls : spCall[d].pc \in {"flag", "set flag"} => spCall[d].proxy # q))'
                 PROVE  (spRotated[q] <=> spCreds[q].tok.by = "refresh")'
      BY DEF FlagExact
    <3>1. q # p
      BY <2>3, <2>5
    <3>2. \A d \in Calls : spCall[d].pc \in {"flag", "set flag"} => spCall[d].proxy # q
      BY <2>1, <2>5
    <3> QED
      BY <3>1, <3>2, <2>1, <2>6, <2>7 DEF FlagExact, ProxyInv
  <2> QED
    BY <2>8, <2>9, <2>10, <2>11 DEF ProxyInv
<1> QED
  BY <1>1, <1>2 DEF SetCreds, Session

\* set_session's second half: the flag goes down, and a session that is not the one
\* just stored, or a refresh under way, marks the proxy.
LEMMA SetFlagKeeps ==
    ASSUME ProxyInv, NEW c \in Calls, SetFlag(c)
    PROVE  ProxyInv'
<1> DEFINE p == spCall[c].proxy
<1>1. ProxyShape /\ Fits(spCall[c]) /\ spCall[c].pc = "set flag" /\ Answer(c)
      /\ UNCHANGED <<spCreds, spRegistry, spLoaded>>
  BY DEF ProxyInv, ProxyShape, SetFlag
<1>2. p \in Proxies /\ spCall[c].creds.tok.by = "login"
  BY <1>1 DEF Fits
<1>3. /\ spCall' \in [Calls -> CallRecords] /\ spCall'[c] = Idle
      /\ \A d \in Calls \ {c} : spCall'[d] = spCall[d]
  BY <1>1, IdleCall DEF ProxyShape, Answer
<1>4. /\ spRotated' \in [Proxies -> BOOLEAN] /\ spRotated'[p] = FALSE
      /\ \A q \in Proxies \ {p} : spRotated'[q] = spRotated[q]
  BY <1>1, <1>2 DEF SetFlag, ProxyShape
<1>5. /\ spRaced' \in [Proxies -> BOOLEAN]
      /\ spRaced'[p] = (spRaced[p] \/ Overtakes(p) \/ spCreds[p] # spCall[c].creds)
      /\ \A q \in Proxies \ {p} : spRaced'[q] = spRaced[q]
  BY <1>1, <1>2, Zenon DEF SetFlag, ProxyShape, Overtakes
<1>6. \A q \in Proxies : spRaced[q] => spRaced'[q]
  BY <1>5, Zenon
<1>7. spCreds[p] # spCall[c].creds => spRaced'[p]
  BY <1>5, Zenon
<1> HIDE DEF p
<1>8. ProxyShape'
  BY <1>1, <1>3, <1>4, <1>5 DEF ProxyShape
<1>9. \A d \in Calls : Fits(spCall[d])'
  <2> TAKE d \in Calls
  <2>1. CASE d = c
    BY <2>1, <1>3 DEF Fits, Idle, NewCall
  <2>2. CASE d # c
    <3>1. Fits(spCall[d]) /\ spCall'[d] = spCall[d] /\ spRegistry' = spRegistry /\ spCreds' = spCreds
      BY <2>2, <1>1, <1>3 DEF ProxyInv
    <3> QED
      BY <3>1, <1>6 DEF Fits
  <2> QED
    BY <2>1, <2>2
<1>10. OwnToken'
  BY <1>1, <1>6 DEF OwnToken, ProxyInv
<1>11. FlagExact'
  <2> SUFFICES ASSUME NEW q \in Proxies,
                      (spCreds[q] # NoCreds /\ ~spRaced[q]
                        /\ (\A d \in Calls : spCall[d].pc \in {"flag", "set flag"} => spCall[d].proxy # q))'
               PROVE  (spRotated[q] <=> spCreds[q].tok.by = "refresh")'
    BY DEF FlagExact
  <2>1. CASE q = p
    BY <2>1, <1>1, <1>2, <1>4, <1>7
  <2>2. CASE q # p
    <3>1. \A d \in Calls : spCall[d].pc \in {"flag", "set flag"} => spCall[d].proxy # q
      BY <2>2, <1>3 DEF p
    <3> QED
      BY <2>2, <3>1, <1>1, <1>4, <1>5 DEF FlagExact, ProxyInv
  <2> QED
    BY <2>1, <2>2
<1> QED
  BY <1>8, <1>9, <1>10, <1>11 DEF ProxyInv

\* The refreshed token is stored: into the session of the user it was refreshed for,
\* unless the proxy is marked.
LEMMA StoreRefreshedKeeps ==
    ASSUME ProxyInv, NEW c \in Calls, StoreRefreshed(c)
    PROVE  ProxyInv'
<1> DEFINE p == spCall[c].proxy
<1> DEFINE k == [spCall[c] EXCEPT !.pc = "flag"]
<1> DEFINE new == [spCreds[p] EXCEPT !.tok = spCall[c].new]
<1>1. ProxyShape /\ Fits(spCall[c]) /\ spCall[c] \in CallRecords /\ spCall[c].pc = "store"
      /\ UNCHANGED <<spRotated, spRegistry, spLoaded, spRaced>>
  BY DEF ProxyInv, ProxyShape, StoreRefreshed
<1>2. /\ p \in Proxies /\ spCreds[p] \in Credentials /\ spRegistry > 0
      /\ spCall[c].creds \in Credentials /\ spCall[c].sends = 1
      /\ spCall[c].new = [user |-> spCall[c].creds.user, by |-> "refresh"]
      /\ ~spRaced[p] => spCreds[p].user = spCall[c].creds.user
  BY <1>1 DEF Fits, ProxyShape
<1>3. /\ new \in Credentials /\ new.user = spCreds[p].user
      /\ new.tok.user = spCall[c].creds.user /\ new.tok.by = "refresh"
  BY <1>2 DEF Credentials, AccessTokens
<1>4. k \in CallRecords /\ k.pc = "flag" /\ k.proxy = p /\ k.creds = spCall[c].creds /\ k.sends = 1
  BY <1>1, <1>2 DEF CallRecords, CallPlaces
<1>5. spCall' = [spCall EXCEPT ![c] = k] /\ spCreds' = [spCreds EXCEPT ![p] = new]
  BY DEF StoreRefreshed, Goto, Refreshed
<1> HIDE DEF k, new
<1>6. /\ spCall' \in [Calls -> CallRecords] /\ spCall'[c] = k
      /\ \A d \in Calls \ {c} : spCall'[d] = spCall[d]
  BY <1>1, <1>4, <1>5 DEF ProxyShape
<1>7. /\ spCreds' \in [Proxies -> Credentials \cup {NoCreds}] /\ spCreds'[p] = new
      /\ \A q \in Proxies \ {p} : spCreds'[q] = spCreds[q]
  BY <1>1, <1>2, <1>3, <1>5 DEF ProxyShape
<1>8. new # NoCreds
  BY <1>3, ProxyAssumption
<1> HIDE DEF p
<1>9. ProxyShape'
  BY <1>1, <1>6, <1>7 DEF ProxyShape
<1>10. \A d \in Calls : Fits(spCall[d])'
  <2> TAKE d \in Calls
  <2>1. CASE d = c
    BY <2>1, <1>1, <1>2, <1>3, <1>4, <1>6, <1>7, <1>8 DEF Fits
  <2>2. CASE d # c /\ spCall[d].proxy # p
    <3>1. Fits(spCall[d]) /\ spCall'[d] = spCall[d] /\ spRegistry' = spRegistry /\ spRaced' = spRaced
      BY <2>2, <1>1, <1>6 DEF ProxyInv
    <3>2. spCall[d].proxy \in Proxies => spCreds'[spCall[d].proxy] = spCreds[spCall[d].proxy]
      BY <2>2, <1>7
    <3> QED
      BY <3>1, <3>2 DEF Fits
  <2>3. CASE d # c /\ spCall[d].proxy = p
    <3>1. Fits(spCall[d]) /\ spCall'[d] = spCall[d] /\ spRegistry' = spRegistry /\ spRaced' = spRaced
      BY <2>3, <1>1, <1>6 DEF ProxyInv
    <3> QED
      BY <2>3, <3>1, <1>3, <1>7, <1>8 DEF Fits
  <2> QED
    BY <2>1, <2>2, <2>3
<1>11. OwnToken'
  BY <1>1, <1>2, <1>3, <1>7 DEF OwnToken, ProxyInv
<1>12. FlagExact'
  <2> SUFFICES ASSUME NEW q \in Proxies,
                      (spCreds[q] # NoCreds /\ ~spRaced[q]
                        /\ (\A d \in Calls : spCall[d].pc \in {"flag", "set flag"} => spCall[d].proxy # q))'
               PROVE  (spRotated[q] <=> spCreds[q].tok.by = "refresh")'
    BY DEF FlagExact
  <2>1. q # p
    BY <1>4, <1>6
  <2>2. \A d \in Calls : spCall[d].pc \in {"flag", "set flag"} => spCall[d].proxy # q
    BY <1>1, <1>6
  <2> QED
    BY <2>1, <2>2, <1>1, <1>7 DEF FlagExact, ProxyInv
<1> QED
  BY <1>9, <1>10, <1>11, <1>12 DEF ProxyInv

\* The flag goes up: the token it speaks of is a refreshed one.
LEMMA FlagRotatedKeeps ==
    ASSUME ProxyInv, NEW c \in Calls, FlagRotated(c)
    PROVE  ProxyInv'
<1> DEFINE p == spCall[c].proxy
<1> DEFINE k == [spCall[c] EXCEPT !.pc = "reclone"]
<1>1. ProxyShape /\ Fits(spCall[c]) /\ spCall[c] \in CallRecords /\ spCall[c].pc = "flag"
      /\ UNCHANGED <<spCreds, spRegistry, spLoaded, spRaced>>
  BY DEF ProxyInv, ProxyShape, FlagRotated
<1>2. /\ p \in Proxies /\ spRegistry > 0 /\ spCreds[p] # NoCreds /\ spCall[c].creds \in Credentials
      /\ spCall[c].sends = 1 /\ (~spRaced[p] => spCreds[p].tok.by = "refresh")
  BY <1>1 DEF Fits
<1>3. k \in CallRecords /\ k.pc = "reclone" /\ k.proxy = p /\ k.creds = spCall[c].creds /\ k.sends = 1
  BY <1>1, <1>2 DEF CallRecords, CallPlaces
<1>4. spCall' = [spCall EXCEPT ![c] = k]
  BY DEF FlagRotated, Goto
<1> HIDE DEF k
<1>5. /\ spCall' \in [Calls -> CallRecords] /\ spCall'[c] = k
      /\ \A d \in Calls \ {c} : spCall'[d] = spCall[d]
  BY <1>1, <1>3, <1>4 DEF ProxyShape
<1>6. /\ spRotated' \in [Proxies -> BOOLEAN] /\ spRotated'[p] = TRUE
      /\ \A q \in Proxies \ {p} : spRotated'[q] = spRotated[q]
  BY <1>1, <1>2 DEF FlagRotated, RaiseFlag, ProxyShape
<1> HIDE DEF p
<1>7. ProxyShape'
  BY <1>1, <1>5, <1>6 DEF ProxyShape
<1>8. \A d \in Calls : Fits(spCall[d])'
  <2> TAKE d \in Calls
  <2>1. CASE d = c
    BY <2>1, <1>1, <1>2, <1>3, <1>5 DEF Fits
  <2>2. CASE d # c
    <3>1. Fits(spCall[d]) /\ spCall'[d] = spCall[d]
      BY <2>2, <1>5 DEF ProxyInv
    <3> QED
      BY <3>1, <1>1 DEF Fits
  <2> QED
    BY <2>1, <2>2
<1>9. OwnToken'
  BY <1>1 DEF OwnToken, ProxyInv
<1>10. FlagExact'
  <2> SUFFICES ASSUME NEW q \in Proxies,
                      (spCreds[q] # NoCreds /\ ~spRaced[q]
                        /\ (\A d \in Calls : spCall[d].pc \in {"flag", "set flag"} => spCall[d].proxy # q))'
               PROVE  (spRotated[q] <=> spCreds[q].tok.by = "refresh")'
    BY DEF FlagExact
  <2>1. CASE q = p
    BY <2>1, <1>1, <1>2, <1>6
  <2>2. CASE q # p
    <3>1. \A d \in Calls : spCall[d].pc \in {"flag", "set flag"} => spCall[d].proxy # q
      BY <2>2, <1>5 DEF p
    <3> QED
      BY <2>2, <3>1, <1>1, <1>6 DEF FlagExact, ProxyInv
  <2> QED
    BY <2>1, <2>2
<1> QED
  BY <1>7, <1>8, <1>9, <1>10 DEF ProxyInv

\* The module is initialised, or unloaded.
LEMMA ModuleKeeps ==
    ASSUME ProxyInv, ModuleInit \/ ModuleUnload
    PROVE  ProxyInv'
<1>1. UNCHANGED <<spCreds, spRotated, spCall, spRaced>>
  BY DEF ModuleInit, ModuleUnload
<1>2. spRegistry' \in 0..MaxProxies /\ spLoaded' \in BOOLEAN /\ (spLoaded' => spRegistry' > 0)
      /\ (spRegistry > 0 => spRegistry' > 0)
  <2>1. CASE ModuleInit
    BY <2>1, ProxyAssumption DEF ModuleInit, ProxyInv, ProxyShape
  <2>2. CASE ModuleUnload
    <3>1. spRegistry' = spRegistry /\ spLoaded' = FALSE
      BY <2>2 DEF ModuleUnload
    <3> QED
      BY <3>1 DEF ProxyInv, ProxyShape
  <2> QED
    BY <2>1, <2>2
<1>3. ProxyShape'
  BY <1>1, <1>2 DEF ProxyInv, ProxyShape
<1>4. \A d \in Calls : Fits(spCall[d])'
  BY <1>1, <1>2 DEF ProxyInv, Fits
<1>5. OwnToken' /\ FlagExact'
  BY <1>1 DEF ProxyInv, OwnToken, FlagExact
<1> QED
  BY <1>3, <1>4, <1>5 DEF ProxyInv

\* Every step of the session proxy keeps the invariant.
LEMMA ProxyInvKept ==
    ASSUME ProxyInv, ProxyNext \/ UNCHANGED proxyVars
    PROVE  ProxyInv'
<1>1. CASE ModuleInit \/ ModuleUnload
  BY <1>1, ModuleKeeps
<1>2. ASSUME NEW c \in Calls, ProxyRequest(c) \/ (\E u \in Users : SetUserSession(c, u)) \/ Lookup(c)
      PROVE  ProxyInv'
  BY <1>2, ReceiveKeeps
<1>3. ASSUME NEW c \in Calls, SetCreds(c) \/ SetFlag(c) \/ StoreRefreshed(c) \/ FlagRotated(c)
      PROVE  ProxyInv'
  BY <1>3, SetCredsKeeps, SetFlagKeeps, StoreRefreshedKeeps, FlagRotatedKeeps
<1>4. ASSUME NEW c \in Calls, NEW status,
             CloneCreds(c) \/ SendRequest(c) \/ ReadBody(c, status) \/ RefreshToken(c) \/ Reclone(c)
      PROVE  ProxyInv'
  BY <1>4, ForwardKeeps
<1>5. CASE UNCHANGED proxyVars
  BY <1>5 DEF proxyVars, ProxyInv, ProxyShape, Fits, OwnToken, FlagExact
<1> QED
  BY <1>1, <1>2, <1>3, <1>4, <1>5 DEF ProxyNext

\* No step but a set_session's changes whose session is stored.
LEMMA UserKept ==
    ASSUME ProxyInv, ProxyNext \/ UNCHANGED proxyVars, NEW p \in Proxies,
           spCreds[p] # NoCreds, spCreds'[p].user # spCreds[p].user
    PROVE  \E c \in Calls : spCall[c].pc = "set" /\ spCall'[c].pc = "set flag"
<1>1. spCreds' # spCreds
  OBVIOUS
<1>2. PICK c \in Calls : SetCreds(c) \/ StoreRefreshed(c)
  BY <1>1 DEF ProxyNext, proxyVars, ModuleInit, ModuleUnload, ProxyRequest, SetUserSession, Lookup,
              SetFlag, CloneCreds, SendRequest, ReadBody, RefreshToken, FlagRotated, Reclone
<1>3. CASE SetCreds(c)
  <2>1. spCall[c].pc = "set" /\ Goto(c, "set flag")
    BY <1>1, <1>3 DEF SetCreds
  <2>2. spCall'[c].pc = "set flag"
    BY <2>1 DEF Goto, ProxyInv, ProxyShape, CallRecords
  <2> QED
    BY <2>1, <2>2
<1>4. CASE StoreRefreshed(c)
  <2>1. spCall[c].proxy \in Proxies /\ spCreds \in [Proxies -> Credentials \cup {NoCreds}]
        /\ spCreds[spCall[c].proxy] # NoCreds
    BY <1>4 DEF StoreRefreshed, ProxyInv, ProxyShape, Fits
  <2>2. spCreds[spCall[c].proxy] \in Credentials
    BY <2>1
  <2>3. [spCreds[spCall[c].proxy] EXCEPT !.tok = spCall[c].new].user = spCreds[spCall[c].proxy].user
    BY <2>2 DEF Credentials
  <2>4. spCreds' = [spCreds EXCEPT ![spCall[c].proxy] = [spCreds[spCall[c].proxy] EXCEPT !.tok = spCall[c].new]]
    BY <1>4 DEF StoreRefreshed, Refreshed
  <2>5. spCreds'[p].user = spCreds[p].user
    BY <2>1, <2>3, <2>4
  <2> QED
    BY <2>5
<1> QED
  BY <1>2, <1>3, <1>4

\* The part of MCNext the session proxy sees.
LEMMA ProxyParts == [MCNext]_MCVars => ProxyNext \/ UNCHANGED proxyVars
  BY DEF MCNext, MCVars

\* The session penguind keeps for the desktop, for every set of users, calls and
\* proxies: the stored token is the stored user's and the rotation flag tells how it
\* was obtained, unless a set_session overtook a refresh; a request is sent at most
\* twice; and no refresh changes whose session is stored.
THEOREM SessionIsOwnHolds == MCSpec => SessionIsOwn
<1>1. MCInit => ProxyInv
  BY ProxyInvInit DEF MCInit
<1>2. ProxyInv /\ [MCNext]_MCVars => ProxyInv'
  BY ProxyInvKept, ProxyParts
<1>3. ProxyInv => ProxyTypeOK /\ OwnToken /\ FlagExact
  <2> SUFFICES ASSUME ProxyInv PROVE ProxyTypeOK
    BY DEF ProxyInv
  <2>1. \A c \in Calls : spCall[c].sends \in 0..2
    BY DEF ProxyInv, ProxyShape, CallRecords
  <2> QED
    BY <2>1 DEF ProxyInv, ProxyShape, ProxyTypeOK
<1>4. ProxyInv /\ [MCNext]_MCVars =>
        [\A p \in Proxies :
           spCreds[p] # NoCreds /\ spCreds'[p].user # spCreds[p].user
             => \E c \in Calls : spCall[c].pc = "set" /\ spCall'[c].pc = "set flag"]_proxyVars
  BY UserKept, ProxyParts
<1> QED
  BY <1>1, <1>2, <1>3, <1>4, PTL DEF MCSpec, SessionIsOwn, RefreshKeepsUser

-----------------------------------------------------------------------------
(* The probe of the hub *)

\* The hub was in the state it is in until now; the cached state is not older than
\* its date, except for the cache before the first probe, which is never fresh.
ProbeInv ==
    /\ apNow \in 0..MaxTime /\ apHub \in HubStates
    /\ apLast \in [HubStates -> Int] /\ apLast[apHub] = apNow
    /\ \A s \in HubStates : apLast[s] <= apNow
    /\ apCache \in [state : HubStates, at : Int] /\ apCache.at >= -TTL /\ apCache.at <= apNow
    /\ apCache.at = -TTL \/ apCache.at <= apLast[apCache.state]
    /\ apAsker \in [Askers -> Int] /\ \A a \in Askers : apAsker[a] >= -1 /\ apAsker[a] <= apNow
    /\ apReport \in [state : HubStates, at : Int]
    /\ apReport.at - apLast[apReport.state] < TTL

LEMMA ProbeInvInit == ProbeInit => ProbeInv
  BY ProbeAssumption, SMTT(30) DEF ProbeInit, ProbeInv, HubStates

\* Every step of the probe keeps the invariant, and dates the cache no earlier.
LEMMA ProbeInvKept ==
    ASSUME ProbeInv, ProbeNext \/ UNCHANGED probeVars
    PROVE  ProbeInv' /\ apCache'.at >= apCache.at
<1> USE ProbeAssumption DEF ProbeInv
<1>1. CASE Tick
  BY <1>1, SMTT(30) DEF Tick
<1>2. ASSUME NEW s \in HubStates, HubChanges(s) PROVE ProbeInv' /\ apCache'.at >= apCache.at
  BY <1>2, SMTT(30) DEF HubChanges
<1>3. ASSUME NEW a \in Askers, AskCached(a) PROVE ProbeInv' /\ apCache'.at >= apCache.at
  <2>1. /\ UNCHANGED <<apNow, apHub, apLast, apCache, apAsker>>
        /\ apReport' = [state |-> apCache.state, at |-> apNow]
        /\ apNow - apCache.at < TTL
    BY <1>3 DEF AskCached, Fresh
  <2>2. apNow - apLast[apCache.state] < TTL
    BY <2>1
  <2>3. apReport' \in [state : HubStates, at : Int] /\ apReport'.state = apCache.state /\ apReport'.at = apNow
    BY <2>1
  <2> QED
    BY <2>1, <2>2, <2>3
<1>4. ASSUME NEW a \in Askers, AskHub(a) PROVE ProbeInv' /\ apCache'.at >= apCache.at
  BY <1>4 DEF AskHub
<1>5. ASSUME NEW a \in Askers, ProbeAnswered(a) PROVE ProbeInv' /\ apCache'.at >= apCache.at
  BY <1>5, SMTT(30) DEF ProbeAnswered, DatedNow
<1>6. CASE UNCHANGED probeVars
  BY <1>6 DEF probeVars
<1> QED
  BY <1>1, <1>2, <1>3, <1>4, <1>5, <1>6 DEF ProbeNext

LEMMA ProbeInvTells == ProbeInv => ProbeTypeOK /\ ReportIsRecent
  BY ProbeAssumption DEF ProbeInv, ProbeTypeOK, ReportIsRecent

-----------------------------------------------------------------------------
(* The bridge's start, stop and connections *)

ConnRecords ==
    [kind : {"none", "http", "ws", "unix"}, bridge : Nat, name : Integrations \cup {""},
     owner : Integrations \cup {""}, read : Nat, got : Nat]

\* What is up at each place of start and stop.  A TCP listener that a failed start
\* left behind keeps the port, so that there is one listener at most.
BridgeInv ==
    /\ brLife \in {"idle", "tcp", "unix", "stopping"} /\ brRunning \in BOOLEAN /\ brLate \in BOOLEAN
    /\ brGen \in 0..MaxBridges /\ brHandle \in 0..brGen
    /\ brTcp \subseteq 1..brGen /\ \A a, b \in brTcp : a = b
    /\ brUnix = {brHandle} \ {0} /\ brExec = brHandle
    /\ brHandle # 0 => brHandle \in brTcp
    /\ brLife = "idle" => (brRunning <=> brHandle # 0)
    /\ brLife \in {"tcp", "unix"} => brHandle = 0 /\ brGen \in 1..MaxBridges /\ brRunning
    /\ brLife = "unix" => brGen \in brTcp
    /\ brLife = "stopping" => brHandle # 0 /\ ~brRunning
    /\ ~brLate /\ brLife # "unix" => brTcp \subseteq {brHandle} \ {0}

ConnInv ==
    /\ brConn \in [Clients -> ConnRecords] /\ brEvents \in [Bridges -> Nat]
    /\ \A c \in Clients : brConn[c].kind \in {"http", "ws"} => brConn[c].name = brConn[c].owner
    /\ \A c \in Clients : brConn[c].kind = "ws" => brConn[c].bridge \in Bridges

LEMMA BridgeInvInit == BridgeInit => BridgeInv /\ ConnInv
<1> SUFFICES ASSUME BridgeInit PROVE BridgeInv /\ ConnInv
  OBVIOUS
<1>1. BridgeInv
  <2>1. brGen \in 0..MaxBridges /\ brHandle \in 0..brGen /\ brTcp = {} /\ brUnix = {} /\ brExec = 0
        /\ brHandle = 0 /\ brLife = "idle"
    BY BridgeAssumption DEF BridgeInit
  <2>2. brRunning \in BOOLEAN /\ brLate \in BOOLEAN /\ ~brRunning
    BY DEF BridgeInit
  <2> QED
    BY <2>1, <2>2 DEF BridgeInv
<1>2. Closed \in ConnRecords /\ Closed.kind = "none"
  BY DEF Closed, Conn, ConnRecords
<1>3. ConnInv
  BY <1>2 DEF BridgeInit, ConnInv
<1> QED
  BY <1>1, <1>3

lifeVars == <<brLife, brRunning, brGen, brTcp, brUnix, brHandle, brExec, brLate>>

\* Start and stop.
LEMMA LifeKept ==
    ASSUME BridgeInv, Start \/ StartTcp \/ StartUnix \/ Stop \/ Stopped \/ UNCHANGED lifeVars
    PROVE  BridgeInv'
<1> USE BridgeAssumption DEF BridgeInv
<1>1. CASE Start
  BY <1>1 DEF Start
<1>2. CASE StartTcp
  <2>1. CASE PortFree /\ brTcp' = brTcp \cup {brGen} /\ brLife' = "unix"
             /\ UNCHANGED <<brRunning, brGen, brUnix, brHandle, brExec, brLate>>
    BY <1>2, <2>1 DEF PortFree, StartTcp
  <2>2. CASE StartFails /\ UNCHANGED <<brTcp, brLate>>
    <3>1. brHandle' = 0 /\ brExec' = 0 /\ brLife' = "idle" /\ brUnix' = {} /\ brTcp' = brTcp
          /\ brGen' = brGen /\ brLate' = brLate
      BY <1>2, <2>2 DEF StartFails, StartTcp
    <3>2. brRunning' \in BOOLEAN /\ ~brRunning'
      BY <2>2 DEF StartFails
    <3> QED
      BY <1>2, <3>1, <3>2 DEF StartTcp
  <2> QED
    BY <1>2, <2>1, <2>2 DEF StartTcp
<1>3. CASE StartUnix
  <2>1. CASE /\ brUnix' = brUnix \cup {brGen} /\ brLife' = "idle" /\ brExec' = brGen /\ brHandle' = brGen
             /\ UNCHANGED <<brRunning, brGen, brTcp, brLate>>
    BY <1>3, <2>1 DEF StartUnix
  <2>2. CASE StartFails /\ brLate' = TRUE /\ UNCHANGED brTcp
    <3>1. brHandle' = 0 /\ brExec' = 0 /\ brLife' = "idle" /\ brUnix' = {} /\ brTcp' = brTcp /\ brGen' = brGen
      BY <1>3, <2>2 DEF StartFails, StartUnix
    <3>2. brRunning' \in BOOLEAN /\ ~brRunning' /\ brLate' \in BOOLEAN /\ brLate'
      BY <2>2 DEF StartFails
    <3> QED
      BY <1>3, <3>1, <3>2 DEF StartUnix
  <2> QED
    BY <1>3, <2>1, <2>2 DEF StartUnix, Keeps
<1>4. CASE Stop
  BY <1>4 DEF Stop
<1>5. CASE Stopped
  BY <1>5 DEF Stopped, Cancelled
<1>6. CASE UNCHANGED lifeVars
  BY <1>6 DEF lifeVars
<1> QED
  BY <1>1, <1>2, <1>3, <1>4, <1>5, <1>6

\* Connections: a token gives the name of its owner, and a client that goes on
\* reading events gets the next one.
LEMMA ConnKept ==
    ASSUME ConnInv, BridgeInv, BridgeNext \/ UNCHANGED bridgeVars
    PROVE  /\ ConnInv'
           /\ \A c \in Clients :
                brConn[c].kind = "ws" /\ brConn'[c].kind = "ws" /\ brConn'[c].read # brConn[c].read
                  => brConn'[c].read = brConn[c].read + 1 /\ brConn'[c].got = brConn[c].got + 1
<1> DEFINE NoGap == \A c \in Clients :
                brConn[c].kind = "ws" /\ brConn'[c].kind = "ws" /\ brConn'[c].read # brConn[c].read
                  => brConn'[c].read = brConn[c].read + 1 /\ brConn'[c].got = brConn[c].got + 1
<1>0. Closed \in ConnRecords /\ Closed.kind = "none"
  BY DEF Closed, Conn, ConnRecords
<1>a. brConn \in [Clients -> ConnRecords] /\ brEvents \in [Bridges -> Nat]
  BY DEF ConnInv
<1>b. ASSUME NEW c \in Clients, NEW k \in ConnRecords, brEvents' = brEvents,
             brConn' = [brConn EXCEPT ![c] = k],
             k.kind \in {"http", "ws"} => k.name = k.owner,
             k.kind = "ws" => k.bridge \in Bridges,
             brConn[c].kind = "ws" /\ k.kind = "ws" =>
               k.read = brConn[c].read + 1 /\ k.got = brConn[c].got + 1
      PROVE  ConnInv' /\ NoGap
  <2>1. brConn' \in [Clients -> ConnRecords] /\ brConn'[c] = k /\ \A d \in Clients \ {c} : brConn'[d] = brConn[d]
    BY <1>a, <1>b
  <2> QED
    BY <1>a, <1>b, <2>1 DEF ConnInv
<1>1. ASSUME NEW c \in Clients, NEW b \in Bridges, NEW name \in Integrations, NEW token \in Tokens,
             HttpRequest(c, b, name, token) \/ WsConnect(c, b, name, token)
      PROVE  ConnInv' /\ NoGap
  <2>1. token.name = name /\ brConn[c].kind = "none" /\ brEvents' = brEvents
    BY <1>0, <1>1 DEF HttpRequest, WsConnect, MayCall
  <2>2. b \in Nat /\ brEvents[b] \in Nat
    BY <1>a DEF Bridges
  <2>3. CASE brConn' = [brConn EXCEPT ![c] = Conn("http", b, name, token.name, 0)]
    <3> DEFINE k == Conn("http", b, name, token.name, 0)
    <3>1. k \in ConnRecords /\ k.kind = "http" /\ k.name = k.owner
      BY <2>1, <2>2 DEF Conn, ConnRecords
    <3> HIDE DEF k
    <3> QED
      BY <2>1, <2>3, <3>1, <1>b DEF k
  <2>4. CASE brConn' = [brConn EXCEPT ![c] = Conn("ws", b, name, token.name, brEvents[b])]
    <3> DEFINE k == Conn("ws", b, name, token.name, brEvents[b])
    <3>1. k \in ConnRecords /\ k.kind = "ws" /\ k.name = k.owner /\ k.bridge \in Bridges
      BY <2>1, <2>2 DEF Conn, ConnRecords
    <3> HIDE DEF k
    <3> QED
      BY <2>1, <2>4, <3>1, <1>b DEF k
  <2> QED
    BY <1>1, <2>3, <2>4 DEF HttpRequest, WsConnect
<1>2. ASSUME NEW c \in Clients, HttpAnswered(c) \/ Disconnects(c)
      PROVE  ConnInv' /\ NoGap
  BY <1>0, <1>2, <1>b DEF HttpAnswered, Disconnects
<1>3. ASSUME NEW c \in Clients, ForwardEvent(c)
      PROVE  ConnInv' /\ NoGap
  <2>1. brConn[c] \in ConnRecords /\ brConn[c].kind = "ws" /\ brEvents' = brEvents /\ brConn[c].bridge \in Bridges
        /\ brConn[c].name = brConn[c].owner
    BY <1>3, <1>a DEF ForwardEvent, ConnInv
  <2>2. CASE brConn' = [brConn EXCEPT ![c] = Closed]
    BY <1>0, <2>1, <2>2, <1>b
  <2>3. CASE brConn' = [brConn EXCEPT ![c] = [brConn[c] EXCEPT !.read = brConn[c].read + 1, !.got = brConn[c].got + 1]]
    <3> DEFINE k == [brConn[c] EXCEPT !.read = brConn[c].read + 1, !.got = brConn[c].got + 1]
    <3>a. brConn[c].read \in Nat /\ brConn[c].got \in Nat
      BY <2>1 DEF ConnRecords
    <3>0. brConn[c].read + 1 \in Nat /\ brConn[c].got + 1 \in Nat
      BY <3>a
    <3>1. k \in ConnRecords /\ k.kind = "ws" /\ k.name = k.owner /\ k.bridge \in Bridges
          /\ k.read = brConn[c].read + 1 /\ k.got = brConn[c].got + 1
      BY <2>1, <3>0 DEF ConnRecords
    <3> HIDE DEF k
    <3> QED
      BY <2>1, <2>3, <3>1, <1>b DEF k
  <2> QED
    BY <1>3, <2>2, <2>3 DEF ForwardEvent, Overrun
<1>4. ASSUME NEW c \in Clients, NEW b \in Bridges, UnixConnect(c, b)
      PROVE  ConnInv' /\ NoGap
  <2> DEFINE k == Conn("unix", b, "", "", 0)
  <2>1. k \in ConnRecords /\ k.kind = "unix"
    BY DEF Conn, ConnRecords, Bridges
  <2>2. brConn' = [brConn EXCEPT ![c] = k] /\ brEvents' = brEvents
    BY <1>4 DEF UnixConnect
  <2> HIDE DEF k
  <2> QED
    BY <2>1, <2>2, <1>b
<1>5. ASSUME NEW c \in Clients, NEW name \in Integrations, UnixRequest(c, name)
      PROVE  ConnInv' /\ NoGap
  <2> DEFINE k == [brConn[c] EXCEPT !.name = name, !.owner = name]
  <2>1. k \in ConnRecords /\ k.kind = "unix"
    BY <1>5, <1>a DEF ConnRecords, UnixRequest
  <2>2. brConn' = [brConn EXCEPT ![c] = k] /\ brEvents' = brEvents
    BY <1>5, <1>a DEF UnixRequest
  <2> HIDE DEF k
  <2> QED
    BY <2>1, <2>2, <1>b
<1>6. CASE brConn' = brConn /\ brEvents' \in [Bridges -> Nat]
  BY <1>6 DEF ConnInv
<1>7. CASE StartUnix \/ \E b \in Bridges : PublishEvent(b)
  <2>1. brConn' = brConn /\ brEvents' \in [Bridges -> Nat]
    BY <1>7, <1>a DEF StartUnix, StartFails, PublishEvent
  <2> QED
    BY <2>1, <1>6
<1>8. CASE Start \/ StartTcp \/ Stop \/ Stopped \/ UNCHANGED bridgeVars
  BY <1>8, <1>a, <1>6 DEF Start, StartTcp, StartFails, Stop, Stopped, bridgeVars
<1> QED
  BY <1>1, <1>2, <1>3, <1>4, <1>5, <1>7, <1>8 DEF BridgeNext

\* Every step of the bridge keeps both parts.
LEMMA BridgeInvKept ==
    ASSUME BridgeInv, ConnInv, BridgeNext \/ UNCHANGED bridgeVars
    PROVE  BridgeInv' /\ ConnInv'
<1>1. Start \/ StartTcp \/ StartUnix \/ Stop \/ Stopped \/ UNCHANGED lifeVars
  <2>1. ASSUME NEW c \in Clients, HttpAnswered(c) \/ ForwardEvent(c) \/ Disconnects(c)
        PROVE  UNCHANGED lifeVars
    BY <2>1 DEF lifeVars, HttpAnswered, ForwardEvent, Disconnects
  <2>2. ASSUME NEW c \in Clients, NEW b \in Bridges, NEW name \in Integrations, NEW token \in Tokens,
               HttpRequest(c, b, name, token) \/ WsConnect(c, b, name, token)
        PROVE  UNCHANGED lifeVars
    BY <2>2 DEF lifeVars, HttpRequest, WsConnect
  <2>3. ASSUME NEW c \in Clients, NEW b \in Bridges, UnixConnect(c, b) PROVE UNCHANGED lifeVars
    BY <2>3 DEF lifeVars, UnixConnect
  <2>4. ASSUME NEW c \in Clients, NEW name \in Integrations, UnixRequest(c, name) PROVE UNCHANGED lifeVars
    BY <2>4 DEF lifeVars, UnixRequest
  <2>5. ASSUME NEW b \in Bridges, PublishEvent(b) PROVE UNCHANGED lifeVars
    BY <2>5 DEF lifeVars, PublishEvent
  <2>6. UNCHANGED bridgeVars => UNCHANGED lifeVars
    BY DEF bridgeVars, lifeVars
  <2> QED
    BY <2>1, <2>2, <2>3, <2>4, <2>5, <2>6 DEF BridgeNext
<1> QED
  BY <1>1, LifeKept, ConnKept

\* A set of one element at most.
LEMMA AtMostOne ==
    ASSUME NEW S, \A a, b \in S : a = b
    PROVE  Cardinality(S) <= 1
<1>1. CASE S = {}
  BY <1>1, FS_EmptySet
<1>2. CASE S # {}
  <2>1. PICK a \in S : TRUE
    BY <1>2
  <2>2. S = {a}
    BY <2>1
  <2> QED
    BY <2>2, FS_Singleton
<1> QED
  BY <1>1, <1>2

LEMMA BridgeInvTells ==
    ASSUME BridgeInv, ConnInv
    PROVE  BridgeTypeOK /\ AllOrNothing /\ LeakOnlyIfLate /\ SpeaksForItself
<1>1. Cardinality(brTcp) <= 1 /\ Cardinality(brUnix) <= 1
  BY AtMostOne DEF BridgeInv
<1>2. BridgeTypeOK
  BY <1>1 DEF BridgeInv, BridgeTypeOK
<1>3. AllOrNothing /\ LeakOnlyIfLate
  BY DEF BridgeInv, AllOrNothing, LeakOnlyIfLate
<1>4. SpeaksForItself
  BY DEF ConnInv, SpeaksForItself
<1> QED
  BY <1>2, <1>3, <1>4

-----------------------------------------------------------------------------
(* The OBS adapter *)

Slots == {"open", "dropped", "ok", "rejected", "malformed"}
Callers == {"idle", "waiting", "refused", "not connected", "timeout", "ok", "rejected", "malformed"}

ObsShape ==
    /\ obConn \in {"connect", "hello", "identify", "serving", "ended"}
    /\ obQueue \in Seq(Requests) /\ obSlot \in [Requests -> Slots] /\ obCaller \in [Requests -> Callers]
    /\ obSent \subseteq Requests /\ obPending \subseteq obSent /\ obDid \subseteq obSent

\* A request in the channel was allowed, has not reached OBS and is in the channel
\* once; its slot is open.
QueueInv ==
    /\ \A i \in 1..Len(obQueue) :
         /\ obQueue[i] \notin obSent /\ MayRun(obQueue[i])
         /\ obCaller[obQueue[i]] \notin {"idle", "refused"} /\ obSlot[obQueue[i]] = "open"
    /\ \A i, j \in 1..Len(obQueue) : i # j => obQueue[i] # obQueue[j]

\* What a slot holds is what became of the request, and what a caller was told is
\* what its slot held.
SlotInv ==
    /\ \A r \in obPending : obSlot[r] = "open"
    /\ \A r \in obSent : MayRun(r) /\ obCaller[r] \notin {"idle", "refused"}
    /\ \A r \in Requests :
         /\ obSlot[r] = "ok" => r \in obDid
         /\ obSlot[r] = "rejected" => r \notin obDid
         /\ obCaller[r] = "ok" => obSlot[r] = "ok"
         /\ obCaller[r] = "rejected" => obSlot[r] = "rejected"
         /\ obCaller[r] = "idle" => obSlot[r] = "open"

ObsInv == ObsShape /\ QueueInv /\ SlotInv /\ NobodyForgotten

LEMMA ObsInvInit == ObsInit => ObsInv
  BY DEF ObsInit, ObsInv, ObsShape, QueueInv, SlotInv, NobodyForgotten, Slots, Callers

\* The end of the task empties the channel and the pending map, and tells every
\* request in them.
LEMMA EndKeeps ==
    ASSUME ObsInv, NEW error, NEW told, End(error, told), UNCHANGED <<obCaller, obSent, obDid>>
    PROVE  ObsInv'
<1>1. obConn' = "ended" /\ obQueue' = <<>> /\ obPending' = {}
  BY DEF End
<1>2. /\ obSlot' \in [Requests -> Slots]
      /\ \A r \in Requests : obSlot'[r] = IF r \in Dropped THEN "dropped" ELSE obSlot[r]
  BY DEF End, ObsInv, ObsShape, Slots
<1>3. \A r \in Dropped : obCaller[r] \notin {"idle", "refused"} /\ obSlot[r] = "open"
  BY DEF Dropped, ObsInv, ObsShape, QueueInv, SlotInv
<1>4. \A r \in Requests : r \in obPending \/ (\E i \in 1..Len(obQueue) : obQueue[i] = r) => r \in Dropped
  BY DEF Dropped
<1> HIDE DEF Dropped
<1>5. ObsShape'
  BY <1>1, <1>2 DEF ObsInv, ObsShape
<1>6. QueueInv'
  BY <1>1 DEF QueueInv
<1>7. SlotInv'
  BY <1>1, <1>2, <1>3 DEF ObsInv, ObsShape, SlotInv
<1>8. NobodyForgotten'
  BY <1>1, <1>2, <1>4 DEF ObsInv, NobodyForgotten
<1> QED
  BY <1>5, <1>6, <1>7, <1>8 DEF ObsInv

\* The connection's life: the handshake, and the ways it ends.
LEMMA ConnectionKeeps ==
    ASSUME ObsInv, UrlRefused \/ Connect \/ Hello \/ Identified \/ (\E error \in BOOLEAN : Disconnect(error))
    PROVE  ObsInv'
<1>1. CASE \E error, told : End(error, told) /\ UNCHANGED <<obCaller, obSent, obDid>>
  BY <1>1, EndKeeps
<1>2. CASE obConn' \in {"hello", "identify", "serving"} /\ UNCHANGED <<obQueue, obPending, obSlot, obCaller, obSent, obDid>>
  BY <1>2 DEF ObsInv, ObsShape, QueueInv, SlotInv, NobodyForgotten
<1> QED
  BY <1>1, <1>2 DEF UrlRefused, Connect, Hello, Identified, Disconnect, Fails

\* A command is queued or refused.
LEMMA ExecuteKeeps ==
    ASSUME ObsInv, NEW r \in Requests, ExecuteObs(r)
    PROVE  ObsInv'
<1>1. /\ obCaller[r] = "idle" /\ obSlot[r] = "open" /\ r \notin obSent
      /\ \A i \in 1..Len(obQueue) : obQueue[i] # r
      /\ UNCHANGED <<obConn, obPending, obSlot, obSent, obDid>>
  BY DEF ExecuteObs, ObsInv, ObsShape, SlotInv, QueueInv
<1>2. CASE MayRun(r) /\ Queue(r)
  <2>1. /\ obQueue' \in Seq(Requests) /\ Len(obQueue') = Len(obQueue) + 1 /\ Len(obQueue) \in Nat
        /\ obQueue'[Len(obQueue) + 1] = r
        /\ \A i \in 1..Len(obQueue) : obQueue'[i] = obQueue[i]
    BY <1>2 DEF Queue, ObsInv, ObsShape
  <2>2. /\ obCaller' \in [Requests -> Callers] /\ obCaller'[r] = "waiting"
        /\ \A q \in Requests \ {r} : obCaller'[q] = obCaller[q]
    BY <1>2 DEF Queue, ObsInv, ObsShape, Callers
  <2>3. ObsShape'
    BY <1>1, <2>1, <2>2 DEF ObsInv, ObsShape
  <2>4. \A i \in 1..Len(obQueue) : obQueue[i] \in Requests
    BY DEF ObsInv, ObsShape
  <2>5. QueueInv'
    BY <1>1, <1>2, <2>1, <2>2, <2>4 DEF ObsInv, QueueInv, MayRun
  <2>6. SlotInv'
    BY <1>1, <2>2 DEF ObsInv, ObsShape, SlotInv, MayRun
  <2>7. NobodyForgotten'
    BY <1>1, <2>1, <2>2 DEF ObsInv, NobodyForgotten
  <2> QED
    BY <2>3, <2>5, <2>6, <2>7 DEF ObsInv
<1>3. CASE /\ obCaller' = [obCaller EXCEPT ![r] =
                IF Registered /\ MayRun(r) /\ obConn = "ended" THEN "not connected" ELSE "refused"]
           /\ obQueue' = obQueue
  <2>1. /\ obCaller' \in [Requests -> Callers] /\ obCaller'[r] \in {"not connected", "refused"}
        /\ \A q \in Requests \ {r} : obCaller'[q] = obCaller[q]
    BY <1>3 DEF ObsInv, ObsShape, Callers
  <2>2. \A i \in 1..Len(obQueue) : obQueue[i] \in Requests
    BY DEF ObsInv, ObsShape
  <2> QED
    <3>1. ObsShape'
      BY <1>1, <1>3, <2>1 DEF ObsInv, ObsShape
    <3>2. QueueInv'
      BY <1>1, <1>3, <2>1, <2>2 DEF ObsInv, QueueInv, MayRun
    <3>3. SlotInv'
      BY <1>1, <2>1 DEF ObsInv, ObsShape, SlotInv, MayRun
    <3>4. NobodyForgotten'
      BY <1>1, <1>3, <2>1 DEF ObsInv, NobodyForgotten
    <3> QED
      BY <3>1, <3>2, <3>3, <3>4 DEF ObsInv
<1> QED
  BY <1>2, <1>3 DEF ExecuteObs

\* The head of the channel becomes pending and reaches OBS.
LEMMA ForwardKeepsObs ==
    ASSUME ObsInv, Forward
    PROVE  ObsInv'
<1>1. CASE Fails /\ UNCHANGED obSent
  BY <1>1, EndKeeps DEF Fails, Forward
<1>2. CASE /\ obQueue' = Tail(obQueue)
           /\ obPending' = obPending \cup {Head(obQueue)}
           /\ obSent' = obSent \cup {Head(obQueue)}
           /\ UNCHANGED <<obConn, obSlot, obError, obTold>>
  <2>1. obQueue \in Seq(Requests) /\ obQueue # <<>> /\ UNCHANGED <<obConn, obSlot, obCaller, obDid>>
    BY <1>2 DEF Forward, ObsInv, ObsShape
  <2>2. Len(obQueue) \in Nat \ {0} /\ Head(obQueue) = obQueue[1] /\ obQueue[1] \in Requests
    BY <2>1
  <2>3. /\ obQueue' \in Seq(Requests) /\ Len(obQueue') = Len(obQueue) - 1
        /\ \A i \in 1..Len(obQueue') : obQueue'[i] = obQueue[i + 1] /\ i + 1 \in 1..Len(obQueue)
    BY <1>2, <2>1, <2>2
  <2>4. \A i \in 1..Len(obQueue) : i = 1 \/ (i - 1 \in 1..Len(obQueue') /\ obQueue'[i - 1] = obQueue[i])
    BY <2>2, <2>3
  <2>5. ObsShape'
    BY <1>2, <2>1, <2>2, <2>3 DEF ObsInv, ObsShape
  <2>6. QueueInv'
    BY <1>2, <2>1, <2>2, <2>3 DEF ObsInv, QueueInv, MayRun
  <2>7. MayRun(obQueue[1]) /\ obCaller[obQueue[1]] \notin {"idle", "refused"} /\ obSlot[obQueue[1]] = "open"
    BY <2>2 DEF ObsInv, QueueInv
  <2>8. SlotInv'
    BY <1>2, <2>1, <2>2, <2>7 DEF ObsInv, SlotInv, MayRun
  <2>9. NobodyForgotten'
    <3> SUFFICES ASSUME NEW r \in Requests, obCaller'[r] = "waiting", obSlot'[r] = "open", r \notin obPending'
                 PROVE  \E i \in 1..Len(obQueue') : obQueue'[i] = r
      BY DEF NobodyForgotten
    <3>1. PICK i \in 1..Len(obQueue) : obQueue[i] = r
      BY <1>2, <2>1 DEF ObsInv, NobodyForgotten
    <3>2. i # 1
      BY <1>2, <2>2, <3>1
    <3> QED
      BY <2>4, <3>1, <3>2
  <2> QED
    BY <2>5, <2>6, <2>8, <2>9 DEF ObsInv
<1> QED
  BY <1>1, <1>2 DEF Forward, Rest

\* OBS acts, answers, and the caller wakes.
LEMMA AnswerKeeps ==
    ASSUME ObsInv, NEW r \in Requests, NEW result \in {"ok", "rejected", "malformed"},
           ObsActs(r) \/ Response(r, result) \/ Resume(r)
    PROVE  ObsInv'
<1>0. \A i \in 1..Len(obQueue) : obQueue[i] \in Requests
  BY DEF ObsInv, ObsShape
<1>1. CASE ObsActs(r)
  BY <1>0, <1>1 DEF ObsActs, ObsInv, ObsShape, QueueInv, SlotInv, NobodyForgotten, MayRun
<1>2. CASE Response(r, result)
  <2>1. /\ r \in obPending /\ r \in obSent /\ obPending' = obPending \ {r}
        /\ UNCHANGED <<obConn, obQueue, obCaller, obSent, obDid>>
        /\ result = "ok" => r \in obDid
        /\ result = "rejected" => r \notin obDid
    BY <1>2 DEF Response
  <2>2. /\ obSlot' \in [Requests -> Slots] /\ obSlot'[r] = result
        /\ \A q \in Requests \ {r} : obSlot'[q] = obSlot[q]
    BY <1>2, <2>1 DEF Response, Answered, ObsInv, ObsShape, Slots
  <2>3. ObsShape'
    BY <2>1, <2>2 DEF ObsInv, ObsShape
  <2>4. QueueInv'
    BY <1>0, <2>1, <2>2 DEF ObsInv, QueueInv, MayRun
  <2>5. SlotInv'
    BY <2>1, <2>2 DEF ObsInv, ObsShape, SlotInv, MayRun
  <2>6. NobodyForgotten'
    BY <2>1, <2>2 DEF ObsInv, NobodyForgotten
  <2> QED
    BY <2>3, <2>4, <2>5, <2>6 DEF ObsInv
<1>3. CASE Resume(r)
  <2>1. obCaller[r] = "waiting" /\ UNCHANGED <<obConn, obQueue, obPending, obSlot, obSent, obDid>>
    BY <1>3 DEF Resume
  <2>2. /\ obCaller' \in [Requests -> Callers]
        /\ \A q \in Requests \ {r} : obCaller'[q] = obCaller[q]
        /\ \/ obCaller'[r] \in {"not connected", "timeout"}
           \/ obCaller'[r] = obSlot[r] /\ obSlot[r] \in {"ok", "rejected", "malformed"}
    <3> DEFINE told == CASE obSlot[r] = "dropped" -> "not connected"
                         [] obSlot[r] = "open" -> "timeout"
                         [] OTHER -> obSlot[r]
    <3>1. obSlot[r] \in Slots /\ obCaller \in [Requests -> Callers]
      BY DEF ObsInv, ObsShape
    <3>2. told \in {"not connected", "timeout"} \/ (told = obSlot[r] /\ obSlot[r] \in {"ok", "rejected", "malformed"})
      BY <3>1 DEF Slots
    <3>3. told \in Callers
      BY <3>2 DEF Callers
    <3>4. obCaller' = [obCaller EXCEPT ![r] = told]
      BY <1>3 DEF Resume
    <3> HIDE DEF told
    <3> QED
      BY <3>1, <3>2, <3>3, <3>4
  <2>3. ObsShape'
    BY <2>1, <2>2 DEF ObsInv, ObsShape
  <2>4. QueueInv'
    BY <1>0, <2>1, <2>2 DEF ObsInv, QueueInv, MayRun
  <2>5. SlotInv'
    BY <2>1, <2>2 DEF ObsInv, ObsShape, SlotInv, MayRun
  <2>6. NobodyForgotten'
    BY <2>1, <2>2 DEF ObsInv, NobodyForgotten
  <2> QED
    BY <2>3, <2>4, <2>5, <2>6 DEF ObsInv
<1> QED
  BY <1>1, <1>2, <1>3

\* Every step of the adapter keeps the invariant.
LEMMA ObsInvKept ==
    ASSUME ObsInv, ObsNext \/ UNCHANGED obsVars
    PROVE  ObsInv'
<1>1. CASE UNCHANGED <<obConn, obQueue, obPending, obSlot, obCaller, obSent, obDid>>
  BY <1>1 DEF ObsInv, ObsShape, QueueInv, SlotInv, NobodyForgotten, MayRun
<1>2. CASE ExecuteWebhook \/ HookReached \/ HookEnds \/ StopBridge \/ UNCHANGED obsVars
  BY <1>1, <1>2 DEF ExecuteWebhook, HookReached, HookEnds, StopBridge, obsVars
<1>3. CASE UrlRefused \/ Connect \/ Hello \/ Identified \/ \E error \in BOOLEAN : Disconnect(error)
  BY <1>3, ConnectionKeeps
<1>4. CASE Forward
  BY <1>4, ForwardKeepsObs
<1>5. ASSUME NEW r \in Requests,
             ExecuteObs(r) \/ ObsActs(r) \/ Resume(r) \/ \E result \in {"ok", "rejected", "malformed"} : Response(r, result)
      PROVE  ObsInv'
  BY <1>5, ExecuteKeeps, AnswerKeeps
<1> QED
  BY <1>2, <1>3, <1>4, <1>5 DEF ObsNext

LEMMA ObsInvTells ==
    ASSUME ObsInv
    PROVE  ObsTypeOK /\ AnswerIsTrue /\ OnlyAllowedReachesObs /\ NobodyForgotten
<1>1. ObsTypeOK
  BY DEF ObsInv, ObsShape, QueueInv, ObsTypeOK, Slots, Callers
<1>2. AnswerIsTrue
  BY DEF ObsInv, ObsShape, SlotInv, AnswerIsTrue
<1>3. OnlyAllowedReachesObs
  BY DEF ObsInv, SlotInv, OnlyAllowedReachesObs, MayRun
<1> QED
  BY <1>1, <1>2, <1>3 DEF ObsInv

-----------------------------------------------------------------------------
\* The bridge and its OBS adapter, for every set of clients, requests and allow lists
\* and any number of starts: start and stop are all or nothing, a listener is left
\* behind only by a start that failed after its TCP listener was up, a client speaks
\* for itself and gets its events without a gap; what OBS is sent was allowed, what a
\* caller is told is true, and no waiting caller is forgotten.
THEOREM BridgeSound == MCSpec => BridgeIsSound
<1> DEFINE Inv == ObsInv /\ BridgeInv /\ ConnInv
<1>1. MCInit => Inv
  BY ObsInvInit, BridgeInvInit DEF MCInit
<1>2. [MCNext]_MCVars => (ObsNext \/ UNCHANGED obsVars) /\ (BridgeNext \/ UNCHANGED bridgeVars)
  BY DEF MCNext, MCVars
<1>3. Inv /\ [MCNext]_MCVars => Inv'
  BY <1>2, ObsInvKept, BridgeInvKept
<1>4. Inv => /\ ObsTypeOK /\ AnswerIsTrue /\ OnlyAllowedReachesObs /\ NobodyForgotten
             /\ BridgeTypeOK /\ AllOrNothing /\ LeakOnlyIfLate /\ SpeaksForItself
  BY ObsInvTells, BridgeInvTells
<1>5. Inv /\ [MCNext]_MCVars =>
        [\A c \in Clients :
           brConn[c].kind = "ws" /\ brConn'[c].kind = "ws" /\ brConn'[c].read # brConn[c].read
             => brConn'[c].read = brConn[c].read + 1 /\ brConn'[c].got = brConn[c].got + 1]_bridgeVars
  BY <1>2, ConnKept
<1> QED
  BY <1>1, <1>3, <1>4, <1>5, PTL DEF MCSpec, BridgeIsSound, EventsHaveNoGap

-----------------------------------------------------------------------------
(* The commands *)

Entries == CommandTree \cup Operations

\* What the commands have in common: two hub calls at most, and two only for
\* `token rotate`, which revokes first; `community use` makes none.
CallsOK(name, calls) ==
    /\ Len(calls) \in Nat
    /\ Len(calls) \in {0, 1} \/ (Len(calls) = 2 /\ name = "token rotate" /\ calls[1] = "revoke_cat")
    /\ name = "community use" => calls = <<>>
EntryOK(e) == CallsOK(e.name, e.calls)

LEMMA EntriesOK == \A e \in Entries : EntryOK(e)
<1>0. ASSUME NEW name, NEW needs, NEW calls, CallsOK(name, calls) PROVE EntryOK(Entry(name, needs, calls))
  <2>1. Entry(name, needs, calls).name = name /\ Entry(name, needs, calls).calls = calls
    BY DEF Entry
  <2> QED
    BY <1>0, <2>1 DEF EntryOK
<1>1. ASSUME NEW name PROVE CallsOK(name, <<>>)
  BY DEF CallsOK
<1>2. ASSUME NEW name, NEW call, name # "community use" PROVE CallsOK(name, <<call>>)
  BY <1>2 DEF CallsOK
<1>3. CallsOK("token rotate", <<"revoke_cat", "create_cat">>)
  BY DEF CallsOK
<1>4. \A name, needs : EntryOK(Entry(name, needs, <<>>))
  BY <1>0, <1>1
<1>5. \A name, needs, call : name # "community use" => EntryOK(Entry(name, needs, <<call>>))
  BY <1>0, <1>2
<1>6. \A needs : EntryOK(Entry("token rotate", needs, <<"revoke_cat", "create_cat">>))
  BY <1>0, <1>3
<1>7. \A e \in StatusCommand \cup CommunityCommands \cup MusicSettings \cup MusicProvider : EntryOK(e)
  BY <1>4, <1>5 DEF StatusCommand, CommunityCommands, MusicSettings, MusicProvider
<1>8. \A e \in MusicStation \cup BrowserSources \cup TokenReads \cup TokenCreate \cup TokenRevoke : EntryOK(e)
  BY <1>5 DEF MusicStation, BrowserSources, TokenReads, TokenCreate, TokenRevoke
<1>9. \A e \in TokenRotate \cup AnnounceReads \cup AnnounceWrites : EntryOK(e)
  BY <1>5, <1>6 DEF TokenRotate, AnnounceReads, AnnounceWrites
<1>10. \A e \in Workflow \cup Loyalty : EntryOK(e)
  BY <1>5 DEF Workflow, Loyalty
<1>11. \A e \in RelayReads \cup RelayMusic \cup RelayAnnouncement : EntryOK(e)
  BY <1>5 DEF RelayReads, RelayMusic, RelayAnnouncement
<1> QED
  BY <1>7, <1>8, <1>9, <1>10, <1>11 DEF Entries, CommandTree, Operations

LEMMA EntryCalls == \A e \in Entries : Len(e.calls) \in Nat
<1>1. ASSUME NEW name, NEW calls, CallsOK(name, calls) PROVE Len(calls) \in Nat
  BY <1>1, Zenon DEF CallsOK
<1> QED
  BY <1>1, EntriesOK DEF EntryOK

Arguments == UNION {e.needs : e \in Entries}

RunRecords ==
    [entry : Entries, missing : SUBSET Arguments, client : Communities, next : Nat, code : {-1, 0, 1},
     pc : {"usage", "calling", "switched", "exited"}]

CommandShape ==
    /\ hcClient \in Communities /\ hcCommunity \in Communities
    /\ hcRun \in [Runs -> RunRecords \cup {NotRun}]
    /\ hcHub \subseteq [run : Runs, call : Nat, in : Communities]
    /\ hcLost \subseteq Runs /\ hcOverlap \in BOOLEAN

\* How far each invocation is, and what that says of its exit.
RunFits(r) ==
    LET k == hcRun[r] IN
    k # NotRun =>
      /\ k.next >= 1 /\ k.next <= Len(k.entry.calls) + 1
      /\ k.pc = "usage" => k.next = 1
      /\ k.pc = "calling" \/ k.next > 1 => k.missing = {}
      /\ k.pc = "switched" => k.entry.calls = <<>>
      /\ k.pc = "exited" /\ k.code = 0 => k.next = Len(k.entry.calls) + 1 /\ r \notin hcLost
      /\ k.pc = "exited" /\ k.code = 1 => k.next = 1 \/ k.next <= Len(k.entry.calls)
      /\ r \in hcLost => k.pc = "exited" /\ k.code = 1 /\ k.next <= Len(k.entry.calls) /\ k.missing = {}

\* The hub has carried out the calls before the next one, in the community of the
\* invocation's client, and the next one too when its answer was lost.
HubFits ==
    /\ \A h \in hcHub :
         /\ hcRun[h.run] # NotRun /\ h.in = hcRun[h.run].client
         /\ h.call >= 1 /\ h.call <= Len(hcRun[h.run].entry.calls)
         /\ h.call < hcRun[h.run].next \/ (h.call = hcRun[h.run].next /\ h.run \in hcLost)
    /\ \A r \in Runs : hcRun[r] # NotRun =>
         \A i \in 1..(hcRun[r].next - 1) : [run |-> r, call |-> i, in |-> hcRun[r].client] \in hcHub
    /\ \A r \in hcLost : hcRun[r] # NotRun

SwitchFits ==
    ~hcOverlap =>
      /\ \A r, q \in Runs : Switching(r) /\ Switching(q) => r = q
      /\ \A r \in Runs : Switching(r) => hcClient = hcRun[r].client
      /\ (\A r \in Runs : ~Switching(r)) => hcClient = hcCommunity

CommandInv == CommandShape /\ (\A r \in Runs : RunFits(r)) /\ HubFits /\ SwitchFits

LEMMA CommandInvInit == CommandInit => CommandInv
<1> SUFFICES ASSUME CommandInit PROVE CommandInv
  OBVIOUS
<1>1. CommandShape
  BY DEF CommandInit, CommandShape
<1>2. \A r \in Runs : RunFits(r)
  BY DEF CommandInit, RunFits
<1>3. HubFits
  BY DEF CommandInit, HubFits
<1>4. SwitchFits
  BY DEF CommandInit, SwitchFits, Switching, NotRun
<1> QED
  BY <1>1, <1>2, <1>3, <1>4 DEF CommandInv

LEMMA RunRecordsRun == \A k \in RunRecords : k # NotRun
  BY DEF RunRecords, NotRun

\* An invocation that is somewhere has a record.
LEMMA Started ==
    ASSUME CommandInv, NEW r \in Runs, hcRun[r].pc # "idle"
    PROVE  hcRun[r] \in RunRecords /\ RunFits(r) /\ hcRun[r] # NotRun
  BY DEF CommandInv, CommandShape, NotRun

\* A step that replaces one invocation's record and leaves alone what the hub did.
LEMMA RunMoves ==
    ASSUME CommandInv, NEW r \in Runs, NEW k \in RunRecords, hcRun' = [hcRun EXCEPT ![r] = k]
    PROVE  /\ hcRun' \in [Runs -> RunRecords \cup {NotRun}] /\ hcRun'[r] = k
           /\ \A q \in Runs \ {r} : hcRun'[q] = hcRun[q]
  BY DEF CommandInv, CommandShape

\* Such a step, when it is no half of a switch.
LEMMA NoSwitch ==
    ASSUME CommandInv, NEW r \in Runs, NEW k \in RunRecords, hcRun' = [hcRun EXCEPT ![r] = k],
           hcRun[r].pc # "switched", k.pc # "switched", UNCHANGED <<hcClient, hcCommunity, hcOverlap>>
    PROVE  SwitchFits'
<1>1. \A q \in Runs : (Switching(q)' <=> Switching(q)) /\ (Switching(q) => hcRun'[q] = hcRun[q])
  BY RunMoves DEF Switching
<1> QED
  BY <1>1 DEF SwitchFits, CommandInv

\* dispatch.
LEMMA DispatchKeeps ==
    ASSUME CommandInv, NEW r \in Runs, NEW e \in Entries, NEW missing \in {{}} \cup {{n} : n \in e.needs},
           Dispatch(r, e, missing)
    PROVE  CommandInv'
<1> DEFINE k == [entry |-> e, missing |-> missing, client |-> hcClient, next |-> 1, code |-> -1,
                 pc |-> IF Complete(e, missing) THEN "calling" ELSE "usage"]
<1>1. hcRun[r] = NotRun /\ hcRun' = [hcRun EXCEPT ![r] = k]
      /\ UNCHANGED <<hcClient, hcCommunity, hcHub, hcLost, hcOverlap>>
  BY DEF Dispatch
<1>2. missing \in SUBSET Arguments
  BY DEF Arguments
<1>3. hcClient \in Communities
  BY DEF CommandInv, CommandShape
<1>4. k \in RunRecords /\ k.next = 1 /\ k.missing = missing /\ k.entry = e /\ k.pc \in {"calling", "usage"}
      /\ (k.pc = "calling" => Complete(e, missing))
  BY <1>2, <1>3 DEF RunRecords
<1>5. Complete(e, missing) => missing = {}
  BY DEF Complete
<1>6. Len(e.calls) \in Nat
  BY EntryCalls
<1> HIDE DEF k
<1>7. /\ hcRun' \in [Runs -> RunRecords \cup {NotRun}] /\ hcRun'[r] = k
      /\ \A q \in Runs \ {r} : hcRun'[q] = hcRun[q]
  BY <1>1, <1>4, RunMoves
<1>8. r \notin hcLost /\ \A h \in hcHub : h.run \in Runs \ {r}
  BY <1>1 DEF CommandInv, CommandShape, HubFits
<1>9. CommandShape'
  BY <1>1, <1>7 DEF CommandInv, CommandShape
<1>10. \A q \in Runs : RunFits(q)'
  BY <1>1, <1>4, <1>5, <1>6, <1>7, <1>8 DEF CommandInv, RunFits
<1>11. HubFits'
  <2>1. \A i \in 1..(k.next - 1) : FALSE
    BY <1>4
  <2>2. hcHub' = hcHub /\ hcLost' = hcLost
    BY <1>1
  <2>3. k # NotRun
    BY <1>4, RunRecordsRun
  <2> QED
    BY <1>7, <1>8, <2>1, <2>2, <2>3 DEF CommandInv, CommandShape, HubFits
<1>12. hcRun[r].pc # "switched"
  BY <1>1 DEF NotRun
<1>13. SwitchFits'
  BY <1>1, <1>4, <1>12, NoSwitch
<1> QED
  BY <1>9, <1>10, <1>11, <1>13 DEF CommandInv

\* The record of an invocation that exits.
LEMMA ExitRecord ==
    ASSUME NEW k \in RunRecords, NEW code \in {0, 1}
    PROVE  LET x == [k EXCEPT !.pc = "exited", !.code = code] IN
           /\ x \in RunRecords /\ x.pc = "exited" /\ x.code = code /\ x.entry = k.entry
           /\ x.missing = k.missing /\ x.client = k.client /\ x.next = k.next
  BY DEF RunRecords

\* An invocation exits, and no call is carried out by that.
LEMMA ExitKeeps ==
    ASSUME CommandInv, NEW r \in Runs, NEW code \in {0, 1}, Exit(r, code),
           hcRun[r].pc \in {"usage", "calling"},
           code = 0 => hcRun[r].next = Len(hcRun[r].entry.calls) + 1,
           code = 1 => hcRun[r].next = 1 \/ hcRun[r].next <= Len(hcRun[r].entry.calls),
           UNCHANGED <<hcClient, hcCommunity, hcHub, hcLost, hcOverlap>>
    PROVE  CommandInv'
<1> DEFINE k == [hcRun[r] EXCEPT !.pc = "exited", !.code = code]
<1>1. hcRun[r] \in RunRecords /\ RunFits(r) /\ hcRun[r] # NotRun
  BY Started
<1>2. /\ k \in RunRecords /\ k.pc = "exited" /\ k.code = code /\ k.entry = hcRun[r].entry
      /\ k.missing = hcRun[r].missing /\ k.client = hcRun[r].client /\ k.next = hcRun[r].next
  BY <1>1, ExitRecord
<1>3. hcRun' = [hcRun EXCEPT ![r] = k]
  BY DEF Exit
<1> HIDE DEF k
<1>4. /\ hcRun' \in [Runs -> RunRecords \cup {NotRun}] /\ hcRun'[r] = k
      /\ \A q \in Runs \ {r} : hcRun'[q] = hcRun[q]
  BY <1>2, <1>3, RunMoves
<1>5. r \notin hcLost
  BY <1>1 DEF RunFits
<1>6. CommandShape'
  BY <1>4 DEF CommandInv, CommandShape
<1>7. \A q \in Runs : RunFits(q)'
  <2> TAKE q \in Runs
  <2>1. CASE q = r
    BY <2>1, <1>1, <1>2, <1>4, <1>5 DEF RunFits
  <2>2. CASE q # r
    BY <2>2, <1>4 DEF CommandInv, RunFits
  <2> QED
    BY <2>1, <2>2
<1>8. k # NotRun
  BY <1>2, RunRecordsRun
<1>9. HubFits'
  BY <1>1, <1>2, <1>4, <1>8 DEF CommandInv, CommandShape, HubFits
<1>10. SwitchFits'
  BY <1>2, <1>3, NoSwitch
<1> QED
  BY <1>6, <1>7, <1>9, <1>10 DEF CommandInv

\* A hub call that is carried out and answered.
LEMMA CarriedKeeps ==
    ASSUME CommandInv, NEW r \in Runs, hcRun[r].pc = "calling", hcRun[r].next <= Len(hcRun[r].entry.calls),
           Carry(r), hcRun' = [hcRun EXCEPT ![r].next = @ + 1],
           UNCHANGED <<hcClient, hcCommunity, hcLost, hcOverlap>>
    PROVE  CommandInv'
<1> DEFINE k == [hcRun[r] EXCEPT !.next = @ + 1]
<1> DEFINE new == [run |-> r, call |-> hcRun[r].next, in |-> hcRun[r].client]
<1>1. hcRun[r] \in RunRecords /\ RunFits(r) /\ hcRun[r] # NotRun
  BY Started
<1>2. hcRun[r].next \in Nat /\ hcRun[r].next >= 1 /\ hcRun[r].client \in Communities
      /\ Len(hcRun[r].entry.calls) \in Nat
  <2>1. hcRun[r].entry \in Entries
    BY <1>1 DEF RunRecords
  <2>2. Len(hcRun[r].entry.calls) \in Nat
    BY <2>1, EntryCalls
  <2>3. hcRun[r].next \in Nat /\ hcRun[r].client \in Communities
    BY <1>1 DEF RunRecords
  <2> QED
    BY <2>2, <2>3, <1>1 DEF RunFits
<1>3. hcRun[r].next + 1 \in Nat
  BY <1>2
<1>4. /\ k \in RunRecords /\ k.pc = "calling" /\ k.entry = hcRun[r].entry /\ k.code = hcRun[r].code
      /\ k.missing = hcRun[r].missing /\ k.client = hcRun[r].client /\ k.next = hcRun[r].next + 1
  BY <1>1, <1>3 DEF RunRecords
<1>5. hcRun' = [hcRun EXCEPT ![r] = k] /\ hcHub' = hcHub \cup {new}
  BY DEF Carry, CallsIn, CommandInv, CommandShape
<1>6. new \in [run : Runs, call : Nat, in : Communities] /\ new.run = r /\ new.call = hcRun[r].next
      /\ new.in = hcRun[r].client
  BY <1>2
<1> HIDE DEF k
<1>7. /\ hcRun' \in [Runs -> RunRecords \cup {NotRun}] /\ hcRun'[r] = k
      /\ \A q \in Runs \ {r} : hcRun'[q] = hcRun[q]
  BY <1>4, <1>5, RunMoves
<1>8. r \notin hcLost
  BY <1>1 DEF RunFits
<1>9. k # NotRun
  BY <1>4, RunRecordsRun
<1>10. CommandShape'
  BY <1>5, <1>6, <1>7 DEF CommandInv, CommandShape
<1>11. \A q \in Runs : RunFits(q)'
  <2> TAKE q \in Runs
  <2>1. CASE q = r
    BY <2>1, <1>1, <1>2, <1>4, <1>7, <1>8 DEF RunFits
  <2>2. CASE q # r
    BY <2>2, <1>7 DEF CommandInv, RunFits
  <2> QED
    BY <2>1, <2>2
<1>12. HubFits'
  <2>1. ASSUME NEW h \in hcHub'
        PROVE  /\ hcRun'[h.run] # NotRun /\ h.in = hcRun'[h.run].client
               /\ h.call >= 1 /\ h.call <= Len(hcRun'[h.run].entry.calls)
               /\ h.call < hcRun'[h.run].next \/ (h.call = hcRun'[h.run].next /\ h.run \in hcLost')
    <3>1. CASE h = new
      BY <3>1, <1>2, <1>4, <1>6, <1>7, <1>9
    <3>2. CASE h \in hcHub /\ h.run = r
      <4>1. h.in = hcRun[r].client /\ h.call >= 1 /\ h.call < hcRun[r].next /\ h.call \in Nat
            /\ h.call <= Len(hcRun[r].entry.calls)
        BY <3>2, <1>8 DEF CommandInv, CommandShape, HubFits
      <4> QED
        BY <3>2, <4>1, <1>2, <1>4, <1>7, <1>9
    <3>3. CASE h \in hcHub /\ h.run # r
      BY <3>3, <1>7 DEF CommandInv, CommandShape, HubFits
    <3> QED
      BY <1>5, <3>1, <3>2, <3>3
  <2>2. ASSUME NEW q \in Runs, hcRun'[q] # NotRun, NEW i \in 1..(hcRun'[q].next - 1)
        PROVE  [run |-> q, call |-> i, in |-> hcRun'[q].client] \in hcHub'
    <3>1. CASE q # r
      BY <2>2, <3>1, <1>5, <1>7 DEF CommandInv, HubFits
    <3>2. CASE q = r /\ i = hcRun[r].next
      BY <3>2, <1>4, <1>5, <1>7
    <3>3. CASE q = r /\ i # hcRun[r].next
      <4>1. i \in 1..(hcRun[r].next - 1)
        BY <2>2, <3>3, <1>2, <1>4, <1>7
      <4>2. [run |-> r, call |-> i, in |-> hcRun[r].client] \in hcHub
        BY <1>1, <4>1 DEF CommandInv, HubFits
      <4> QED
        BY <3>3, <4>2, <1>4, <1>5, <1>7
    <3> QED
      BY <3>1, <3>2, <3>3
  <2>3. \A q \in hcLost' : hcRun'[q] # NotRun
    BY <1>7, <1>8 DEF CommandInv, CommandShape, HubFits
  <2> QED
    BY <2>1, <2>2, <2>3 DEF HubFits
<1>13. SwitchFits'
  BY <1>4, <1>5, NoSwitch
<1> QED
  BY <1>10, <1>11, <1>12, <1>13 DEF CommandInv

\* A hub call that is carried out and its answer lost.
LEMMA LostKeeps ==
    ASSUME CommandInv, NEW r \in Runs, hcRun[r].pc = "calling", hcRun[r].next <= Len(hcRun[r].entry.calls),
           Carry(r), Exit(r, 1), hcLost' = hcLost \cup {r},
           UNCHANGED <<hcClient, hcCommunity, hcOverlap>>
    PROVE  CommandInv'
<1> DEFINE k == [hcRun[r] EXCEPT !.pc = "exited", !.code = 1]
<1> DEFINE new == [run |-> r, call |-> hcRun[r].next, in |-> hcRun[r].client]
<1>1. hcRun[r] \in RunRecords /\ RunFits(r) /\ hcRun[r] # NotRun
  BY Started
<1>2. hcRun[r].next \in Nat /\ hcRun[r].next >= 1 /\ hcRun[r].client \in Communities /\ hcRun[r].missing = {}
  <2>1. hcRun[r].next \in Nat /\ hcRun[r].client \in Communities
    BY <1>1 DEF RunRecords
  <2> QED
    BY <2>1, <1>1 DEF RunFits
<1>3. /\ k \in RunRecords /\ k.pc = "exited" /\ k.code = 1 /\ k.entry = hcRun[r].entry
      /\ k.missing = hcRun[r].missing /\ k.client = hcRun[r].client /\ k.next = hcRun[r].next
  BY <1>1, ExitRecord
<1>4. hcRun' = [hcRun EXCEPT ![r] = k] /\ hcHub' = hcHub \cup {new}
  BY DEF Carry, CallsIn, Exit
<1>5. new \in [run : Runs, call : Nat, in : Communities] /\ new.run = r /\ new.call = hcRun[r].next
      /\ new.in = hcRun[r].client
  BY <1>2
<1> HIDE DEF k
<1>6. /\ hcRun' \in [Runs -> RunRecords \cup {NotRun}] /\ hcRun'[r] = k
      /\ \A q \in Runs \ {r} : hcRun'[q] = hcRun[q]
  BY <1>3, <1>4, RunMoves
<1>7. k # NotRun
  BY <1>3, RunRecordsRun
<1>8. CommandShape'
  BY <1>4, <1>5, <1>6 DEF CommandInv, CommandShape
<1>9. \A q \in Runs : RunFits(q)'
  <2> TAKE q \in Runs
  <2>1. CASE q = r
    BY <2>1, <1>1, <1>2, <1>3, <1>6 DEF RunFits
  <2>2. CASE q # r
    BY <2>2, <1>6 DEF CommandInv, RunFits
  <2> QED
    BY <2>1, <2>2
<1>10. HubFits'
  <2>1. ASSUME NEW h \in hcHub'
        PROVE  /\ hcRun'[h.run] # NotRun /\ h.in = hcRun'[h.run].client
               /\ h.call >= 1 /\ h.call <= Len(hcRun'[h.run].entry.calls)
               /\ h.call < hcRun'[h.run].next \/ (h.call = hcRun'[h.run].next /\ h.run \in hcLost')
    <3>1. CASE h = new
      BY <3>1, <1>2, <1>3, <1>5, <1>6, <1>7
    <3>2. CASE h \in hcHub /\ h.run = r
      <4>1. h.in = hcRun[r].client /\ h.call >= 1 /\ h.call <= Len(hcRun[r].entry.calls)
            /\ (h.call < hcRun[r].next \/ h.call = hcRun[r].next)
        BY <3>2 DEF CommandInv, HubFits
      <4> QED
        BY <3>2, <4>1, <1>3, <1>6, <1>7
    <3>3. CASE h \in hcHub /\ h.run # r
      BY <3>3, <1>6 DEF CommandInv, CommandShape, HubFits
    <3> QED
      BY <1>4, <3>1, <3>2, <3>3
  <2>2. ASSUME NEW q \in Runs, hcRun'[q] # NotRun, NEW i \in 1..(hcRun'[q].next - 1)
        PROVE  [run |-> q, call |-> i, in |-> hcRun'[q].client] \in hcHub'
    <3>1. CASE q # r
      BY <2>2, <3>1, <1>4, <1>6 DEF CommandInv, HubFits
    <3>2. CASE q = r
      <4>1. [run |-> r, call |-> i, in |-> hcRun[r].client] \in hcHub
        BY <2>2, <3>2, <1>1, <1>3, <1>6 DEF CommandInv, HubFits
      <4> QED
        BY <3>2, <4>1, <1>3, <1>4, <1>6
    <3> QED
      BY <3>1, <3>2
  <2>3. \A q \in hcLost' : hcRun'[q] # NotRun
    BY <1>6, <1>7 DEF CommandInv, CommandShape, HubFits
  <2> QED
    BY <2>1, <2>2, <2>3 DEF HubFits
<1>11. SwitchFits'
  BY <1>3, <1>4, NoSwitch
<1> QED
  BY <1>8, <1>9, <1>10, <1>11 DEF CommandInv

\* The two halves of set_community.
LEMMA SwitchClientKeeps ==
    ASSUME CommandInv, NEW r \in Runs, NEW id \in Communities, SwitchClient(r, id)
    PROVE  CommandInv'
<1> DEFINE k == [hcRun[r] EXCEPT !.pc = "switched", !.client = id]
<1>1. /\ hcRun[r].pc = "calling" /\ hcRun[r].entry.name = "community use" /\ hcClient' = id
      /\ hcOverlap' = (hcOverlap \/ \E q \in Runs \ {r} : Switching(q))
      /\ UNCHANGED <<hcCommunity, hcHub, hcLost>>
  BY DEF SwitchClient
<1>2. hcRun[r] \in RunRecords /\ RunFits(r) /\ hcRun[r] # NotRun
  BY <1>1, Started
<1>3. hcRun[r].entry.calls = <<>>
  <2>1. hcRun[r].entry \in Entries
    BY <1>2 DEF RunRecords
  <2> QED
    BY <2>1, <1>1, EntriesOK DEF EntryOK, CallsOK
<1>4. hcRun[r].next = 1 /\ Len(hcRun[r].entry.calls) = 0
  <2>1. hcRun[r].next \in Nat
    BY <1>2 DEF RunRecords
  <2>2. Len(hcRun[r].entry.calls) = 0
    BY <1>3
  <2> QED
    BY <2>1, <2>2, <1>2 DEF RunFits
<1>5. /\ k \in RunRecords /\ k.pc = "switched" /\ k.entry = hcRun[r].entry /\ k.code = hcRun[r].code
      /\ k.missing = hcRun[r].missing /\ k.client = id /\ k.next = hcRun[r].next
  BY <1>2 DEF RunRecords
<1>6. hcRun' = [hcRun EXCEPT ![r] = k]
  BY DEF SwitchClient
<1> HIDE DEF k
<1>7. /\ hcRun' \in [Runs -> RunRecords \cup {NotRun}] /\ hcRun'[r] = k
      /\ \A q \in Runs \ {r} : hcRun'[q] = hcRun[q]
  BY <1>5, <1>6, RunMoves
<1>8. k # NotRun
  BY <1>5, RunRecordsRun
<1>9. r \notin hcLost
  BY <1>1, <1>2 DEF RunFits
<1>10. \A h \in hcHub : h.run \in Runs \ {r}
  <2> SUFFICES ASSUME NEW h \in hcHub, h.run = r PROVE FALSE
    BY DEF CommandInv, CommandShape
  <2>1. h.call >= 1 /\ h.call <= Len(hcRun[r].entry.calls) /\ h.call \in Nat
    BY DEF CommandInv, CommandShape, HubFits
  <2> QED
    BY <2>1, <1>4
<1>11. hcOverlap' \in BOOLEAN /\ (hcOverlap => hcOverlap') /\ (\A q \in Runs \ {r} : Switching(q) => hcOverlap')
  BY <1>1, Zenon DEF CommandInv, CommandShape
<1>12. CommandShape'
  BY <1>1, <1>7, <1>11 DEF CommandInv, CommandShape
<1>13. \A q \in Runs : RunFits(q)'
  <2> TAKE q \in Runs
  <2>1. CASE q = r
    BY <2>1, <1>1, <1>2, <1>3, <1>5, <1>7, <1>9 DEF RunFits
  <2>2. CASE q # r
    BY <2>2, <1>1, <1>7 DEF CommandInv, RunFits
  <2> QED
    BY <2>1, <2>2
<1>14. HubFits'
  <2>1. \A i \in 1..(k.next - 1) : FALSE
    BY <1>4, <1>5
  <2> QED
    BY <1>1, <1>7, <1>8, <1>10, <2>1 DEF CommandInv, CommandShape, HubFits
<1>15. SwitchFits'
  <2>1. Switching(r)' /\ \A q \in Runs \ {r} : Switching(q)' <=> Switching(q)
    BY <1>5, <1>7 DEF Switching
  <2> QED
    BY <1>1, <1>5, <1>7, <1>11, <2>1 DEF SwitchFits
<1> QED
  BY <1>12, <1>13, <1>14, <1>15 DEF CommandInv

LEMMA SwitchIdKeeps ==
    ASSUME CommandInv, NEW r \in Runs, SwitchId(r)
    PROVE  CommandInv'
<1> DEFINE k == [hcRun[r] EXCEPT !.pc = "exited", !.code = 0]
<1>1. hcRun[r].pc = "switched" /\ hcCommunity' = hcRun[r].client /\ UNCHANGED <<hcClient, hcHub, hcLost, hcOverlap>>
  BY DEF SwitchId, Switching, StoredId
<1>2. hcRun[r] \in RunRecords /\ RunFits(r) /\ hcRun[r] # NotRun
  BY <1>1, Started
<1>3. hcRun[r].next = Len(hcRun[r].entry.calls) + 1 /\ r \notin hcLost
  <2>1. hcRun[r].next \in Nat
    BY <1>2 DEF RunRecords
  <2>2. hcRun[r].entry.calls = <<>>
    BY <1>1, <1>2 DEF RunFits
  <2>3. Len(hcRun[r].entry.calls) = 0
    BY <2>2
  <2> QED
    BY <2>1, <2>3, <1>1, <1>2 DEF RunFits
<1>4. /\ k \in RunRecords /\ k.pc = "exited" /\ k.code = 0 /\ k.entry = hcRun[r].entry
      /\ k.missing = hcRun[r].missing /\ k.client = hcRun[r].client /\ k.next = hcRun[r].next
  BY <1>2, ExitRecord
<1>5. hcRun' = [hcRun EXCEPT ![r] = k]
  BY DEF SwitchId, Exit
<1> HIDE DEF k
<1>6. /\ hcRun' \in [Runs -> RunRecords \cup {NotRun}] /\ hcRun'[r] = k
      /\ \A q \in Runs \ {r} : hcRun'[q] = hcRun[q]
  BY <1>4, <1>5, RunMoves
<1>7. k # NotRun /\ hcRun[r].client \in Communities
  BY <1>2, <1>4, RunRecordsRun DEF RunRecords
<1>8. CommandShape'
  BY <1>1, <1>6, <1>7 DEF CommandInv, CommandShape
<1>9. \A q \in Runs : RunFits(q)'
  <2> TAKE q \in Runs
  <2>1. CASE q = r
    BY <2>1, <1>1, <1>2, <1>3, <1>4, <1>6 DEF RunFits
  <2>2. CASE q # r
    BY <2>2, <1>1, <1>6 DEF CommandInv, RunFits
  <2> QED
    BY <2>1, <2>2
<1>10. HubFits'
  BY <1>1, <1>2, <1>4, <1>6, <1>7 DEF CommandInv, CommandShape, HubFits
<1>11. SwitchFits'
  <2>1. ~Switching(r)' /\ Switching(r) /\ \A q \in Runs \ {r} : Switching(q)' <=> Switching(q)
    BY <1>1, <1>4, <1>6 DEF Switching
  <2> QED
    BY <1>1, <1>6, <2>1 DEF SwitchFits, CommandInv
<1> QED
  BY <1>8, <1>9, <1>10, <1>11 DEF CommandInv

\* Every step of a command keeps the invariant.
LEMMA CommandInvKept ==
    ASSUME CommandInv, CommandNext \/ UNCHANGED commandVars
    PROVE  CommandInv'
<1>1. ASSUME NEW r \in Runs, NEW e \in CommandTree \cup Operations,
             NEW missing \in {{}} \cup {{n} : n \in e.needs}, Dispatch(r, e, missing)
      PROVE  CommandInv'
  BY <1>1, DispatchKeeps DEF Entries
<1>2. ASSUME NEW r \in Runs, UsageError(r) PROVE CommandInv'
  <2>1. hcRun[r].pc = "usage" /\ Exit(r, 1) /\ UNCHANGED <<hcClient, hcCommunity, hcHub, hcLost, hcOverlap>>
    BY <1>2 DEF UsageError
  <2>2. hcRun[r].next = 1
    BY <2>1, Started DEF RunFits
  <2> QED
    BY <2>1, <2>2, ExitKeeps
<1>3. ASSUME NEW r \in Runs, HubCall(r) PROVE CommandInv'
  <2>1. hcRun[r].pc = "calling" /\ hcRun[r].next <= Len(hcRun[r].entry.calls)
        /\ UNCHANGED <<hcClient, hcCommunity, hcOverlap>>
    BY <1>3 DEF HubCall
  <2>2. CASE Carry(r) /\ hcRun' = [hcRun EXCEPT ![r].next = @ + 1] /\ UNCHANGED hcLost
    BY <2>1, <2>2, CarriedKeeps
  <2>3. CASE Exit(r, 1) /\ UNCHANGED <<hcHub, hcLost>>
    BY <2>1, <2>3, ExitKeeps
  <2>4. CASE Exit(r, 1) /\ Carry(r) /\ hcLost' = hcLost \cup {r}
    BY <2>1, <2>4, LostKeeps
  <2> QED
    BY <1>3, <2>2, <2>3, <2>4 DEF HubCall
<1>4. ASSUME NEW r \in Runs, Succeeds(r) PROVE CommandInv'
  <2>1. hcRun[r].pc = "calling" /\ hcRun[r].next > Len(hcRun[r].entry.calls) /\ Exit(r, 0)
        /\ UNCHANGED <<hcClient, hcCommunity, hcHub, hcLost, hcOverlap>>
    BY <1>4 DEF Succeeds, AllAnswered
  <2>2. hcRun[r] \in RunRecords /\ RunFits(r) /\ hcRun[r] # NotRun
    BY <2>1, Started
  <2>3. hcRun[r].entry \in Entries /\ hcRun[r].next \in Nat
    BY <2>2 DEF RunRecords
  <2>4. Len(hcRun[r].entry.calls) \in Nat
    BY <2>3, EntryCalls
  <2>5. hcRun[r].next <= Len(hcRun[r].entry.calls) + 1
    BY <2>2 DEF RunFits
  <2>6. hcRun[r].next = Len(hcRun[r].entry.calls) + 1
    BY <2>1, <2>3, <2>4, <2>5
  <2> QED
    BY <2>1, <2>6, ExitKeeps
<1>5. ASSUME NEW r \in Runs, SwitchId(r) PROVE CommandInv'
  BY <1>5, SwitchIdKeeps
<1>6. ASSUME NEW r \in Runs, NEW id \in Communities, SwitchClient(r, id) PROVE CommandInv'
  BY <1>6, SwitchClientKeeps
<1>7. CASE UNCHANGED commandVars
  BY <1>7 DEF commandVars, CommandInv, CommandShape, RunFits, HubFits, SwitchFits, Switching
<1> QED
  BY <1>1, <1>2, <1>3, <1>4, <1>5, <1>6, <1>7 DEF CommandNext

LEMMA UpTo == ASSUME NEW n \in Nat PROVE IsFiniteSet(1..n) /\ Cardinality(1..n) = n
<1>1. IsFiniteSet(1..n) /\ Cardinality(1..n) = IF 1 > n THEN 0 ELSE n - 1 + 1
  BY FS_Interval
<1> QED
  BY <1>1

\* The calls an invocation had carried out, when none of its answers was lost.
LEMMA CarriedAll ==
    ASSUME CommandInv, NEW r \in Runs, hcRun[r] # NotRun, r \notin hcLost
    PROVE  Cardinality(Carried(r)) = hcRun[r].next - 1
<1> DEFINE n == hcRun[r].next - 1
<1> DEFINE f == [i \in 1..n |-> [run |-> r, call |-> i, in |-> hcRun[r].client]]
<1>1. hcRun[r] \in RunRecords /\ RunFits(r)
  BY DEF CommandInv, CommandShape
<1>2. hcRun[r].next \in Nat /\ hcRun[r].next >= 1
  BY <1>1 DEF RunRecords, RunFits
<1>3. n \in Nat
  BY <1>2
<1>4. \A h \in Carried(r) :
        h \in [run : Runs, call : Nat, in : Communities] /\ h.run = r /\ h.call \in 1..n /\ h.in = hcRun[r].client
  <2> SUFFICES ASSUME NEW h \in Carried(r)
               PROVE  h \in [run : Runs, call : Nat, in : Communities] /\ h.run = r /\ h.call \in 1..n
                      /\ h.in = hcRun[r].client
    OBVIOUS
  <2>1. h \in hcHub /\ h.run = r /\ h \in [run : Runs, call : Nat, in : Communities]
    BY DEF Carried, CommandInv, CommandShape
  <2>2. h.call >= 1 /\ h.call < hcRun[r].next /\ h.in = hcRun[r].client /\ h.call \in Nat
    BY <2>1 DEF CommandInv, HubFits
  <2> QED
    BY <2>1, <2>2, <1>2
<1>5. \A i \in 1..n : f[i] \in Carried(r)
  BY DEF Carried, CommandInv, HubFits
<1>6. \A h \in Carried(r) : h.call \in 1..n /\ f[h.call] = h
  BY <1>4
<1>7. \A i, j \in 1..n : f[i] = f[j] => i = j
  <2>1. \A i \in 1..n : f[i].call = i
    OBVIOUS
  <2> QED
    BY <2>1
<1>8. f \in Bijection(1..n, Carried(r))
  <2>1. f \in [1..n -> Carried(r)]
    BY <1>5
  <2> HIDE DEF f, n
  <2> QED
    BY <1>6, <1>7, <2>1 DEF Bijection, Injection, Surjection, IsInjective
<1>9. IsFiniteSet(1..n) /\ Cardinality(1..n) = n
  BY <1>3, UpTo
<1>10. Cardinality(Carried(r)) = n
  BY <1>8, <1>9, FS_Bijection DEF ExistsBijection
<1> QED
  BY <1>10

LEMMA CommandInvTells ==
    ASSUME CommandInv
    PROVE  /\ CommandTypeOK /\ ExitZeroMeansDone /\ FailureIsClean
           /\ OneCommunityPerCommand /\ ClientMatchesId
<1>1. \A r \in Runs : hcRun[r] # NotRun => hcRun[r] \in RunRecords /\ RunFits(r)
  BY DEF CommandInv, CommandShape
<1>2. \A r \in Runs : hcRun[r] # NotRun =>
        hcRun[r].entry \in Entries /\ hcRun[r].next \in Nat /\ hcRun[r].pc \in {"usage", "calling", "switched", "exited"}
  BY <1>1 DEF RunRecords
<1>3. \A r \in Runs : hcRun[r] # NotRun => Len(hcRun[r].entry.calls) \in Nat
  BY <1>2, EntryCalls
<1>4. \A r \in Runs : hcRun[r].pc # "idle" => hcRun[r] # NotRun
  BY DEF NotRun
<1>5. CommandTypeOK
  <2>1. \A r \in Runs : hcRun[r].pc \in {"idle", "usage", "calling", "switched", "exited"}
    <3> TAKE r \in Runs
    <3>1. CASE hcRun[r] = NotRun
      BY <3>1 DEF NotRun
    <3>2. CASE hcRun[r] # NotRun
      BY <3>2, <1>2
    <3> QED
      BY <3>1, <3>2
  <2>2. \A h \in hcHub : h.in \in Communities /\ h.call \in 1..Len(hcRun[h.run].entry.calls)
    <3> TAKE h \in hcHub
    <3>1. h.run \in Runs /\ h.in \in Communities /\ h.call \in Nat /\ hcRun[h.run] # NotRun
          /\ h.call >= 1 /\ h.call <= Len(hcRun[h.run].entry.calls)
      BY DEF CommandInv, CommandShape, HubFits
    <3> QED
      BY <3>1, <1>3
  <2> QED
    BY <2>1, <2>2 DEF CommandTypeOK, CommandInv, CommandShape
<1>6. ExitZeroMeansDone
  <2> SUFFICES ASSUME NEW r \in Runs
               PROVE  /\ hcRun[r].pc = "exited" /\ hcRun[r].code = 0 =>
                            Cardinality(Carried(r)) = Len(hcRun[r].entry.calls)
                      /\ hcRun[r].pc = "usage" => Carried(r) = {}
    BY DEF ExitZeroMeansDone
  <2>1. ASSUME hcRun[r].pc = "exited", hcRun[r].code = 0
        PROVE  Cardinality(Carried(r)) = Len(hcRun[r].entry.calls)
    <3>1. hcRun[r] # NotRun /\ hcRun[r].next = Len(hcRun[r].entry.calls) + 1 /\ r \notin hcLost
      BY <2>1, <1>1, <1>4 DEF RunFits
    <3> QED
      BY <3>1, <1>3, CarriedAll
  <2>2. ASSUME hcRun[r].pc = "usage", NEW h \in Carried(r) PROVE FALSE
    <3>1. hcRun[r] # NotRun /\ hcRun[r].next = 1 /\ r \notin hcLost
      BY <2>2, <1>1, <1>4 DEF RunFits
    <3>2. h.call \in Nat /\ h.call >= 1 /\ h.call < hcRun[r].next
      BY <2>2, <3>1 DEF Carried, CommandInv, CommandShape, HubFits
    <3> QED
      BY <3>1, <3>2
  <2> QED
    BY <2>1, <2>2
<1>7. FailureIsClean
  <2> SUFFICES ASSUME NEW r \in Runs, hcRun[r].pc = "exited", hcRun[r].code = 1, Changed(r) # {}, r \notin hcLost
               PROVE  /\ hcRun[r].entry.name = "token rotate" /\ hcRun[r].missing = {}
                      /\ {hcRun[r].entry.calls[h.call] : h \in Changed(r)} = {"revoke_cat"}
    BY DEF FailureIsClean
  <2>1. hcRun[r] # NotRun /\ RunFits(r) /\ hcRun[r].entry \in Entries /\ hcRun[r].next \in Nat
    BY <1>1, <1>2, <1>4
  <2>2. \A h \in Changed(r) : h \in hcHub /\ h.run = r /\ h.call \in Nat /\ h.call >= 1 /\ h.call < hcRun[r].next
    BY <2>1 DEF Changed, Carried, CommandInv, CommandShape, HubFits
  <2>3. hcRun[r].next > 1
    BY <2>1, <2>2
  <2>4. hcRun[r].missing = {} /\ hcRun[r].next <= Len(hcRun[r].entry.calls)
    BY <2>1, <2>3 DEF RunFits
  <2>5. /\ Len(hcRun[r].entry.calls) = 2 /\ hcRun[r].entry.name = "token rotate"
        /\ hcRun[r].entry.calls[1] = "revoke_cat"
    <3>1. CallsOK(hcRun[r].entry.name, hcRun[r].entry.calls)
      BY <2>1, EntriesOK DEF EntryOK
    <3>2. Len(hcRun[r].entry.calls) \in Nat /\ Len(hcRun[r].entry.calls) > 1
      BY <2>1, <2>3, <2>4, <1>3
    <3>3. \A n \in Nat : n > 1 => n \notin {0, 1}
      OBVIOUS
    <3> QED
      BY <3>1, <3>2, <3>3, Zenon DEF CallsOK
  <2>6. \A h \in Changed(r) : h.call = 1
    <3> TAKE h \in Changed(r)
    <3>1. h.call \in Nat /\ h.call >= 1 /\ h.call < hcRun[r].next /\ hcRun[r].next \in Nat
      BY <2>1, <2>2
    <3>2. hcRun[r].next <= 2
      BY <2>4, <2>5
    <3> QED
      BY <3>1, <3>2
  <2>7. {hcRun[r].entry.calls[h.call] : h \in Changed(r)} = {"revoke_cat"}
    BY <2>5, <2>6
  <2> QED
    BY <2>4, <2>5, <2>7
<1>8. OneCommunityPerCommand
  <2> SUFFICES ASSUME NEW r \in Runs PROVE Cardinality({h.in : h \in Carried(r)}) <= 1
    BY DEF OneCommunityPerCommand
  <2>1. \A h \in Carried(r) : h.in = hcRun[r].client
    BY DEF Carried, CommandInv, HubFits
  <2>2. \A a, b \in {h.in : h \in Carried(r)} : a = b
    BY <2>1
  <2> QED
    BY <2>2, AtMostOne
<1>9. ClientMatchesId
  BY DEF CommandInv, SwitchFits, ClientMatchesId
<1> QED
  BY <1>5, <1>6, <1>7, <1>8, <1>9

-----------------------------------------------------------------------------
\* The commands and the view of the hub, for every set of invocations, communities
\* and status calls and every time to live: exit 0 means that each hub call was
\* carried out, a refused command changed nothing, a command's calls go to one
\* community, client and community agree but for overlapping switches; and a
\* reported state is one the hub was in less than the time to live ago, from a cache
\* whose date never goes back.
THEOREM CommandsTrue == MCSpec => CommandsAreTrue
<1> DEFINE Inv == CommandInv /\ ProbeInv
<1>1. MCInit => Inv
  BY CommandInvInit, ProbeInvInit DEF MCInit
<1>2. [MCNext]_MCVars => (CommandNext \/ UNCHANGED commandVars) /\ (ProbeNext \/ UNCHANGED probeVars)
  BY DEF MCNext, MCVars
<1>3. Inv /\ [MCNext]_MCVars => Inv'
  BY <1>2, CommandInvKept, ProbeInvKept
<1>4. Inv => /\ CommandTypeOK /\ ExitZeroMeansDone /\ FailureIsClean
             /\ OneCommunityPerCommand /\ ClientMatchesId
             /\ ProbeTypeOK /\ ReportIsRecent
  BY CommandInvTells, ProbeInvTells
<1>5. Inv /\ [MCNext]_MCVars => [apCache'.at >= apCache.at]_probeVars
  BY <1>2, ProbeInvKept
<1> QED
  BY <1>1, <1>3, <1>4, <1>5, PTL DEF MCSpec, CommandsAreTrue, CacheMovesForward
=============================================================================
