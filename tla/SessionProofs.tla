---------------------------- MODULE SessionProofs ----------------------------
(***************************************************************************)
(* Proofs about AuthTokens and WebSession, for any number of calls,        *)
(* requests and tokens.  Of the gateway: its types, and that a token that  *)
(* was logged out never works again.  Of a tab of the web app, whose       *)
(* gateway takes the same steps: that it shares one refresh keeps its      *)
(* sessions to one working token.  The tokens of a session are a chain by  *)
(* parent, and a key is only ever that of the last one; the tab must never *)
(* have a token traded twice, or the chain forks.                          *)
(***************************************************************************)
EXTENDS WebSession, FiniteSetTheorems, TLAPS

------------------------------------------------------------------------------
\* The gateway

RequestRecord ==
  [kind : {"none", "login", "refresh", "logout"},
   stage : {"free", "check", "invalidate", "find", "store",
            "lastLogin", "answered", "rejected"},
   token : DOMAIN issued \cup {NoToken},
   new : DOMAIN issued \cup {NoToken}]

\* A logout names a token, so that what it logs out is one that was issued.
LogoutsNameTokens ==
  \A q \in Request : requests[q].kind = "logout" => requests[q].token # NoToken

AuthTyped == AuthTypeOK /\ LogoutsNameTokens

\* One step of AuthSpec.
LEMMA AuthInitTyped == AuthInit => AuthTyped
  <1> SUFFICES ASSUME AuthInit PROVE AuthTyped
    OBVIOUS
  <1>1. issued \in Seq([session : Token, parent : Token \cup {NoToken}])
    BY DEF AuthInit
  <1>2. Len(issued) <= MaxToken
    BY MaxTokenAssumption DEF AuthInit
  <1>3. stored \cup known \cup loggedOut \subseteq DOMAIN issued
    BY DEF AuthInit
  <1>4. requests \in [Request -> RequestRecord]
    BY DEF AuthInit, Free, RequestRecord
  <1>5. LogoutsNameTokens
    BY DEF AuthInit, LogoutsNameTokens, Free
  <1> QED
    BY <1>1, <1>2, <1>3, <1>4, <1>5 DEF AuthTyped, AuthTypeOK, RequestRecord

\* A request that arrives names a token that was issued, or is a login.
LEMMA BeginTyped ==
  ASSUME AuthTyped, NEW q \in Request,
         NEW kind \in {"login", "refresh", "logout"},
         NEW stage \in {"store", "check", "invalidate"},
         NEW t \in DOMAIN issued \cup {NoToken},
         kind = "logout" => t # NoToken,
         Begin(q, kind, stage, t)
  PROVE  AuthTyped'
  <1> DEFINE record == [Free EXCEPT !.kind = kind, !.stage = stage, !.token = t]
  <1>1. record \in RequestRecord /\ record.kind = kind /\ record.token = t
    BY DEF Free, RequestRecord
  <1>2. requests \in [Request -> RequestRecord]
    BY DEF AuthTyped, AuthTypeOK, RequestRecord
  <1>3. requests' = [requests EXCEPT ![q] = record]
    BY DEF Begin
  <1> HIDE DEF record
  <1>4. requests' \in [Request -> RequestRecord]
    BY <1>1, <1>2, <1>3
  <1>5. \A r \in Request : requests'[r] = IF r = q THEN record ELSE requests[r]
    BY <1>2, <1>3
  <1>6. LogoutsNameTokens'
    BY <1>1, <1>5 DEF AuthTyped, LogoutsNameTokens
  <1>7. UNCHANGED <<issued, stored, known, loggedOut>>
    BY DEF Begin
  <1> QED
    BY <1>4, <1>6, <1>7 DEF AuthTyped, AuthTypeOK, RequestRecord

\* A step that only moves a request to another stage.
LEMMA GotoTyped ==
  ASSUME AuthTyped, NEW q \in Request, NEW stage,
         stage \in {"invalidate", "find", "store", "answered", "rejected"},
         Goto(q, stage), UNCHANGED <<issued, known>>,
         stored' \subseteq stored,
         loggedOut' \subseteq loggedOut \cup ({requests[q].token} \ {NoToken})
  PROVE  AuthTyped'
  <1>1. requests \in [Request -> RequestRecord]
    BY DEF AuthTyped, AuthTypeOK, RequestRecord
  <1>2. /\ requests' \in [Request -> RequestRecord]
        /\ \A r \in Request : /\ requests'[r].kind = requests[r].kind
                              /\ requests'[r].token = requests[r].token
    BY <1>1 DEF Goto, RequestRecord
  <1>3. requests[q].token \in DOMAIN issued \cup {NoToken}
    BY <1>1 DEF RequestRecord
  <1>4. LogoutsNameTokens'
    BY <1>2 DEF AuthTyped, LogoutsNameTokens
  <1>5. (stored \cup known \cup loggedOut \subseteq DOMAIN issued)'
    BY <1>3 DEF AuthTyped, AuthTypeOK
  <1> QED
    BY <1>2, <1>4, <1>5 DEF AuthTyped, AuthTypeOK, RequestRecord

\* What StoreRefreshToken issues: the next token, with its session and parent.
LEMMA StoreRefreshTokenEffect ==
  ASSUME AuthTyped, NEW q \in Request, StoreRefreshToken(q)
  PROVE  LET t == requests[q].token
             n == Len(issued) + 1
         IN  /\ issued \in Seq([session : Token, parent : Token \cup {NoToken}])
             /\ issued' \in Seq([session : Token, parent : Token \cup {NoToken}])
             /\ Len(issued) \in Nat
             /\ DOMAIN issued = 1 .. Len(issued)
             /\ DOMAIN issued' = 1 .. n
             /\ n <= MaxToken
             /\ t \in DOMAIN issued \cup {NoToken}
             /\ \A u \in DOMAIN issued : issued'[u] = issued[u]
             /\ issued'[n].parent = t
             /\ issued'[n].session = IF t = NoToken THEN n ELSE issued[t].session
             /\ stored' = stored \cup {n}
  <1> DEFINE t == requests[q].token
             n == Len(issued) + 1
             R == [session : Token, parent : Token \cup {NoToken}]
             e == [session |-> IF t = NoToken THEN n ELSE issued[t].session,
                   parent |-> t]
  <1>1. issued \in Seq(R) /\ Len(issued) \in Nat /\ DOMAIN issued = 1 .. Len(issued)
    BY DEF AuthTyped, AuthTypeOK
  <1>2. n <= MaxToken /\ n \in Token
    BY <1>1, MaxTokenAssumption DEF StoreRefreshToken, Token
  <1>3. t \in DOMAIN issued \cup {NoToken}
    BY DEF AuthTyped, AuthTypeOK
  <1>4. DOMAIN issued \subseteq Token
    BY <1>1, <1>2, MaxTokenAssumption DEF Token
  <1>5. e \in R /\ e.parent = t /\ e.session = IF t = NoToken THEN n ELSE issued[t].session
    <2>1. CASE t = NoToken
      BY <2>1, <1>2
    <2>2. CASE t # NoToken
      <3>1. t \in 1 .. Len(issued)
        BY <2>2, <1>1, <1>3
      <3>2. \A S : \A s \in Seq(S) : \A i \in 1 .. Len(s) : s[i] \in S
        OBVIOUS
      <3>3. issued[t] \in R
        BY <3>1, <3>2, <1>1
      <3> QED
        BY <3>3, <2>2, <1>3, <1>4
    <2> QED
      BY <2>1, <2>2
  <1>6. issued' = Append(issued, e) /\ stored' = stored \cup {n}
    BY DEF StoreRefreshToken
  <1> HIDE DEF e, R
  <1>7. /\ issued' \in Seq(R)
        /\ DOMAIN issued' = 1 .. n
        /\ issued'[n] = e
        /\ \A u \in DOMAIN issued : issued'[u] = issued[u]
    BY <1>1, <1>5, <1>6
  <1> QED
    BY <1>1, <1>2, <1>3, <1>5, <1>6, <1>7 DEF R

LEMMA StoreRefreshTokenTyped ==
  ASSUME AuthTyped, NEW q \in Request, StoreRefreshToken(q)
  PROVE  AuthTyped'
  <1> DEFINE n == Len(issued) + 1
  <1>1. requests \in [Request -> RequestRecord]
    BY DEF AuthTyped, AuthTypeOK, RequestRecord
  <1>2. /\ issued' \in Seq([session : Token, parent : Token \cup {NoToken}])
        /\ Len(issued) \in Nat
        /\ DOMAIN issued = 1 .. Len(issued) /\ DOMAIN issued' = 1 .. n
        /\ n <= MaxToken
        /\ stored' = stored \cup {n}
    BY StoreRefreshTokenEffect
  <1>3. requests' = [requests EXCEPT ![q].stage = "lastLogin", ![q].new = n]
    BY DEF StoreRefreshToken
  <1>4. DOMAIN issued \subseteq DOMAIN issued' /\ n \in DOMAIN issued'
    BY <1>2
  <1>5. /\ requests' \in [Request -> RequestRecord']
        /\ \A r \in Request : /\ requests'[r].kind = requests[r].kind
                              /\ requests'[r].token = requests[r].token
    BY <1>1, <1>3, <1>4 DEF RequestRecord
  <1>6. LogoutsNameTokens'
    BY <1>5 DEF AuthTyped, LogoutsNameTokens
  <1>7. Len(issued') = n
    BY <1>2
  <1>8. (stored \cup known \cup loggedOut \subseteq DOMAIN issued)'
    BY <1>2, <1>4 DEF AuthTyped, AuthTypeOK, StoreRefreshToken
  <1> QED
    BY <1>2, <1>5, <1>6, <1>7, <1>8 DEF AuthTyped, AuthTypeOK, RequestRecord

LEMMA UpdateLastLoginTyped ==
  ASSUME AuthTyped, NEW q \in Request, UpdateLastLogin(q)
  PROVE  AuthTyped'
  BY GotoTyped DEF UpdateLastLogin

LEMMA InvalidateRefreshTokenTyped ==
  ASSUME AuthTyped, NEW q \in Request, InvalidateRefreshToken(q)
  PROVE  AuthTyped'
  <1>1. CASE requests[q].kind = "logout"
    <2>1. requests[q].token # NoToken
      BY <1>1 DEF AuthTyped, LogoutsNameTokens
    <2> QED
      BY <1>1, <2>1, GotoTyped DEF InvalidateRefreshToken
  <1>2. CASE requests[q].kind # "logout"
    BY <1>2, GotoTyped DEF InvalidateRefreshToken
  <1> QED
    BY <1>1, <1>2

LEMMA HandleTyped ==
  ASSUME AuthTyped, NEW q \in Request, Handle(q) \/ RequestFails(q)
  PROVE  AuthTyped'
  <1>1. CASE HasRefreshToken(q)
    BY <1>1, GotoTyped DEF HasRefreshToken
  <1>2. CASE InvalidateRefreshToken(q)
    BY <1>2, InvalidateRefreshTokenTyped
  <1>3. CASE FindById(q)
    BY <1>3, GotoTyped DEF FindById
  <1>4. CASE StoreRefreshToken(q)
    BY <1>4, StoreRefreshTokenTyped
  <1>5. CASE UpdateLastLogin(q)
    BY <1>5, UpdateLastLoginTyped
  <1>6. CASE RequestFails(q)
    BY <1>6, GotoTyped DEF RequestFails
  <1> QED
    BY <1>1, <1>2, <1>3, <1>4, <1>5, <1>6 DEF Handle

LEMMA DeliverTyped ==
  ASSUME AuthTyped, NEW q \in Request, Deliver(q)
  PROVE  AuthTyped'
  <1>1. requests \in [Request -> RequestRecord]
    BY DEF AuthTyped, AuthTypeOK, RequestRecord
  <1>2. Free \in RequestRecord /\ Free.kind = "none"
    BY DEF Free, RequestRecord
  <1>3. requests' = [requests EXCEPT ![q] = Free] /\ UNCHANGED <<issued, stored, loggedOut>>
    BY DEF Deliver
  <1>4. requests' \in [Request -> RequestRecord]
    BY <1>1, <1>2, <1>3
  <1>5. LogoutsNameTokens'
    BY <1>1, <1>2, <1>3 DEF AuthTyped, LogoutsNameTokens
  <1>6. requests[q].new \in DOMAIN issued \cup {NoToken}
    BY <1>1 DEF RequestRecord
  <1>7. known' \subseteq DOMAIN issued
    BY <1>6 DEF Deliver, AuthTyped, AuthTypeOK
  <1> QED
    BY <1>3, <1>4, <1>5, <1>7 DEF AuthTyped, AuthTypeOK, RequestRecord

LEMMA ExpireTyped ==
  ASSUME AuthTyped, NEW t \in Token, Expire(t)
  PROVE  AuthTyped'
  BY DEF Expire, AuthTyped, AuthTypeOK, LogoutsNameTokens

LEMMA AuthNextTyped == AuthTyped /\ [AuthNext]_authVars => AuthTyped'
  <1> SUFFICES ASSUME AuthTyped, [AuthNext]_authVars PROVE AuthTyped'
    OBVIOUS
  <1> USE DEF AuthTyped, AuthTypeOK
  <1>1. ASSUME NEW q \in Request, Login(q) PROVE AuthTyped'
    BY <1>1, BeginTyped DEF Login
  <1>2. ASSUME NEW q \in Request, NEW t \in known, Refresh(q, t) PROVE AuthTyped'
    BY <1>2, BeginTyped DEF Refresh
  <1>3. ASSUME NEW q \in Request, NEW t \in known, Logout(q, t) PROVE AuthTyped'
    <2>1. t \in DOMAIN issued /\ t # NoToken
      BY DEF NoToken
    <2> QED
      BY <1>3, <2>1, BeginTyped DEF Logout
  <1>4. CASE UNCHANGED authVars
    BY <1>4 DEF authVars, LogoutsNameTokens
  <1> QED
    BY <1>1, <1>2, <1>3, <1>4, HandleTyped, DeliverTyped, ExpireTyped DEF AuthNext

\* The state of the gateway is well typed; in particular every token in Redis,
\* at a client or logged out is one that issueTokens made.
THEOREM AuthTypeCorrect == AuthSpec => []AuthTypeOK
  <1>1. AuthTyped => AuthTypeOK
    BY DEF AuthTyped
  <1> QED
    BY AuthInitTyped, AuthNextTyped, <1>1, PTL DEF AuthSpec

------------------------------------------------------------------------------
\* Only StoreRefreshToken adds a key, and it adds that of a new token.
LEMMA StoredGrowsByNew ==
  ASSUME AuthTyped, [AuthNext]_authVars
  PROVE  stored' \ stored \subseteq (DOMAIN issued') \ DOMAIN issued
  <1>1. ASSUME NEW q \in Request, StoreRefreshToken(q)
        PROVE  stored' \ stored \subseteq (DOMAIN issued') \ DOMAIN issued
    BY <1>1, StoreRefreshTokenEffect
  <1>2. CASE UNCHANGED authVars
    BY <1>2 DEF authVars
  <1>3. ASSUME NEW q \in Request,
               \/ Login(q) \/ HasRefreshToken(q) \/ InvalidateRefreshToken(q)
               \/ FindById(q) \/ UpdateLastLogin(q) \/ RequestFails(q) \/ Deliver(q)
               \/ \E t \in known : Refresh(q, t) \/ Logout(q, t)
        PROVE  stored' \subseteq stored
    BY <1>3 DEF Login, Refresh, Logout, Begin, HasRefreshToken, InvalidateRefreshToken,
                FindById, UpdateLastLogin, RequestFails, Deliver
  <1>4. ASSUME NEW t \in Token, Expire(t) PROVE stored' \subseteq stored
    BY <1>4 DEF Expire
  <1> QED
    BY <1>1, <1>2, <1>3, <1>4 DEF AuthNext, Handle

\* A token that was logged out has no key, whatever refreshes, deliveries and
\* failures surround the logout: its key is gone when the logout is answered,
\* and no step gives a key to a token that was issued before.
THEOREM LogoutFinal == AuthSpec => []LogoutIsFinal
  <1> DEFINE Inv == AuthTyped /\ LogoutIsFinal
  <1>1. AuthInit => Inv
    BY AuthInitTyped DEF AuthInit, LogoutIsFinal
  <1>2. Inv /\ [AuthNext]_authVars => Inv'
    <2> SUFFICES ASSUME Inv, [AuthNext]_authVars PROVE Inv'
      OBVIOUS
    <2>1. AuthTyped'
      BY AuthNextTyped
    <2>2. stored' \ stored \subseteq (DOMAIN issued') \ DOMAIN issued
      BY StoredGrowsByNew
    <2>3. loggedOut \subseteq DOMAIN issued
      BY DEF AuthTyped, AuthTypeOK
    <2>4. ASSUME UNCHANGED loggedOut PROVE LogoutIsFinal'
      BY <2>4, <2>2, <2>3 DEF LogoutIsFinal
    <2>5. ASSUME NEW q \in Request, InvalidateRefreshToken(q) PROVE LogoutIsFinal'
      BY <2>5, <2>2, <2>3 DEF InvalidateRefreshToken, LogoutIsFinal
    <2>6. UNCHANGED loggedOut \/ \E q \in Request : InvalidateRefreshToken(q)
      BY DEF AuthNext, authVars, Handle, Login, Refresh, Logout, Begin, HasRefreshToken,
             FindById, StoreRefreshToken, UpdateLastLogin, RequestFails, Deliver, Expire
    <2> QED
      BY <2>1, <2>4, <2>5, <2>6
  <1>3. Inv => LogoutIsFinal
    OBVIOUS
  <1> HIDE DEF Inv
  <1> QED
    BY <1>1, <1>2, <1>3, PTL DEF AuthSpec

------------------------------------------------------------------------------
\* The tab

WebTyped == WebTypeOK /\ LogoutsNameTokens

------------------------------------------------------------------------------
\* The invariant

Childless(t) == \A u \in DOMAIN issued : issued[u].parent # t

\* A refresh of t that has not yet issued its successor.
Trades(q, t) ==
  /\ requests[q].kind = "refresh" /\ requests[q].token = t
  /\ requests[q].stage \in {"check", "invalidate", "find", "store"}

TokensKnown ==
  \A t \in DOMAIN issued : /\ issued[t].session \in DOMAIN issued
                           /\ issued[t].parent \in DOMAIN issued \cup {NoToken}

\* A tab logs in or refreshes, and a login trades nothing.
Shape ==
  \A q \in Request :
    \/ requests[q] = Free
    \/ /\ requests[q].kind = "login" /\ requests[q].token = NoToken
       /\ requests[q].stage \notin {"check", "invalidate", "find"}
    \/ requests[q].kind = "refresh" /\ requests[q].token # NoToken

OneHead ==
  \A t, u \in DOMAIN issued :
    issued[t].session = issued[u].session /\ Childless(t) /\ Childless(u) => t = u

StoredAreHeads == \A t \in stored : Childless(t)

TradesAreOpen ==
  \A q \in Request, t \in DOMAIN issued :
    Trades(q, t) => /\ Childless(t)
                    /\ requests[q].stage \in {"find", "store"} => t \notin stored

TradesApart ==
  \A q, r \in Request, t \in DOMAIN issued : Trades(q, t) /\ Trades(r, t) => q = r

\* What is not delivered yet is new to everybody.
AnswersAreFresh ==
  \A q \in Request :
    requests[q].new # NoToken =>
      /\ session # requests[q].new
      /\ Childless(requests[q].new)
      /\ \A r \in Request : ~ Trades(r, requests[q].new)
      /\ \A r \in Request : requests[r].new = requests[q].new => r = q

\* With no refresh under way for it, the token of the tab may be traded.
SessionIsOpen ==
  refreshPromise = NoRequest /\ session # NoToken =>
    Childless(session) /\ \A r \in Request : ~ Trades(r, session)

Chains == TokensKnown /\ OneHead /\ StoredAreHeads

Trading == TradesAreOpen /\ TradesApart /\ AnswersAreFresh /\ SessionIsOpen

WebInv == WebTyped /\ Shape /\ Chains /\ Trading

------------------------------------------------------------------------------
\* Types

\* Every step of the gateway or of a request keeps the types of AuthTokens.
LEMMA WebStepAuthTyped ==
  ASSUME WebTyped, [WebNext]_webVars
  PROVE  AuthTyped'
  <1>1. AuthTyped /\ session \in DOMAIN issued \cup {NoToken}
    BY DEF WebTyped, WebTypeOK, AuthTyped
  <1>2. ASSUME NEW q \in Request, StartLogin(q) PROVE AuthTyped'
    BY <1>1, <1>2, BeginTyped DEF StartLogin, Login
  <1>3. ASSUME NEW q \in Request, NEW c \in Call, RefreshFirst(c, q) PROVE AuthTyped'
    BY <1>1, <1>3, BeginTyped DEF RefreshFirst, Refresh
  <1>4. ASSUME UNCHANGED authVars PROVE AuthTyped'
    BY <1>1, <1>4 DEF authVars, AuthTyped, AuthTypeOK, LogoutsNameTokens
  <1>5. ASSUME NEW q \in Request, EndLogin(q) \/ RefreshSucceeds(q) \/ Discard(q)
        PROVE  AuthTyped'
    BY <1>1, <1>5, DeliverTyped DEF EndLogin, RefreshSucceeds, Discard
  <1>6. ASSUME NEW q \in Request, RefreshFails(q) PROVE AuthTyped'
    BY <1>1, <1>4, <1>6, DeliverTyped DEF RefreshFails
  <1>7. ASSUME NEW c \in Call, SendCall(c) \/ EndCall(c) \/ RefreshShared(c)
        PROVE  AuthTyped'
    BY <1>4, <1>7 DEF SendCall, EndCall, RefreshShared
  <1>8. ASSUME Gateway PROVE AuthTyped'
    BY <1>1, <1>8, HandleTyped, ExpireTyped DEF Gateway
  <1>9. ASSUME UNCHANGED webVars PROVE AuthTyped'
    BY <1>4, <1>9 DEF webVars
  <1> QED
    BY <1>2, <1>3, <1>5, <1>6, <1>7, <1>8, <1>9 DEF WebNext

\* No step forgets a token that was issued.
LEMMA IssuedGrows ==
  ASSUME WebTyped, [WebNext]_webVars
  PROVE  DOMAIN issued \subseteq (DOMAIN issued)'
  <1>1. AuthTyped
    BY DEF WebTyped, WebTypeOK, AuthTyped
  <1>2. ASSUME NEW q \in Request, StoreRefreshToken(q)
        PROVE  DOMAIN issued \subseteq (DOMAIN issued)'
    BY <1>1, <1>2, StoreRefreshTokenEffect
  <1>3. UNCHANGED issued \/ \E q \in Request : StoreRefreshToken(q)
    BY DEF WebNext, webVars, authVars, StartLogin, EndLogin, RefreshSucceeds,
           RefreshFails, Discard, RefreshFirst, SendCall, EndCall, RefreshShared,
           Gateway, Handle, Login, Refresh, Begin, Deliver, HasRefreshToken,
           InvalidateRefreshToken, FindById, UpdateLastLogin, RequestFails, Expire
  <1> QED
    BY <1>2, <1>3

\* The tab's own state keeps its types.
LEMMA TabTyped ==
  ASSUME WebTyped, [WebNext]_webVars
  PROVE  /\ session' \in (DOMAIN issued)' \cup {NoToken}
         /\ loginRequest' \in Request \cup {NoRequest}
         /\ refreshPromise' \in Request \cup {NoRequest}
         /\ calls' \in [Call -> {"idle", "sent", "waiting", "retried"}]
  <1> DEFINE T == DOMAIN issued \cup {NoToken}
             C == [Call -> {"idle", "sent", "waiting", "retried"}]
             R == Request \cup {NoRequest}
  <1>1. /\ session \in T /\ loginRequest \in R /\ refreshPromise \in R /\ calls \in C
        /\ \A q \in Request : requests[q].new \in T
    BY DEF WebTyped, WebTypeOK, AuthTypeOK
  <1>2. ASSUME NEW q \in Request, EndLogin(q)
        PROVE  session' \in T /\ loginRequest' \in R /\ refreshPromise' \in R /\ calls' \in C
    BY <1>1, <1>2 DEF EndLogin
  <1>3. ASSUME NEW q \in Request, RefreshSucceeds(q) \/ RefreshFails(q)
        PROVE  session' \in T /\ loginRequest' \in R /\ refreshPromise' \in R /\ calls' \in C
    BY <1>1, <1>3 DEF RefreshSucceeds, RefreshFails, Resume
  <1>4. ASSUME NEW q \in Request, StartLogin(q) \/ Discard(q)
        PROVE  session' \in T /\ loginRequest' \in R /\ refreshPromise' \in R /\ calls' \in C
    BY <1>1, <1>4 DEF StartLogin, Discard, tabVars
  <1>5. ASSUME NEW q \in Request, NEW c \in Call, RefreshFirst(c, q)
        PROVE  session' \in T /\ loginRequest' \in R /\ refreshPromise' \in R /\ calls' \in C
    BY <1>1, <1>5 DEF RefreshFirst, Moved
  <1>6. ASSUME NEW c \in Call, SendCall(c) \/ EndCall(c) \/ RefreshShared(c)
        PROVE  session' \in T /\ loginRequest' \in R /\ refreshPromise' \in R /\ calls' \in C
    BY <1>1, <1>6 DEF SendCall, EndCall, RefreshShared, Moved
  <1>7. ASSUME Gateway \/ UNCHANGED webVars
        PROVE  session' \in T /\ loginRequest' \in R /\ refreshPromise' \in R /\ calls' \in C
    BY <1>1, <1>7 DEF Gateway, tabVars, webVars
  <1>8. session' \in T /\ loginRequest' \in R /\ refreshPromise' \in R /\ calls' \in C
    BY <1>2, <1>3, <1>4, <1>5, <1>6, <1>7 DEF WebNext
  <1> QED
    BY <1>8, IssuedGrows

LEMMA WebStepTyped == WebTyped /\ [WebNext]_webVars => WebTyped'
  BY WebStepAuthTyped, TabTyped DEF WebTyped, WebTypeOK, AuthTyped

LEMMA WebInitTyped == WebInit => WebTyped
  BY AuthInitTyped DEF WebInit, WebTyped, WebTypeOK, AuthTyped

\* The state of the tab is well typed: the token it holds, and every request it
\* waits for, is one of the gateway.
THEOREM WebTypeCorrect == WebSpec => []WebTypeOK
  <1>1. WebTyped => WebTypeOK
    BY DEF WebTyped
  <1> QED
    BY WebInitTyped, WebStepTyped, <1>1, PTL DEF WebSpec

------------------------------------------------------------------------------
\* Single steps

\* A step that issues no token, adds no key, begins no refresh, and leaves the
\* tab with its token, with none, or with one that was just delivered.
LEMMA QuietStep ==
  ASSUME WebInv, WebTyped', Shape',
         UNCHANGED issued, stored' \subseteq stored,
         \A r \in Request : requests'[r].new \in {requests[r].new, NoToken},
         \A r \in Request, t \in DOMAIN issued :
           Trades(r, t)' => /\ Trades(r, t)
                            /\ requests'[r].stage \in {"find", "store"} => t \notin stored',
         \/ session' = session /\ (refreshPromise' = NoRequest => refreshPromise = NoRequest)
         \/ session' = NoToken
         \/ \E q \in Request : requests[q].new = session' /\ requests'[q].new = NoToken
  PROVE  WebInv'
  <1>1. \A t : Childless(t) <=> Childless(t)'
    BY DEF Childless
  <1>2. Chains'
    BY <1>1 DEF WebInv, Chains, TokensKnown, OneHead, StoredAreHeads
  <1>3. TradesAreOpen' /\ TradesApart'
    BY <1>1 DEF WebInv, Trading, TradesAreOpen, TradesApart
  <1>4. \A q \in Request : requests[q].new \in DOMAIN issued \cup {NoToken}
    BY DEF WebInv, WebTyped, WebTypeOK, AuthTypeOK
  <1>5. session \in DOMAIN issued \cup {NoToken}
    BY DEF WebInv, WebTyped, WebTypeOK
  <1>6. AnswersAreFresh'
    <2> SUFFICES ASSUME NEW q \in Request, requests'[q].new # NoToken
                 PROVE  /\ session' # requests'[q].new
                        /\ Childless(requests[q].new)'
                        /\ \A r \in Request : ~ Trades(r, requests[q].new)'
                        /\ \A r \in Request : requests'[r].new = requests'[q].new => r = q
      BY DEF AnswersAreFresh, Childless, Trades
    <2> DEFINE n == requests[q].new
    <2>1. requests'[q].new = n /\ n # NoToken /\ n \in DOMAIN issued
      BY <1>4
    <2>2. /\ session # n /\ Childless(n)
          /\ \A r \in Request : ~ Trades(r, n)
          /\ \A r \in Request : requests[r].new = n => r = q
      BY <2>1 DEF WebInv, Trading, AnswersAreFresh
    <2>3. \A r \in Request : ~ Trades(r, n)'
      BY <2>1, <2>2
    <2>4. \A r \in Request : requests'[r].new = n => r = q
      BY <2>1, <2>2
    <2>5. session' # n
      BY <2>1, <2>2
    <2> HIDE DEF n
    <2> QED
      BY <1>1, <2>1, <2>2, <2>3, <2>4, <2>5 DEF Trades, Childless
  <1>7. SessionIsOpen'
    <2> SUFFICES ASSUME refreshPromise' = NoRequest, session' # NoToken
                 PROVE  Childless(session)' /\ \A r \in Request : ~ Trades(r, session)'
      BY DEF SessionIsOpen
    <2>1. CASE session' = session /\ refreshPromise = NoRequest
      <3>1. Childless(session) /\ \A r \in Request : ~ Trades(r, session)
        BY <2>1 DEF WebInv, Trading, SessionIsOpen
      <3> QED
        BY <1>5, <2>1, <3>1 DEF Childless, Trades
    <2>2. ASSUME NEW q \in Request, requests[q].new = session'
          PROVE  Childless(session)' /\ \A r \in Request : ~ Trades(r, session)'
      <3>1. session' \in DOMAIN issued
        BY <1>4, <2>2
      <3>2. Childless(session') /\ \A r \in Request : ~ Trades(r, session')
        BY <2>2 DEF WebInv, Trading, AnswersAreFresh
      <3> QED
        BY <3>1, <3>2 DEF Childless, Trades
    <2> QED
      BY <2>1, <2>2
  <1> QED
    BY <1>2, <1>3, <1>6, <1>7 DEF WebInv, Trading

\* What a step on request q alone leaves of the others.
LEMMA OthersStay ==
  ASSUME WebInv, NEW q \in Request, NEW record, requests' = [requests EXCEPT ![q] = record]
  PROVE  \A r \in Request : requests'[r] = IF r = q THEN record ELSE requests[r]
  <1>1. requests \in [Request -> RequestRecord]
    BY DEF WebInv, WebTyped, WebTypeOK, AuthTypeOK, RequestRecord
  <1> QED
    BY <1>1

\* A request that moves to another stage without starting to trade.
LEMMA GotoInv ==
  ASSUME WebInv, WebTyped', NEW q \in Request, NEW stage, Goto(q, stage),
         stage \in {"invalidate", "find", "store", "answered", "rejected"},
         stage \in {"invalidate", "find", "store"} =>
           requests[q].stage \in {"check", "invalidate", "find"},
         stage \in {"find", "store"} =>
           requests[q].token \notin stored' \/ requests[q].stage = "find",
         requests[q].stage # "free",
         UNCHANGED <<issued, session, refreshPromise>>, stored' \subseteq stored
  PROVE  WebInv'
  <1>1. requests \in [Request -> RequestRecord]
    BY DEF WebInv, WebTyped, WebTypeOK, AuthTypeOK, RequestRecord
  <1>2. /\ \A r \in Request : /\ requests'[r].kind = requests[r].kind
                              /\ requests'[r].token = requests[r].token
                              /\ requests'[r].new = requests[r].new
                              /\ r # q => requests'[r] = requests[r]
        /\ requests'[q].stage = stage
    BY <1>1 DEF Goto, RequestRecord
  <1>3. requests[q] # Free
    BY DEF Free
  <1>4. Shape'
    <2> SUFFICES ASSUME NEW r \in Request
                 PROVE  \/ requests'[r] = Free
                        \/ /\ requests'[r].kind = "login" /\ requests'[r].token = NoToken
                           /\ requests'[r].stage \notin {"check", "invalidate", "find"}
                        \/ requests'[r].kind = "refresh" /\ requests'[r].token # NoToken
      BY DEF Shape, Free
    <2>1. \/ requests[r] = Free
          \/ /\ requests[r].kind = "login" /\ requests[r].token = NoToken
             /\ requests[r].stage \notin {"check", "invalidate", "find"}
          \/ requests[r].kind = "refresh" /\ requests[r].token # NoToken
      BY DEF WebInv, Shape
    <2>2. CASE r # q
      BY <1>2, <2>1, <2>2
    <2>3. CASE r = q
      BY <1>2, <1>3, <2>1, <2>3
    <2> QED
      BY <2>2, <2>3
  <1>5. ASSUME NEW r \in Request, NEW t \in DOMAIN issued, Trades(r, t)'
        PROVE  /\ Trades(r, t)
               /\ requests'[r].stage \in {"find", "store"} => t \notin stored'
    <2>1. Trades(r, t)
      BY <1>2, <1>5 DEF Trades
    <2>2. requests[r].stage \in {"find", "store"} => t \notin stored
      BY <2>1 DEF WebInv, Trading, TradesAreOpen
    <2>3. requests[r].token = t
      BY <2>1 DEF Trades
    <2> QED
      BY <1>2, <2>1, <2>2, <2>3
  <1> QED
    BY <1>2, <1>4, <1>5, QuietStep

LEMMA InvalidateRefreshTokenInv ==
  ASSUME WebInv, WebTyped', NEW q \in Request, InvalidateRefreshToken(q),
         UNCHANGED tabVars
  PROVE  WebInv'
  <1>1. requests[q].kind # "logout"
    BY DEF WebInv, Shape, Free
  <1>2. requests[q].stage = "invalidate" /\ Goto(q, "find") /\ UNCHANGED issued
    BY <1>1 DEF InvalidateRefreshToken
  <1>3. stored' \subseteq stored /\ requests[q].token \notin stored'
    BY DEF InvalidateRefreshToken
  <1>4. UNCHANGED <<session, refreshPromise>>
    BY DEF tabVars
  <1> QED
    BY <1>2, <1>3, <1>4, GotoInv

LEMMA GatewayMovesInv ==
  ASSUME WebInv, WebTyped', NEW q \in Request, UNCHANGED tabVars,
         \/ HasRefreshToken(q) \/ FindById(q) \/ UpdateLastLogin(q) \/ RequestFails(q)
  PROVE  WebInv'
  <1>1. UNCHANGED <<session, refreshPromise>>
    BY DEF tabVars
  <1>2. CASE HasRefreshToken(q)
    BY <1>1, <1>2, GotoInv DEF HasRefreshToken
  <1>3. CASE FindById(q)
    BY <1>1, <1>3, GotoInv DEF FindById
  <1>4. CASE UpdateLastLogin(q)
    BY <1>1, <1>4, GotoInv DEF UpdateLastLogin
  <1>5. CASE RequestFails(q)
    BY <1>1, <1>5, GotoInv DEF RequestFails, InHandling
  <1> QED
    BY <1>2, <1>3, <1>4, <1>5

\* A step that leaves the requests alone.
LEMMA RequestsStayInv ==
  ASSUME WebInv, WebTyped', UNCHANGED <<issued, requests, session>>,
         stored' \subseteq stored, refreshPromise' = refreshPromise
  PROVE  WebInv'
  <1>1. Shape'
    BY DEF WebInv, Shape, Free
  <1>2. ASSUME NEW r \in Request, NEW t \in DOMAIN issued, Trades(r, t)'
        PROVE  /\ Trades(r, t)
               /\ requests'[r].stage \in {"find", "store"} => t \notin stored'
    BY <1>2 DEF Trades, WebInv, Trading, TradesAreOpen
  <1> QED
    BY <1>1, <1>2, QuietStep

\* A request whose answer arrives, or is lost, with what the tab makes of it.
LEMMA DeliverInv ==
  ASSUME WebInv, WebTyped', NEW q \in Request, Deliver(q),
         \/ session' = session /\ (refreshPromise' = NoRequest => refreshPromise = NoRequest)
         \/ session' = NoToken
         \/ session' = requests[q].new
  PROVE  WebInv'
  <1>1. requests' = [requests EXCEPT ![q] = Free]
        /\ UNCHANGED issued /\ stored' \subseteq stored
    BY DEF Deliver
  <1>2. \A r \in Request : requests'[r] = IF r = q THEN Free ELSE requests[r]
    <2>1. requests \in [Request -> RequestRecord]
      BY DEF WebInv, WebTyped, WebTypeOK, AuthTypeOK, RequestRecord
    <2> QED
      BY <1>1, <2>1
  <1>3. Free.new = NoToken /\ Free.stage = "free"
    BY DEF Free
  <1>4. Shape'
    BY <1>2 DEF WebInv, Shape, Free
  <1>5. ASSUME NEW r \in Request, NEW t \in DOMAIN issued, Trades(r, t)'
        PROVE  /\ Trades(r, t)
               /\ requests'[r].stage \in {"find", "store"} => t \notin stored'
    <2>1. r # q /\ requests'[r] = requests[r]
      BY <1>2, <1>3, <1>5 DEF Trades
    <2> QED
      BY <1>1, <1>5, <2>1 DEF Trades, WebInv, Trading, TradesAreOpen
  <1>6. \A r \in Request : requests'[r].new \in {requests[r].new, NoToken}
    BY <1>2, <1>3
  <1>7. requests'[q].new = NoToken
    BY <1>2, <1>3
  <1> QED
    BY <1>1, <1>4, <1>5, <1>6, <1>7, QuietStep

\* RefreshFails while the gateway still works on the request: the tab forgets
\* its token, which the request may trade on.
LEMMA GiveUpInv ==
  ASSUME WebInv, WebTyped', UNCHANGED authVars, session' = NoToken
  PROVE  WebInv'
  <1>1. UNCHANGED <<issued, requests, stored>>
    BY DEF authVars
  <1>2. Shape'
    BY <1>1 DEF WebInv, Shape, Free
  <1>3. ASSUME NEW r \in Request, NEW t \in DOMAIN issued, Trades(r, t)'
        PROVE  /\ Trades(r, t)
               /\ requests'[r].stage \in {"find", "store"} => t \notin stored'
    BY <1>1, <1>3 DEF Trades, WebInv, Trading, TradesAreOpen
  <1> QED
    BY <1>1, <1>2, <1>3, QuietStep

LEMMA StartLoginInv ==
  ASSUME WebInv, WebTyped', NEW q \in Request, StartLogin(q)
  PROVE  WebInv'
  <1> DEFINE record == [Free EXCEPT !.kind = "login", !.stage = "store", !.token = NoToken]
  <1>1. /\ record.kind = "login" /\ record.stage = "store" /\ record.token = NoToken
        /\ record.new = NoToken
    BY DEF Free
  <1>2. requests' = [requests EXCEPT ![q] = record]
        /\ UNCHANGED <<issued, stored, session, refreshPromise>>
    BY DEF StartLogin, Login, Begin
  <1> HIDE DEF record
  <1>3. \A r \in Request : requests'[r] = IF r = q THEN record ELSE requests[r]
    BY <1>2, OthersStay
  <1>4. Shape'
    BY <1>1, <1>3 DEF WebInv, Shape, Free
  <1>5. ASSUME NEW r \in Request, NEW t \in DOMAIN issued, Trades(r, t)'
        PROVE  /\ Trades(r, t)
               /\ requests'[r].stage \in {"find", "store"} => t \notin stored'
    <2>1. r # q /\ requests'[r] = requests[r]
      BY <1>1, <1>3, <1>5 DEF Trades
    <2> QED
      BY <1>2, <1>5, <2>1 DEF Trades, WebInv, Trading, TradesAreOpen
  <1>6. \A r \in Request : requests'[r].new \in {requests[r].new, NoToken}
    BY <1>1, <1>3
  <1> QED
    BY <1>2, <1>4, <1>5, <1>6, QuietStep

\* The tab begins to trade its token: by SessionIsOpen it is the last of its
\* session, and no request, given up or not, trades it already.
LEMMA RefreshFirstInv ==
  ASSUME WebInv, WebTyped', NEW q \in Request, NEW c \in Call, RefreshFirst(c, q)
  PROVE  WebInv'
  <1> DEFINE record == [Free EXCEPT !.kind = "refresh", !.stage = "check", !.token = session]
  <1>1. /\ record.kind = "refresh" /\ record.stage = "check" /\ record.token = session
        /\ record.new = NoToken
    BY DEF Free
  <1>2. /\ requests' = [requests EXCEPT ![q] = record]
        /\ UNCHANGED <<issued, stored, session>>
        /\ refreshPromise = NoRequest /\ refreshPromise' = q /\ session # NoToken
    BY DEF RefreshFirst, Refresh, Begin
  <1> HIDE DEF record
  <1>3. \A r \in Request : requests'[r] = IF r = q THEN record ELSE requests[r]
    BY <1>2, OthersStay
  <1>4. /\ Childless(session) /\ \A r \in Request : ~ Trades(r, session)
        /\ session \in DOMAIN issued
    BY <1>2 DEF WebInv, Trading, SessionIsOpen, WebTyped, WebTypeOK
  <1>5. \A t : Childless(t) <=> Childless(t)'
    BY <1>2 DEF Childless
  <1>6. \A r \in Request, t \in DOMAIN issued :
          Trades(r, t)' <=> IF r = q THEN t = session ELSE Trades(r, t)
    BY <1>1, <1>2, <1>3 DEF Trades
  <1>7. Shape'
    BY <1>1, <1>2, <1>3 DEF WebInv, Shape, Free
  <1>8. Chains'
    BY <1>2, <1>5 DEF WebInv, Chains, TokensKnown, OneHead, StoredAreHeads
  <1>9. TradesAreOpen'
    <2> SUFFICES ASSUME NEW r \in Request, NEW t \in DOMAIN issued, Trades(r, t)'
                 PROVE  /\ Childless(t)'
                        /\ requests'[r].stage \in {"find", "store"} => t \notin stored'
      BY <1>2 DEF TradesAreOpen
    <2>1. CASE r = q
      BY <1>1, <1>3, <1>4, <1>5, <1>6, <2>1
    <2>2. CASE r # q
      <3>1. Trades(r, t) /\ requests'[r] = requests[r]
        BY <1>3, <1>6, <2>2
      <3> QED
        BY <1>2, <1>5, <3>1 DEF WebInv, Trading, TradesAreOpen
    <2> QED
      BY <2>1, <2>2
  <1>10. TradesApart'
    <2> SUFFICES ASSUME NEW r \in Request, NEW w \in Request, NEW t \in DOMAIN issued,
                        Trades(r, t)', Trades(w, t)'
                 PROVE  r = w
      BY <1>2 DEF TradesApart
    <2>1. CASE t = session
      BY <1>4, <1>6, <2>1
    <2>2. CASE t # session
      BY <1>6, <2>2 DEF WebInv, Trading, TradesApart
    <2> QED
      BY <2>1, <2>2
  <1>11. AnswersAreFresh'
    <2> SUFFICES ASSUME NEW r \in Request, requests'[r].new # NoToken
                 PROVE  /\ session' # requests'[r].new
                        /\ Childless(requests[r].new)'
                        /\ \A w \in Request : ~ Trades(w, requests[r].new)'
                        /\ \A w \in Request : requests'[w].new = requests'[r].new => w = r
      BY DEF AnswersAreFresh, Childless, Trades
    <2> DEFINE n == requests[r].new
    <2>1. r # q /\ requests'[r].new = n /\ n # NoToken
      BY <1>1, <1>3
    <2>2. n \in DOMAIN issued
      BY <2>1 DEF WebInv, WebTyped, WebTypeOK, AuthTypeOK
    <2>3. /\ session # n /\ Childless(n)
          /\ \A w \in Request : ~ Trades(w, n)
          /\ \A w \in Request : requests[w].new = n => w = r
      BY <2>1 DEF WebInv, Trading, AnswersAreFresh
    <2>4. \A w \in Request : ~ Trades(w, n)'
      <3>1. \A w \in Request : Trades(w, n)' <=> IF w = q THEN n = session ELSE Trades(w, n)
        BY <1>1, <1>2, <1>3 DEF Trades
      <3> QED
        BY <2>3, <3>1
    <2>5. \A w \in Request : requests'[w].new = n => w = r
      BY <1>1, <1>3, <2>1, <2>3
    <2>6. Childless(n)'
      BY <1>2, <2>1, <2>3 DEF Childless
    <2> QED
      BY <1>2, <2>1, <2>3, <2>4, <2>5, <2>6
  <1>12. SessionIsOpen'
    BY <1>2, NoRequestAssumption DEF SessionIsOpen
  <1> QED
    BY <1>7, <1>8, <1>9, <1>10, <1>11, <1>12 DEF WebInv, Trading

\* The gateway issues the successor of the token that q trades, or the first
\* token of a login.
LEMMA StoreRefreshTokenInv ==
  ASSUME WebInv, WebTyped', NEW q \in Request, StoreRefreshToken(q), UNCHANGED tabVars,
         NEW t, t = requests[q].token, NEW n, n = Len(issued) + 1
  PROVE  WebInv'
  <1> DEFINE Old == DOMAIN issued
  <1>1. AuthTyped
    BY DEF WebInv, WebTyped, WebTypeOK, AuthTyped
  <1>2. /\ Len(issued) \in Nat
        /\ Old = 1 .. Len(issued) /\ DOMAIN issued' = 1 .. n
        /\ t \in Old \cup {NoToken}
        /\ \A u \in Old : issued'[u] = issued[u]
        /\ issued'[n].parent = t
        /\ issued'[n].session = IF t = NoToken THEN n ELSE issued[t].session
        /\ stored' = stored \cup {n}
    BY <1>1, StoreRefreshTokenEffect
  <1>3. DOMAIN issued' = Old \cup {n} /\ n \notin Old /\ n # NoToken /\ NoToken \notin Old
    BY <1>2 DEF NoToken
  <1>4. requests \in [Request -> RequestRecord]
    BY DEF WebInv, WebTyped, WebTypeOK, AuthTypeOK, RequestRecord
  <1>5. /\ requests[q].stage = "store"
        /\ requests' = [requests EXCEPT ![q].stage = "lastLogin", ![q].new = n]
        /\ UNCHANGED <<session, refreshPromise>>
    BY DEF StoreRefreshToken, tabVars
  <1>6. /\ requests'[q].kind = requests[q].kind /\ requests'[q].token = t
        /\ requests'[q].stage = "lastLogin" /\ requests'[q].new = n
        /\ \A r \in Request : r # q => requests'[r] = requests[r]
    BY <1>4, <1>5 DEF RequestRecord
  <1>7. \/ requests[q].kind = "login" /\ t = NoToken
        \/ requests[q].kind = "refresh" /\ t \in Old /\ Trades(q, t)
    BY <1>2, <1>5 DEF WebInv, Shape, Free, Trades
  <1>8. t # NoToken => Trades(q, t) /\ Childless(t) /\ t \notin stored /\ t \in Old
    BY <1>2, <1>5, <1>7 DEF WebInv, Trading, TradesAreOpen
  <1>9. \A u \in Old : /\ issued[u].session \in Old
                       /\ issued[u].parent \in Old \cup {NoToken}
    BY DEF WebInv, Chains, TokensKnown
  <1>10. \A u \in Old : Childless(u)' <=> Childless(u) /\ u # t
    BY <1>2, <1>3 DEF Childless
  <1>11. Childless(n)'
    <2>1. \A u \in Old \cup {n} : issued'[u].parent # n
      BY <1>2, <1>3, <1>9
    <2> QED
      BY <1>3, <2>1 DEF Childless
  <1>12. \A r \in Request, u \in Old : Trades(r, u)' <=> r # q /\ Trades(r, u)
    BY <1>6 DEF Trades
  <1>13. \A r \in Request : ~ Trades(r, n)'
    <2>1. \A r \in Request : requests[r].token \in Old \cup {NoToken}
      BY <1>4 DEF RequestRecord
    <2>2. \A r \in Request : Trades(r, n)' => r # q /\ requests[r].token = n
      BY <1>6 DEF Trades
    <2> QED
      BY <1>3, <2>1, <2>2
  <1>14. Shape'
    <2>1. \A r \in Request : r # q =>
            \/ requests'[r] = Free
            \/ /\ requests'[r].kind = "login" /\ requests'[r].token = NoToken
               /\ requests'[r].stage \notin {"check", "invalidate", "find"}
            \/ requests'[r].kind = "refresh" /\ requests'[r].token # NoToken
      BY <1>6 DEF WebInv, Shape
    <2>2. \/ requests'[q].kind = "login" /\ requests'[q].token = NoToken
          \/ requests'[q].kind = "refresh" /\ requests'[q].token # NoToken
      BY <1>3, <1>6, <1>7
    <2> QED
      BY <1>6, <2>1, <2>2 DEF Shape, Free
  <1>15. TokensKnown'
    BY <1>2, <1>3, <1>8, <1>9 DEF TokensKnown
  <1>16. OneHead'
    <2> SUFFICES ASSUME NEW u \in Old \cup {n}, NEW v \in Old \cup {n},
                        issued'[u].session = issued'[v].session,
                        Childless(u)', Childless(v)'
                 PROVE  u = v
      BY <1>3 DEF OneHead
    <2>1. ASSUME NEW w \in Old, issued'[w].session = issued'[n].session, Childless(w)'
          PROVE  FALSE
      <3>1. issued[w].session = issued'[n].session /\ issued[w].session \in Old
        BY <1>2, <1>9, <2>1
      <3>2. t # NoToken /\ issued[w].session = issued[t].session
        BY <1>2, <1>3, <3>1
      <3>3. Childless(w) /\ w # t
        BY <1>10, <2>1
      <3> QED
        BY <1>8, <3>2, <3>3 DEF WebInv, Chains, OneHead
    <2>2. CASE u \in Old /\ v \in Old
      <3>1. issued[u].session = issued[v].session /\ Childless(u) /\ Childless(v)
        BY <1>2, <1>10, <2>2
      <3> QED
        BY <2>2, <3>1 DEF WebInv, Chains, OneHead
    <2> QED
      BY <2>1, <2>2
  <1>17. StoredAreHeads'
    <2>1. stored \subseteq Old
      BY <1>1 DEF AuthTyped, AuthTypeOK
    <2>2. \A u \in stored : Childless(u) /\ u # t
      BY <1>3, <1>8, <2>1 DEF WebInv, Chains, StoredAreHeads
    <2>3. \A u \in stored \cup {n} : Childless(u)'
      BY <1>10, <1>11, <2>1, <2>2
    <2> QED
      BY <1>2, <2>3 DEF StoredAreHeads, Childless
  <1>18. TradesAreOpen'
    <2> SUFFICES ASSUME NEW r \in Request, NEW u \in Old \cup {n}, Trades(r, u)'
                 PROVE  /\ Childless(u)'
                        /\ requests'[r].stage \in {"find", "store"} => u \notin stored'
      BY <1>3 DEF TradesAreOpen
    <2>1. u \in Old /\ r # q /\ Trades(r, u)
      BY <1>12, <1>13
    <2>2. u # t
      BY <1>3, <1>8, <2>1 DEF WebInv, Trading, TradesApart
    <2>3. /\ Childless(u)
          /\ requests[r].stage \in {"find", "store"} => u \notin stored
      BY <2>1 DEF WebInv, Trading, TradesAreOpen
    <2> QED
      BY <1>2, <1>3, <1>6, <1>10, <2>1, <2>2, <2>3
  <1>19. TradesApart'
    BY <1>3, <1>12, <1>13 DEF WebInv, Trading, TradesApart
  <1>20. ASSUME NEW r \in Request, NEW m, m = requests'[r].new, m # NoToken
         PROVE  /\ session' # m /\ Childless(m)'
                /\ \A w \in Request : ~ Trades(w, m)'
                /\ \A w \in Request : requests'[w].new = m => w = r
    <2>1. \A w \in Request : requests[w].new \in Old \cup {NoToken}
      BY <1>4 DEF RequestRecord
    <2>2. session \in Old \cup {NoToken}
      BY DEF WebInv, WebTyped, WebTypeOK
    <2>3. CASE r = q
      <3>1. m = n
        BY <1>6, <1>20, <2>3
      <3>2. \A w \in Request : requests'[w].new = n => w = q
        BY <1>3, <1>6, <2>1
      <3> QED
        BY <1>3, <1>5, <1>11, <1>13, <2>2, <2>3, <3>1, <3>2
    <2>4. CASE r # q
      <3>1. m = requests[r].new /\ m \in Old
        BY <1>6, <1>20, <2>1, <2>4
      <3>2. /\ session # m /\ Childless(m)
            /\ \A w \in Request : ~ Trades(w, m)
            /\ \A w \in Request : requests[w].new = m => w = r
        BY <1>20, <3>1 DEF WebInv, Trading, AnswersAreFresh
      <3>3. m # t
        BY <1>8, <1>20, <3>2
      <3>4. \A w \in Request : requests'[w].new = m => w = r
        BY <1>3, <1>6, <3>1, <3>2
      <3> QED
        BY <1>5, <1>10, <1>12, <3>1, <3>2, <3>3, <3>4
    <2> QED
      BY <2>3, <2>4
  <1>21. AnswersAreFresh'
    BY <1>20 DEF AnswersAreFresh, Childless, Trades
  <1>22. SessionIsOpen'
    <2> SUFFICES ASSUME refreshPromise = NoRequest, session # NoToken
                 PROVE  Childless(session)' /\ \A r \in Request : ~ Trades(r, session)'
      BY <1>5 DEF SessionIsOpen
    <2>1. Childless(session) /\ (\A r \in Request : ~ Trades(r, session)) /\ session \in Old
      BY DEF WebInv, Trading, SessionIsOpen, WebTyped, WebTypeOK
    <2>2. session # t
      BY <1>8, <2>1
    <2>3. PICK m : m = session /\ m = session'
      BY <1>5
    <2>4. Childless(m)' /\ \A r \in Request : ~ Trades(r, m)'
      BY <1>10, <1>12, <2>1, <2>2, <2>3
    <2> QED
      BY <2>3, <2>4 DEF Childless, Trades
  <1> QED
    BY <1>14, <1>15, <1>16, <1>17, <1>18, <1>19, <1>21, <1>22
    DEF WebInv, Chains, Trading

------------------------------------------------------------------------------
\* All steps

LEMMA WebInitInv == WebInit => WebInv
  <1> SUFFICES ASSUME WebInit PROVE WebInv
    OBVIOUS
  <1>1. /\ DOMAIN issued = {} /\ stored = {} /\ session = NoToken
        /\ \A q \in Request : requests[q] = Free
    BY DEF WebInit, AuthInit
  <1>2. \A q \in Request : requests[q].new = NoToken /\ \A t : ~ Trades(q, t)
    BY <1>1 DEF Free, Trades
  <1>3. Chains
    BY <1>1 DEF Chains, TokensKnown, OneHead, StoredAreHeads
  <1>4. Trading
    BY <1>1, <1>2 DEF Trading, TradesAreOpen, TradesApart, AnswersAreFresh, SessionIsOpen
  <1> QED
    BY <1>1, <1>3, <1>4, WebInitTyped DEF WebInv, Shape

LEMMA WebNextInv == WebInv /\ [WebNext]_webVars => WebInv'
  <1> SUFFICES ASSUME WebInv, [WebNext]_webVars PROVE WebInv'
    OBVIOUS
  <1>1. WebTyped'
    BY WebStepTyped DEF WebInv
  <1>2. ASSUME NEW q \in Request, StartLogin(q) PROVE WebInv'
    BY <1>1, <1>2, StartLoginInv
  <1>3. ASSUME NEW q \in Request, EndLogin(q) PROVE WebInv'
    <2>1. Deliver(q) /\ refreshPromise' = refreshPromise
          /\ (session' = session \/ session' = requests[q].new)
      BY <1>3 DEF EndLogin
    <2> QED
      BY <1>1, <2>1, DeliverInv
  <1>4. ASSUME NEW q \in Request, RefreshSucceeds(q) PROVE WebInv'
    BY <1>1, <1>4, DeliverInv DEF RefreshSucceeds
  <1>5. ASSUME NEW q \in Request, RefreshFails(q) PROVE WebInv'
    BY <1>1, <1>5, DeliverInv, GiveUpInv DEF RefreshFails
  <1>6. ASSUME NEW q \in Request, Discard(q) PROVE WebInv'
    BY <1>1, <1>6, DeliverInv DEF Discard, tabVars
  <1>7. ASSUME NEW q \in Request, NEW c \in Call, RefreshFirst(c, q) PROVE WebInv'
    BY <1>1, <1>7, RefreshFirstInv
  <1>8. ASSUME NEW c \in Call, SendCall(c) \/ EndCall(c) \/ RefreshShared(c)
        PROVE  WebInv'
    BY <1>1, <1>8, RequestsStayInv DEF SendCall, EndCall, RefreshShared, authVars
  <1>9. ASSUME Gateway PROVE WebInv'
    <2>1. UNCHANGED tabVars
      BY <1>9 DEF Gateway
    <2>2. ASSUME NEW q \in Request, StoreRefreshToken(q) PROVE WebInv'
      BY <1>1, <2>1, <2>2, StoreRefreshTokenInv
    <2>3. ASSUME NEW t \in Token, Expire(t) PROVE WebInv'
      BY <1>1, <2>1, <2>3, RequestsStayInv DEF Expire, tabVars
    <2> QED
      BY <1>1, <1>9, <2>1, <2>2, <2>3, InvalidateRefreshTokenInv, GatewayMovesInv
      DEF Gateway, Handle
  <1>10. ASSUME UNCHANGED webVars PROVE WebInv'
    BY <1>1, <1>10, RequestsStayInv DEF webVars, authVars, tabVars
  <1> QED
    BY <1>2, <1>3, <1>4, <1>5, <1>6, <1>7, <1>8, <1>9, <1>10 DEF WebNext

\* A session has at most one token with a key.
LEMMA HeadsAreOne == WebInv => OneTokenPerSession
  <1> SUFFICES ASSUME WebInv, NEW s \in DOMAIN issued PROVE Cardinality(Live(s)) <= 1
    BY DEF OneTokenPerSession
  <1>1. stored \subseteq DOMAIN issued
    BY DEF WebInv, WebTyped, WebTypeOK, AuthTypeOK
  <1>2. \A t, u \in Live(s) : t = u
    BY <1>1 DEF WebInv, Chains, OneHead, StoredAreHeads, Live
  <1>3. CASE Live(s) = {}
    BY <1>3, FS_EmptySet
  <1>4. CASE Live(s) # {}
    <2>1. PICK t : t \in Live(s)
      BY <1>4
    <2>2. Live(s) = {t}
      BY <1>2, <2>1
    <2>3. Cardinality({t}) = 1
      BY FS_Singleton
    <2> QED
      BY <2>2, <2>3
  <1> QED
    BY <1>3, <1>4

\* Whatever calls meet a 401 together, whatever answers are lost and however
\* long the gateway goes on with a refresh the tab has given up, no session of
\* the tab ever has two tokens that work.
THEOREM TabTradesOnce == WebSpec => []TabTradesTokensOnce
  <1>1. WebInv => TabTradesTokensOnce
    BY HeadsAreOne DEF TabTradesTokensOnce
  <1> QED
    BY WebInitInv, WebNextInv, <1>1, PTL DEF WebSpec

==============================================================================
