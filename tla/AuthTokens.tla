----------------------------- MODULE AuthTokens ------------------------------
(***************************************************************************)
(* Refresh tokens of the auth gateway: AuthService                         *)
(* (apps/auth-gateway/src/auth/auth.service.ts) over the keys that         *)
(* RedisTokenService (redis-token.service.ts) keeps.  Every await of a     *)
(* handler is a step, so the requests of any number of clients and         *)
(* gateway replicas, which share one Redis, interleave.                    *)
(*                                                                         *)
(* A token is its rank among all tokens issued; its session is the login   *)
(* it descends from, and its parent the token that was traded for it.      *)
(***************************************************************************)
EXTENDS Naturals, Sequences, FiniteSets

CONSTANTS Request,    \* requests the gateway may be handling at one time
          MaxToken    \* bound on the tokens issued

ASSUME MaxTokenAssumption == MaxToken \in Nat

Token == 1 .. MaxToken

NoToken == 0

VARIABLES issued,     \* the refresh tokens issued so far
          stored,     \* tokens with a key refresh:<user>:<jti> in Redis
          requests,   \* where each request stands
          known,      \* tokens that were delivered to a client
          loggedOut   \* history: tokens of the logouts that were answered

authVars == <<issued, stored, requests, known, loggedOut>>

Free == [kind |-> "none", stage |-> "free", token |-> NoToken, new |-> NoToken]

AuthInit ==
  /\ issued = << >>
  /\ stored = {}
  /\ requests = [q \in Request |-> Free]
  /\ known = {}
  /\ loggedOut = {}

------------------------------------------------------------------------------
\* Arrival

Begin(q, kind, stage, token) ==
  /\ requests[q] = Free
  /\ requests' = [requests EXCEPT ![q] = [Free EXCEPT !.kind = kind, !.stage = stage,
                                                      !.token = token]]
  /\ UNCHANGED <<issued, stored, known, loggedOut>>

\* POST /auth/login or the OAuth callback, once the user is known.
Login(q) == Begin(q, "login", "store", NoToken)

Refresh(q, t) == Begin(q, "refresh", "check", t)

Logout(q, t) == Begin(q, "logout", "invalidate", t)

------------------------------------------------------------------------------
\* Handling

Goto(q, stage) == requests' = [requests EXCEPT ![q].stage = stage]

HasRefreshToken(q) ==
  /\ requests[q].stage = "check"
  /\ Goto(q, IF requests[q].token \in stored THEN "invalidate" ELSE "rejected")
  /\ UNCHANGED <<issued, stored, known, loggedOut>>

\* The last step of a logout; a refresh goes on.
InvalidateRefreshToken(q) ==
  /\ requests[q].stage = "invalidate"
  /\ stored' = stored \ {requests[q].token}
  /\ IF requests[q].kind = "logout"
     THEN Goto(q, "answered") /\ loggedOut' = loggedOut \cup {requests[q].token}
     ELSE Goto(q, "find") /\ UNCHANGED loggedOut
  /\ UNCHANGED <<issued, known>>

\* A user that was deleted meanwhile is not found; isActive is not read.
FindById(q) ==
  /\ requests[q].stage = "find"
  /\ \E stage \in {"store", "rejected"} : Goto(q, stage)
  /\ UNCHANGED <<issued, stored, known, loggedOut>>

\* Mutant: the new refresh token gets the jti of the old one.
StoreRefreshTokenUnderOldId(q) ==
  /\ requests[q].stage = "store"
  /\ Len(issued) < MaxToken
  /\ LET t == requests[q].token
         n == IF t = NoToken THEN Len(issued) + 1 ELSE t
     IN  /\ issued' = IF t = NoToken
                      THEN Append(issued, [session |-> n, parent |-> NoToken])
                      ELSE issued
         /\ stored' = stored \cup {n}
         /\ requests' = [requests EXCEPT ![q].stage = "lastLogin", ![q].new = n]
  /\ UNCHANGED <<known, loggedOut>>

\* Mutant: the key is set before the token is signed, which may fail.
StoreBeforeSigning(q) ==
  /\ requests[q].stage = "store"
  /\ Len(issued) < MaxToken
  /\ LET n == Len(issued) + 1
     IN  /\ stored' = stored \cup {n}
         /\ \/ /\ requests' = [requests EXCEPT ![q].stage = "rejected"]
               /\ UNCHANGED issued
            \/ /\ requests' = [requests EXCEPT ![q].stage = "lastLogin", ![q].new = n]
               /\ issued' = Append(issued, [session |-> n, parent |-> NoToken])
  /\ UNCHANGED <<known, loggedOut>>

\* issueTokens: a fresh jti, signed, its key set.
StoreRefreshToken(q) ==
  /\ requests[q].stage = "store"
  /\ Len(issued) < MaxToken
  /\ LET t == requests[q].token
         n == Len(issued) + 1
     IN  /\ issued' = Append(issued,
                        [session |-> IF t = NoToken THEN n ELSE issued[t].session,
                         parent |-> t])
         /\ stored' = stored \cup {n}
         /\ requests' = [requests EXCEPT ![q].stage = "lastLogin", ![q].new = n]
  /\ UNCHANGED <<known, loggedOut>>

UpdateLastLogin(q) ==
  /\ requests[q].stage = "lastLogin"
  /\ Goto(q, "answered")
  /\ UNCHANGED <<issued, stored, known, loggedOut>>

InHandling(q) == requests[q].stage \notin {"free", "answered", "rejected"}

\* Redis or PostgreSQL does not answer, or the gateway is killed: the request
\* ends where it stands, and what it wrote stays.
RequestFails(q) ==
  /\ InHandling(q)
  /\ Goto(q, "rejected")
  /\ UNCHANGED <<issued, stored, known, loggedOut>>

\* The time to live of the key runs out, and the token expires with it.
Expire(t) ==
  /\ t \in stored
  /\ stored' = stored \ {t}
  /\ UNCHANGED <<issued, requests, known, loggedOut>>

\* The answer reaches the client.
Deliver(q) ==
  /\ requests[q].stage \in {"answered", "rejected"}
  /\ known' = IF requests[q].stage = "answered" /\ requests[q].new # NoToken
              THEN known \cup {requests[q].new} ELSE known
  /\ requests' = [requests EXCEPT ![q] = Free]
  /\ UNCHANGED <<issued, stored, loggedOut>>

\* Every step the gateway takes by itself.
Handle(q) ==
  \/ HasRefreshToken(q) \/ InvalidateRefreshToken(q) \/ FindById(q)
  \/ StoreRefreshToken(q) \/ UpdateLastLogin(q)

AuthNext ==
  \/ \E q \in Request :
       \/ Login(q) \/ Handle(q) \/ RequestFails(q) \/ Deliver(q)
       \/ \E t \in known : Refresh(q, t) \/ Logout(q, t)
  \/ \E t \in Token : Expire(t)

AuthSpec == AuthInit /\ [][AuthNext]_authVars

------------------------------------------------------------------------------
\* Properties

AuthTypeOK ==
  /\ issued \in Seq([session : Token, parent : Token \cup {NoToken}])
  /\ Len(issued) <= MaxToken
  /\ stored \cup known \cup loggedOut \subseteq DOMAIN issued
  /\ requests \in [Request -> [kind : {"none", "login", "refresh", "logout"},
                               stage : {"free", "check", "invalidate", "find", "store",
                                        "lastLogin", "answered", "rejected"},
                               token : DOMAIN issued \cup {NoToken},
                               new : DOMAIN issued \cup {NoToken}]]

\* "invalidate refresh token" (docs/api-guide.md:18): once a logout was
\* answered its token has no key in Redis, whatever refreshes of the same token
\* were under way when it came.
LogoutIsFinal == loggedOut \cap stored = {}

\* The tokens of a session that still work.
Live(s) == {t \in stored : issued[t].session = s}

\* "JWT auth with refresh token rotation in Redis" (apps/auth-gateway/
\* README.md:6): the tokens of a session replace each other, so at most one of
\* them works.
OneTokenPerSession == \A s \in DOMAIN issued : Cardinality(Live(s)) <= 1

==============================================================================
