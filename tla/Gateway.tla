------------------------------- MODULE Gateway -------------------------------
(***************************************************************************)
(* What a request goes through in the gateway (apps/auth-gateway/src):     *)
(* ProxyMiddleware (proxy/proxy.middleware.ts), which main.ts registers in *)
(* front of everything and ProxyModule once more, the guards, and the      *)
(* handler.  Of the token in the Authorization header, whose claims it     *)
(* carries is kept; a missing, malformed, forged or expired one is NoUser. *)
(***************************************************************************)
EXTENDS Naturals, Sequences

CONSTANTS Slot,     \* requests under way at one time
          User,     \* the users a valid token may be issued to
          Admin,    \* those with the role 'admin'
          NoUser

ASSUME UserAssumption == Admin \subseteq User /\ NoUser \notin User

Service == {"topology", "analysis", "registry"}

Path == Service \cup {"users", "auth"}

\* What main.ts, AppModule and ProxyModule put in front of every route,
BootstrapUses == <<"proxy">>
AppModuleApplies == <<"metrics">>
ProxyModuleApplies == <<"proxy">>

\* the guards of every handler (TeamAccessGuard passes every request: no handler
\* has its decorator), and those of UsersController.
AppModuleGuards == <<"throttler">>
AuthorizationGuards == <<"roles">>
UsersGuards == <<"jwt", "roles">>

\* The functions express and then Nest call, each when the one before lets the
\* request through.  A handler without guards of its own passes those of
\* UsersController unseen (RequiredRole).
Chain ==
  BootstrapUses \o AppModuleApplies \o ProxyModuleApplies
    \o AppModuleGuards \o AuthorizationGuards \o UsersGuards \o <<"handler">>

VARIABLE http   \* the request in every slot

Free == [ask |-> << >>, path |-> "none", token |-> NoUser, at |-> 0,
         awaits |-> "none", user |-> NoUser, forwarded |-> 0, upstream |-> 0,
         answers |-> << >>]

GatewayInit == http = [r \in Slot |-> Free]

\* ask is what the client wants; the gateway does not look at it.
Sent(ask, path, token) == [Free EXCEPT !.ask = ask, !.path = path, !.token = token, !.at = 1]

Receive(r, ask, path, token) ==
  /\ http[r] = Free
  /\ http' = [http EXCEPT ![r] = Sent(ask, path, token)]

Reached(r, function) ==
  LET h == http[r]
  IN  /\ h.at > 0 /\ h.awaits = "none"
      /\ Chain[h.at] = function

CallNext(r) == http' = [http EXCEPT ![r].at = @ + 1]

Reply(h, status) == [h EXCEPT !.at = 0, !.answers = Append(@, status)]

Answer(r, status) == http' = [http EXCEPT ![r] = Reply(@, status)]

------------------------------------------------------------------------------
\* ProxyMiddleware

IsProtectedProxyPath(path) == path \in Service

\* use, up to the await of authenticateRequest.
Use(r) ==
  /\ Reached(r, "proxy")
  /\ IF IsProtectedProxyPath(http[r].path)
     THEN http' = [http EXCEPT ![r].awaits = "claims"]
     ELSE CallNext(r)

\* Mutant: use calls next() after it has proxied the request.
ForwardedAndOn(h) ==
  [h EXCEPT !.user = h.token, !.forwarded = @ + 1, !.upstream = @ + 1, !.at = @ + 1]

\* The claims are attached, the proxy sends the request on with them.
Forwarded(h) ==
  [h EXCEPT !.user = h.token, !.forwarded = @ + 1, !.upstream = @ + 1, !.at = 0]

\* Mutant: authenticateRequest has no catch; main.ts voids the promise, and the
\* request is left as it was.
UnauthorizedUncaught(h) == [h EXCEPT !.awaits = "claims"]

Unauthorized(h) == Reply(h, 401)

\* use, after the await.
AuthenticateRequest(r) ==
  /\ http[r].awaits = "claims"
  /\ LET h == [http[r] EXCEPT !.awaits = "none"]
     IN  http' = [http EXCEPT ![r] = IF h.token # NoUser THEN Forwarded(h)
                                                        ELSE Unauthorized(h)]

Relayed(h, status) == [Reply(h, status) EXCEPT !.upstream = @ - 1]

\* The service answers, or the connection to it fails: http-proxy-middleware
\* relays the one and tells the other by an error status.
UpstreamEnds(r) ==
  /\ http[r].upstream > 0
  /\ \E status \in {200, 504} :
       http' = [http EXCEPT ![r] = Relayed(@, status)]

------------------------------------------------------------------------------
\* The rest of the chain

ProxyMetrics(r) == Reached(r, "metrics") /\ CallNext(r)

ThrottlerGuard(r) == Reached(r, "throttler") /\ (CallNext(r) \/ Answer(r, 429))

RequiredRole(path) == path = "users"

\* The guard is registered twice: for every handler, and by UsersController.
RolesGuard(r) ==
  /\ Reached(r, "roles")
  /\ IF RequiredRole(http[r].path) /\ http[r].user \notin Admin
     THEN Answer(r, 403) ELSE CallNext(r)

\* JwtAuthGuard and JwtStrategy, of UsersController only.
JwtAuthGuard(r) ==
  /\ Reached(r, "jwt")
  /\ LET h == http[r]
     IN  IF RequiredRole(h.path) /\ h.token = NoUser THEN Answer(r, 401)
         ELSE http' = [http EXCEPT ![r].at = @ + 1,
                         ![r].user = IF RequiredRole(h.path) THEN h.token ELSE @]

\* Mutant: the handler answers and calls next().
HandleAndOn(r) ==
  /\ Reached(r, "handler")
  /\ http' = [http EXCEPT ![r].at = @ + 1, ![r].answers = Append(@, 200)]

Handle(r) == Reached(r, "handler") /\ Answer(r, 200)

GatewayStep(r) ==
  \/ Use(r) \/ AuthenticateRequest(r) \/ UpstreamEnds(r)
  \/ ProxyMetrics(r) \/ ThrottlerGuard(r) \/ RolesGuard(r) \/ JwtAuthGuard(r) \/ Handle(r)

Ended(r) ==
  LET h == http[r]
  IN  h.answers # << >> /\ h.at = 0 /\ h.awaits = "none" /\ h.upstream = 0

\* The client has received the answer.
Return(r) == Ended(r) /\ http' = [http EXCEPT ![r] = Free]
==============================================================================
