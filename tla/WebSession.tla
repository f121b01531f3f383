----------------------------- MODULE WebSession ------------------------------
(***************************************************************************)
(* The session of one tab of the web app over the gateway of AuthTokens:   *)
(* AuthService (apps/web-app/src/app/core/services/auth.service.ts) and    *)
(* refreshTokenInterceptor (core/interceptors/refresh-token.interceptor.ts)*)
(* which wraps every API call.  The tab is the only client.                *)
(*                                                                         *)
(* The gateway checks the access token of a call by its signature and its  *)
(* age (proxy.middleware.ts:77), and a token may be past its age when the  *)
(* call arrives whichever it is: any call may be answered 401.  A login    *)
(* with a wrong password is such a call, too.                              *)
(***************************************************************************)
EXTENDS AuthTokens

CONSTANTS Call,       \* API calls the tab may have in flight
          NoRequest   \* no request: the value of a promise that is null

ASSUME NoRequestAssumption == NoRequest \notin Request

VARIABLES session,         \* the refresh token in state(), or NoToken
          loginRequest,    \* the login whose answer the tab waits for
          refreshPromise,  \* the refresh whose answer the tab waits for
          calls            \* where each call stands

tabVars == <<session, loginRequest, refreshPromise, calls>>

webVars == <<authVars, tabVars>>

WebInit ==
  /\ AuthInit
  /\ session = NoToken
  /\ loginRequest = NoRequest
  /\ refreshPromise = NoRequest
  /\ calls = [c \in Call |-> "idle"]

------------------------------------------------------------------------------
\* Login

StartLogin(q) ==
  /\ loginRequest = NoRequest
  /\ Login(q)
  /\ loginRequest' = q
  /\ UNCHANGED <<session, refreshPromise, calls>>

\* An error or a lost answer leaves the state as it was.
EndLogin(q) ==
  /\ loginRequest = q
  /\ Deliver(q)
  /\ loginRequest' = NoRequest
  /\ session' \in IF requests[q].stage = "answered" THEN {requests[q].new, session}
                                                    ELSE {session}
  /\ UNCHANGED <<refreshPromise, calls>>

------------------------------------------------------------------------------
\* Calls

Moved(c, at) == calls' = [calls EXCEPT ![c] = at]

\* The two interceptors: the access token of the state is attached.
SendCall(c) ==
  /\ calls[c] = "idle"
  /\ Moved(c, "sent")
  /\ UNCHANGED <<authVars, session, loginRequest, refreshPromise>>

\* The answer is not 401, or it is 401 and there is no session or the call was
\* retried before, or the call is lost.
EndCall(c) ==
  /\ calls[c] \in {"sent", "retried"}
  /\ Moved(c, "idle")
  /\ UNCHANGED <<authVars, session, loginRequest, refreshPromise>>

\* Mutant: refreshToken() sends a request of its own for every call.
RefreshAlways(c, q) ==
  /\ calls[c] = "sent" /\ session # NoToken
  /\ Refresh(q, session)
  /\ refreshPromise' = q
  /\ Moved(c, "waiting")
  /\ UNCHANGED <<session, loginRequest>>

\* 401, and the call is the first to ask for a new token.
RefreshFirst(c, q) ==
  /\ calls[c] = "sent" /\ session # NoToken
  /\ refreshPromise = NoRequest
  /\ Refresh(q, session)
  /\ refreshPromise' = q
  /\ Moved(c, "waiting")
  /\ UNCHANGED <<session, loginRequest>>

\* 401 while a refresh is under way: the call waits for the same promise.
RefreshShared(c) ==
  /\ calls[c] = "sent" /\ session # NoToken
  /\ refreshPromise # NoRequest
  /\ Moved(c, "waiting")
  /\ UNCHANGED <<authVars, session, loginRequest, refreshPromise>>

------------------------------------------------------------------------------
\* The end of a refresh

\* Mutant: an error of the refresh is thrown past the calls that wait.
ResumeOnSuccess(token) ==
  calls' = [c \in Call |->
              IF calls[c] = "waiting" /\ token # NoToken THEN "retried" ELSE calls[c]]

\* Every call that waits is retried with the new token, or, when there is
\* none, ends with its error.
Resume(token) ==
  calls' = [c \in Call |->
              CASE calls[c] # "waiting" -> calls[c]
                [] token = NoToken -> "idle"
                [] OTHER -> "retried"]

RefreshSucceeds(q) ==
  /\ refreshPromise = q
  /\ requests[q].stage = "answered"
  /\ Deliver(q)
  /\ session' = requests[q].new
  /\ refreshPromise' = NoRequest
  /\ Resume(requests[q].new)
  /\ UNCHANGED loginRequest

\* The gateway answers with an error, or the connection is lost while it still
\* works on the request: logout() clears the state.
RefreshFails(q) ==
  /\ refreshPromise = q
  /\ IF InHandling(q) THEN UNCHANGED authVars ELSE Deliver(q)
  /\ session' = NoToken
  /\ refreshPromise' = NoRequest
  /\ Resume(NoToken)
  /\ UNCHANGED loginRequest

\* An answer nobody waits for any more.
Discard(q) ==
  /\ q \notin {loginRequest, refreshPromise}
  /\ Deliver(q)
  /\ UNCHANGED tabVars

------------------------------------------------------------------------------
Gateway ==
  /\ \/ \E q \in Request : Handle(q) \/ RequestFails(q)
     \/ \E t \in Token : Expire(t)
  /\ UNCHANGED tabVars

WebNext ==
  \/ \E q \in Request :
       \/ StartLogin(q) \/ EndLogin(q)
       \/ RefreshSucceeds(q) \/ RefreshFails(q) \/ Discard(q)
       \/ \E c \in Call : RefreshFirst(c, q)
  \/ \E c \in Call : SendCall(c) \/ EndCall(c) \/ RefreshShared(c)
  \/ Gateway

WebSpec == WebInit /\ [][WebNext]_webVars

\* The gateway goes on with a request or fails it, and its answer arrives or
\* the browser reports an error.
WebFairness ==
  \A q \in Request :
    /\ WF_webVars((Handle(q) \/ RequestFails(q)) /\ UNCHANGED tabVars)
    /\ WF_webVars(RefreshSucceeds(q) \/ RefreshFails(q))

WebFairSpec == WebSpec /\ WebFairness

------------------------------------------------------------------------------
\* Properties

WebTypeOK ==
  /\ AuthTypeOK
  /\ session \in DOMAIN issued \cup {NoToken}
  /\ loginRequest \in Request \cup {NoRequest}
  /\ refreshPromise \in Request \cup {NoRequest}
  /\ calls \in [Call -> {"idle", "sent", "waiting", "retried"}]

\* refreshPromise keeps the tab from trading one token twice, so the sessions
\* of the web app have what OneTokenPerSession states, though concurrent
\* clients of the gateway do not: also when answers are lost and the gateway
\* goes on with a request the tab has given up.
TabTradesTokensOnce == OneTokenPerSession

\* No call is left hanging: one that waits for a refresh is retried or fails.
CallsEnd == \A c \in Call : calls[c] = "waiting" ~> calls[c] # "waiting"

==============================================================================
