----------------------------- MODULE PagesProofs -----------------------------
(***************************************************************************)
(* Proofs about Gateway and Pages, for any number of requests under way,   *)
(* users, snapshots and proposals: a request is answered once, and only    *)
(* with the claims of its own token, and what a page shows belongs to what *)
(* it asked for last, unless an answer was overtaken or a submit came in   *)
(* between.                                                                *)
(***************************************************************************)
EXTENDS Pages, ListsProofs

------------------------------------------------------------------------------
\* Requests in the gateway

Status == {200, 401, 403, 429, 504}

Fields == {"ask", "path", "token", "at", "awaits", "user", "forwarded", "upstream", "answers"}

\* In the chain, with the proxy waiting for its claims or not, at a service, or
\* answered.
Lifecycle(ask, path, token, at, awaits, user, forwarded, upstream, answers) ==
  /\ path \in Path \cup {"none"} /\ token \in Token /\ user \in Token
  /\ at \in 0 .. 8 /\ awaits \in {"none", "claims"}
  /\ answers = << >> \/ \E status \in Status : answers = <<status>>
  /\ awaits = "claims" => at > 0 /\ path \in Service
  /\ at > 0 => answers = << >> /\ forwarded = 0
  /\ at > 1 => path \notin Service
  /\ \/ forwarded = 0 /\ upstream = 0
     \/ /\ forwarded = 1 /\ user = token /\ user # NoUser /\ path \in Service
        /\ \/ upstream = 1 /\ answers = << >>
           \/ upstream = 0 /\ answers # << >>
  /\ ask = << >> => at = 0 /\ upstream = 0 /\ answers = << >>

RequestOK(h) ==
  /\ h = [field \in Fields |-> h[field]]
  /\ Lifecycle(h.ask, h.path, h.token, h.at, h.awaits, h.user, h.forwarded,
               h.upstream, h.answers)

RequestsOK == http \in [Slot -> {http[r] : r \in Slot}] /\ \A r \in Slot : RequestOK(http[r])

\* The chain begins with the proxy of main.ts and ends with the handler.
LEMMA ChainLinks == Len(Chain) = 8 /\ Chain[1] = "proxy" /\ Chain[8] = "handler"
BY DEF Chain, BootstrapUses, AppModuleApplies, ProxyModuleApplies, AppModuleGuards,
       AuthorizationGuards, UsersGuards

LEMMA RequestsStep ==
  ASSUME RequestsOK, NEW r \in Slot, NEW h, RequestOK(h), http' = [http EXCEPT ![r] = h]
  PROVE  RequestsOK' /\ http'[r] = h /\ \A q \in Slot : q # r => http'[q] = http[q]
<1>1. DOMAIN http = Slot BY DEF RequestsOK
<1>2. \A q \in Slot : http'[q] = IF q = r THEN h ELSE http[q] BY <1>1
<1>3. http' = [q \in Slot |-> IF q = r THEN h ELSE http[q]] BY <1>1
<1>4. http' = [q \in Slot |-> http'[q]] BY <1>2, <1>3
<1>5. http' \in [Slot -> {http'[q] : q \in Slot}] BY <1>4
<1>6. \A q \in Slot : RequestOK(http'[q]) BY <1>2 DEF RequestsOK
<1> QED BY <1>2, <1>5, <1>6 DEF RequestsOK

LEMMA FreeOK == RequestOK(Free)
<1>1. NoUser \in Token BY DEF Token
<1>2. Free = [field \in Fields |-> Free[field]] BY DEF Free, Fields
<1>3. Lifecycle(<< >>, "none", NoUser, 0, "none", NoUser, 0, 0, << >>) BY <1>1 DEF Lifecycle
<1>4. /\ Free.ask = << >> /\ Free.path = "none" /\ Free.token = NoUser /\ Free.at = 0
      /\ Free.awaits = "none" /\ Free.user = NoUser /\ Free.forwarded = 0
      /\ Free.upstream = 0 /\ Free.answers = << >>
  BY DEF Free
<1> QED BY <1>2, <1>3, <1>4 DEF RequestOK

LEMMA SentOK ==
  ASSUME NEW ask, ask # << >>, NEW path \in Path, NEW token \in Token
  PROVE  RequestOK(Sent(ask, path, token)) /\ Sent(ask, path, token).ask = ask
<1> DEFINE h == Sent(ask, path, token)
<1>1. NoUser \in Token BY DEF Token
<1>2. Free = [field \in Fields |-> Free[field]] BY DEF Free, Fields
<1>3. /\ h = [field \in Fields |-> h[field]]
      /\ h.ask = ask /\ h.path = path /\ h.token = token /\ h.at = 1
      /\ h.awaits = Free.awaits /\ h.user = Free.user /\ h.forwarded = Free.forwarded
      /\ h.upstream = Free.upstream /\ h.answers = Free.answers
  BY <1>2 DEF Sent, Fields
<1>4. /\ Free.awaits = "none" /\ Free.user = NoUser /\ Free.forwarded = 0
      /\ Free.upstream = 0 /\ Free.answers = << >>
  BY DEF Free
<1> HIDE DEF h
<1>5. Lifecycle(ask, path, token, 1, "none", NoUser, 0, 0, << >>) BY <1>1 DEF Lifecycle
<1>6. RequestOK(h) BY <1>3, <1>4, <1>5 DEF RequestOK
<1> QED BY <1>3, <1>6 DEF h

\* The asking page is left.
LEMMA UnwantedOK ==
  ASSUME NEW h, RequestOK(h)
  PROVE  RequestOK([h EXCEPT !.ask = Nothing]) /\ [h EXCEPT !.ask = Nothing].ask = Nothing
<1> DEFINE k == [h EXCEPT !.ask = Nothing]
<1>1. h = [field \in Fields |-> h[field]] BY DEF RequestOK
<1>2. /\ k = [field \in Fields |-> k[field]]
      /\ k.ask = Nothing /\ k.path = h.path /\ k.token = h.token /\ k.at = h.at
      /\ k.awaits = h.awaits /\ k.user = h.user /\ k.forwarded = h.forwarded
      /\ k.upstream = h.upstream /\ k.answers = h.answers
  BY <1>1 DEF Fields
<1> HIDE DEF k
<1>3. Lifecycle(Nothing, h.path, h.token, h.at, h.awaits, h.user, h.forwarded,
                h.upstream, h.answers)
  <2>1. Nothing # << >> BY DEF Nothing, Wanted
  <2> HIDE DEF Nothing
  <2> QED BY <2>1 DEF RequestOK, Lifecycle
<1>4. RequestOK(k) BY <1>2, <1>3 DEF RequestOK
<1> QED BY <1>2, <1>4 DEF k

\* What becomes of a request, whoever it belongs to.
Becomes(h, k, at, awaits, user, forwarded, upstream, answers) ==
  /\ k = [field \in Fields |-> k[field]]
  /\ k.ask = h.ask /\ k.path = h.path /\ k.token = h.token /\ k.at = at
  /\ k.awaits = awaits /\ k.user = user /\ k.forwarded = forwarded
  /\ k.upstream = upstream /\ k.answers = answers

LEMMA BecomesOK ==
  ASSUME NEW h, NEW k, NEW at, NEW awaits, NEW user, NEW forwarded, NEW upstream, NEW answers,
         Becomes(h, k, at, awaits, user, forwarded, upstream, answers),
         Lifecycle(h.ask, h.path, h.token, at, awaits, user, forwarded, upstream, answers)
  PROVE  RequestOK(k) /\ k.ask = h.ask
BY DEF Becomes, RequestOK

LEMMA ReplyOK ==
  ASSUME NEW h, h = [field \in Fields |-> h[field]], NEW status
  PROVE  Becomes(h, Reply(h, status), 0, h.awaits, h.user, h.forwarded, h.upstream,
                 Append(h.answers, status))
BY DEF Becomes, Reply, Fields

LEMMA GatewayOK ==
  ASSUME RequestsOK, NEW r \in Slot, GatewayStep(r)
  PROVE  RequestsOK' /\ \A q \in Slot : http'[q].ask = http[q].ask
<1> DEFINE h == http[r]
           Goal(k) == RequestOK(k) /\ k.ask = h.ask
<1>1. /\ h = [field \in Fields |-> h[field]]
      /\ Lifecycle(h.ask, h.path, h.token, h.at, h.awaits, h.user, h.forwarded,
                   h.upstream, h.answers)
  BY DEF RequestsOK, RequestOK
<1>2. \A k : http' = [http EXCEPT ![r] = k] /\ Goal(k) =>
        RequestsOK' /\ \A q \in Slot : http'[q].ask = http[q].ask
  <2> SUFFICES ASSUME NEW k, http' = [http EXCEPT ![r] = k], Goal(k)
               PROVE  RequestsOK' /\ \A q \in Slot : http'[q].ask = http[q].ask
    OBVIOUS
  <2> QED BY RequestsStep
<1>3. SUFFICES \E k : http' = [http EXCEPT ![r] = k] /\ Goal(k) BY <1>2
<1>4. DOMAIN http = Slot BY DEF RequestsOK
<1>5. Chain[1] = "proxy" /\ Chain[8] = "handler" BY ChainLinks
\* An answer of the gateway itself, to a request in the chain.
<1>6. ASSUME NEW status \in Status, Answer(r, status), h.at > 0, h.awaits = "none"
      PROVE  \E k : http' = [http EXCEPT ![r] = k] /\ Goal(k)
  <2>1. http' = [http EXCEPT ![r] = Reply(h, status)] BY <1>4, <1>6 DEF Answer
  <2>2. h.answers = << >> /\ Append(<< >>, status) = <<status>>
    BY <1>1, <1>6 DEF Lifecycle
  <2>3. Becomes(h, Reply(h, status), 0, h.awaits, h.user, h.forwarded, h.upstream,
                Append(h.answers, status))
    BY <1>1, ReplyOK
  <2>4. Lifecycle(h.ask, h.path, h.token, 0, h.awaits, h.user, h.forwarded, h.upstream,
                  <<status>>)
    BY <1>1, <1>6 DEF Lifecycle
  <2> HIDE DEF h
  <2>5. RequestOK(Reply(h, status)) /\ Reply(h, status).ask = h.ask
    BY <2>2, <2>3, <2>4, BecomesOK
  <2> QED BY <2>1, <2>5
<1>7. ASSUME NEW user \in {h.user, h.token},
             http' = [http EXCEPT ![r] = [h EXCEPT !.at = @ + 1, !.user = user]],
             h.at \in 1 .. 7, h.awaits = "none", h.path \notin Service
      PROVE  \E k : http' = [http EXCEPT ![r] = k] /\ Goal(k)
  <2> DEFINE k == [h EXCEPT !.at = @ + 1, !.user = user]
  <2>2. Becomes(h, k, h.at + 1, "none", user, h.forwarded, h.upstream, h.answers)
    BY <1>1, <1>7 DEF Becomes, Fields
  <2>3. Lifecycle(h.ask, h.path, h.token, h.at + 1, "none", user, h.forwarded,
                  h.upstream, h.answers)
    BY <1>1, <1>7 DEF Lifecycle
  <2> HIDE DEF h, k
  <2>4. RequestOK(k) /\ k.ask = h.ask BY <2>2, <2>3, BecomesOK
  <2> QED BY <1>7, <2>4 DEF k
<1>8. ASSUME CallNext(r), h.at \in 1 .. 7, h.awaits = "none", h.path \notin Service
      PROVE  \E k : http' = [http EXCEPT ![r] = k] /\ Goal(k)
  <2>1. [h EXCEPT !.at = @ + 1] = [h EXCEPT !.at = @ + 1, !.user = h.user]
    BY <1>1 DEF Fields
  <2>2. http' = [http EXCEPT ![r] = [h EXCEPT !.at = @ + 1]] BY <1>4, <1>8 DEF CallNext
  <2> QED BY <1>7, <1>8, <2>1, <2>2
<1>9. ASSUME NEW function, Reached(r, function)
      PROVE  /\ h.at > 0 /\ h.at \in 1 .. 8 /\ h.awaits = "none"
             /\ function # "handler" => h.at \in 1 .. 7
             /\ function # "proxy" => h.at > 1 /\ h.path \notin Service
  <2>1. h.at > 0 /\ h.awaits = "none" /\ Chain[h.at] = function BY <1>9 DEF Reached
  <2>2. h.at \in 0 .. 8 /\ (h.at > 1 => h.path \notin Service) BY <1>1 DEF Lifecycle
  <2>3. h.at = 1 => function = "proxy" BY <1>5, <2>1
  <2>4. h.at = 8 => function = "handler" BY <1>5, <2>1
  <2> HIDE DEF h
  <2> QED BY <2>1, <2>2, <2>3, <2>4
<1>10. CASE Use(r)
  <2>1. Reached(r, "proxy") BY <1>10 DEF Use
  <2>2. h.at \in 1 .. 7 /\ h.at > 0 /\ h.awaits = "none" BY <1>9, <2>1
  <2>3. CASE h.path \in Service
    <3> DEFINE k == [h EXCEPT !.awaits = "claims"]
    <3>1. http' = [http EXCEPT ![r] = k]
      BY <1>4, <1>10, <2>3 DEF Use, IsProtectedProxyPath
    <3>2. Becomes(h, k, h.at, "claims", h.user, h.forwarded, h.upstream, h.answers)
      BY <1>1 DEF Becomes, Fields
    <3>3. Lifecycle(h.ask, h.path, h.token, h.at, "claims", h.user, h.forwarded,
                    h.upstream, h.answers)
      BY <1>1, <2>2, <2>3 DEF Lifecycle
    <3> HIDE DEF h, k
    <3>4. RequestOK(k) /\ k.ask = h.ask BY <3>2, <3>3, BecomesOK
    <3> QED BY <3>1, <3>4
  <2>4. CASE h.path \notin Service
    <3>1. CallNext(r) BY <1>10, <2>4 DEF Use, IsProtectedProxyPath
    <3> QED BY <1>8, <2>2, <2>4, <3>1
  <2> QED BY <2>3, <2>4
<1>11. CASE AuthenticateRequest(r)
  <2> DEFINE g == [h EXCEPT !.awaits = "none"]
  <2>1. h.awaits = "claims" BY <1>11 DEF AuthenticateRequest
  <2>2. /\ h.at > 0 /\ h.path \in Service /\ h.answers = << >>
        /\ h.forwarded = 0 /\ h.upstream = 0
    BY <1>1, <2>1 DEF Lifecycle
  <2>3. Becomes(h, g, h.at, "none", h.user, h.forwarded, h.upstream, h.answers)
    BY <1>1 DEF Becomes, Fields
  <2>4. http' = [http EXCEPT ![r] = IF g.token # NoUser THEN Forwarded(g) ELSE Unauthorized(g)]
    BY <1>4, <1>11 DEF AuthenticateRequest
  <2>5. Lifecycle(h.ask, h.path, h.token, 0, "none", h.token, 1, 1, << >>)
            \/ h.token = NoUser
    BY <1>1, <2>2 DEF Lifecycle
  <2>6. Lifecycle(h.ask, h.path, h.token, 0, "none", h.user, 0, 0, <<401>>)
    BY <1>1, <2>2 DEF Lifecycle, Status
  <2> HIDE DEF h, g
  <2>7. CASE h.token # NoUser
    <3>1. Becomes(h, Forwarded(g), 0, "none", h.token, 1, 1, << >>)
      <4> DEFINE k == Forwarded(g)
      <4>1. /\ g = [field \in Fields |-> g[field]]
            /\ g.ask = h.ask /\ g.path = h.path /\ g.token = h.token
            /\ g.awaits = "none" /\ g.forwarded = 0 /\ g.upstream = 0
            /\ g.answers = << >>
        BY <2>2, <2>3 DEF Becomes
      <4>2. k = [field \in Fields |-> k[field]] BY <4>1 DEF Forwarded, Fields
      <4>3. /\ k.ask = g.ask /\ k.path = g.path /\ k.token = g.token /\ k.at = 0
            /\ k.awaits = g.awaits /\ k.user = g.token /\ k.answers = g.answers
            /\ k.forwarded = g.forwarded + 1 /\ k.upstream = g.upstream + 1
        BY <4>1 DEF Forwarded, Fields
      <4> HIDE DEF k
      <4> QED BY <4>1, <4>2, <4>3 DEF Becomes, k
    <3>2. RequestOK(Forwarded(g)) /\ Forwarded(g).ask = h.ask
      BY <2>5, <2>7, <3>1, BecomesOK
    <3> QED BY <2>3, <2>4, <2>7, <3>2 DEF Becomes
  <2>8. CASE h.token = NoUser
    <3>1. Becomes(g, Reply(g, 401), 0, g.awaits, g.user, g.forwarded, g.upstream,
                  Append(g.answers, 401))
      BY <2>3, ReplyOK DEF Becomes
    <3>2. Append(g.answers, 401) = <<401>>
      <4>1. Append(<< >>, 401) = <<401>> OBVIOUS
      <4>2. g.answers = << >> BY <2>2, <2>3 DEF Becomes
      <4> QED BY <4>1, <4>2
    <3>3. Becomes(h, Reply(g, 401), 0, "none", h.user, 0, 0, <<401>>)
      BY <2>2, <2>3, <3>1, <3>2 DEF Becomes
    <3>4. RequestOK(Reply(g, 401)) /\ Reply(g, 401).ask = h.ask BY <2>6, <3>3, BecomesOK
    <3> QED BY <2>3, <2>4, <2>8, <3>4 DEF Becomes, Unauthorized
  <2> QED BY <2>7, <2>8
<1>12. CASE UpstreamEnds(r)
  <2>1. PICK status \in {200, 504} :
          http' = [http EXCEPT ![r] = Relayed(h, status)]
    BY <1>4, <1>12 DEF UpstreamEnds
  <2>2. /\ h.forwarded = 1 /\ h.upstream = 1 /\ h.answers = << >> /\ h.at = 0
        /\ h.awaits = "none"
    BY <1>1, <1>12 DEF UpstreamEnds, Lifecycle
  <2>3. Lifecycle(h.ask, h.path, h.token, 0, "none", h.user, 1, 0, <<status>>)
    BY <1>1, <2>2 DEF Lifecycle, Status
  <2> HIDE DEF h
  <2> DEFINE g == Reply(h, status)
             relayed == Relayed(h, status)
  <2>4. Becomes(h, g, 0, h.awaits, h.user, h.forwarded, h.upstream, Append(h.answers, status))
    BY <1>1, ReplyOK
  <2>5. Append(h.answers, status) = <<status>> BY <2>2
  <2>6. relayed = [g EXCEPT !.upstream = @ - 1] BY DEF Relayed
  <2>7. http' = [http EXCEPT ![r] = relayed] BY <2>1
  <2> HIDE DEF g, relayed
  <2>8. Becomes(h, relayed, 0, "none", h.user, 1, 0, <<status>>)
    BY <2>2, <2>4, <2>5, <2>6 DEF Becomes, Fields
  <2>9. RequestOK(relayed) /\ relayed.ask = h.ask BY <2>3, <2>8, BecomesOK
  <2>10. Goal(relayed) BY <2>9
  <2> HIDE DEF Goal
  <2> QED BY <2>7, <2>10
<1>13. CASE ProxyMetrics(r)
  <2>1. Reached(r, "metrics") /\ CallNext(r) BY <1>13 DEF ProxyMetrics
  <2> QED BY <1>8, <1>9, <2>1
<1>14. CASE ThrottlerGuard(r)
  <2>1. Reached(r, "throttler") /\ (CallNext(r) \/ Answer(r, 429)) BY <1>14 DEF ThrottlerGuard
  <2>2. 429 \in Status BY DEF Status
  <2> QED BY <1>6, <1>8, <1>9, <2>1, <2>2
<1>15. CASE RolesGuard(r)
  <2>1. Reached(r, "roles") /\ (CallNext(r) \/ Answer(r, 403)) BY <1>15 DEF RolesGuard
  <2>2. 403 \in Status BY DEF Status
  <2> QED BY <1>6, <1>8, <1>9, <2>1, <2>2
<1>16. CASE JwtAuthGuard(r)
  <2>1. Reached(r, "jwt") BY <1>16 DEF JwtAuthGuard
  <2>2. 401 \in Status BY DEF Status
  <2>3. CASE Answer(r, 401) BY <1>6, <1>9, <2>1, <2>2, <2>3
  <2>4. CASE ~ Answer(r, 401)
    <3> DEFINE user == IF RequiredRole(h.path) THEN h.token ELSE h.user
    <3>1. http' = [http EXCEPT ![r].at = @ + 1,
                     ![r].user = IF RequiredRole(h.path) THEN h.token ELSE @]
      BY <1>16, <2>4 DEF JwtAuthGuard
    <3>2. http' = [http EXCEPT ![r] = [h EXCEPT !.at = @ + 1, !.user = user]]
      BY <1>1, <1>4, <3>1 DEF Fields
    <3>3. user \in {h.user, h.token} OBVIOUS
    <3>4. h.at \in 1 .. 7 /\ h.awaits = "none" /\ h.path \notin Service BY <1>9, <2>1
    <3> HIDE DEF user
    <3> QED BY <1>7, <3>2, <3>3, <3>4
  <2> QED BY <2>3, <2>4
<1>17. CASE Handle(r)
  <2>1. Reached(r, "handler") /\ Answer(r, 200) BY <1>17 DEF Handle
  <2>2. 200 \in Status BY DEF Status
  <2> QED BY <1>6, <1>9, <2>1, <2>2
<1> QED
  BY <1>10, <1>11, <1>12, <1>13, <1>14, <1>15, <1>16, <1>17 DEF GatewayStep

------------------------------------------------------------------------------
\* What the open page waits for

Kinds(p) ==
  {"none"} \cup IF p = "snapshots" THEN {"list", "compare"}
                ELSE IF p = "analysis" THEN {"services", "impact"} ELSE {}

HistoryFields == {"slots", "overlapped", "overtaken"}

AskOK(ask) ==
  \/ ask = << >>
  \/ /\ ask = Wanted(ask.kind, ask.about)
     /\ ask.kind \in Kinds(page)
     /\ ask.kind = "none" => ask = Nothing
     /\ ask.kind = "impact" => ask.about \in Proposal

Asks(r, kind) == http[r].ask # << >> /\ http[r].ask.kind = kind

Wants(r) == http[r].ask \notin {<< >>, Nothing}

Distinct(slots) == \A i, j \in 1 .. Len(slots) : slots[i] = slots[j] => i = j

Among(r, slots) == \E i \in 1 .. Len(slots) : slots[i] = r

SlotsOK ==
  /\ asked = [field \in HistoryFields |-> asked[field]]
  /\ asked.slots \in Seq(Slot) /\ Distinct(asked.slots)
  /\ \A r \in Slot : Wants(r) <=> Among(r, asked.slots)
  /\ ~ asked.overlapped => Len(asked.slots) <= 1

LastAsked == asked.slots[Len(asked.slots)]

\* The answer to the list is the only one awaited, and the page is as it was.
Opening(kind) == \E r \in Slot : asked.slots = <<r>> /\ http[r].ask = Wanted(kind, << >>)

\* Nothing can be asked for before the list has come; then the last request is
\* about what is selected.
SnapshotsOK ==
  /\ options \in Seq(Snapshot) /\ {left, right} \subseteq Snapshot \cup {None}
  /\ \A r \in Slot : Asks(r, "list") => Opening("list")
  /\ Opening("list") => options = << >> /\ comparison = None
  /\ page # "snapshots" => options = << >> /\ comparison = None
  /\ page = "snapshots" /\ ~ asked.overtaken /\ ~ Opening("list") =>
       IF AtRest THEN comparison \in {Empty, <<left, right>>}
       ELSE http[LastAsked].ask = Wanted("compare", <<left, right>>)

AnalysisOK ==
  /\ result \in Proposal \cup {None}
  /\ \A r \in Slot : Asks(r, "services") => Opening("services")
  /\ Opening("services") => ~ services
  /\ page # "analysis" => ~ services /\ ~ loading /\ ~ error /\ result = None
  /\ page = "analysis" /\ ~ services /\ ~ AtRest => Opening("services")
  /\ ~ asked.overlapped =>
       /\ loading <=> services /\ ~ AtRest
       /\ loading => ~ error /\ result = None
       /\ error => result = None

PageInv ==
  /\ page \in {"none", "snapshots", "analysis"}
  /\ \A r \in Slot : AskOK(http[r].ask)
  /\ SlotsOK /\ SnapshotsOK /\ AnalysisOK

PagesInv == RequestsOK /\ PageInv

LEMMA WantedFacts ==
  /\ \A kind, about : /\ Wanted(kind, about) # << >>
                      /\ Wanted(kind, about).kind = kind
                      /\ Wanted(kind, about).about = about
  /\ Nothing # << >> /\ Nothing.kind = "none" /\ Nothing = Wanted("none", << >>)
<1>1. \A kind, about : /\ Wanted(kind, about) # << >>
                       /\ Wanted(kind, about).kind = kind
                       /\ Wanted(kind, about).about = about
  BY DEF Wanted
<1> QED BY <1>1 DEF Nothing

\* An answer takes its slot out of the history.
LEMMA RemoveOne ==
  ASSUME NEW list \in Seq(Slot), Distinct(list), NEW r \in Slot, Among(r, list),
         NEW short, short = Keep(list, Slot \ {r})
  PROVE  /\ short \in Seq(Slot) /\ Distinct(short) /\ Len(short) <= Len(list)
         /\ \A q \in Slot : Among(q, short) <=> q # r /\ Among(q, list)
         /\ short = << >> <=> list = <<r>>
         /\ short # << >> /\ r = Head(list) => short[Len(short)] = list[Len(list)]
<1> DEFINE kept == Slot \ {r}
           n == Len(list)
           m == Len(short)
           Filtered(s) ==
             /\ s \in Seq(Slot) /\ Len(s) <= Len(list)
             /\ \E at \in [1 .. Len(s) -> 1 .. Len(list)] :
                  /\ \A i, j \in DOMAIN at : i < j => at[i] < at[j]
                  /\ \A i \in DOMAIN at : s[i] = list[at[i]] /\ list[at[i]] \in kept
                  /\ \A j \in 1 .. Len(list) :
                       list[j] \in kept => \E i \in DOMAIN at : at[i] = j
<1>1. n \in Nat /\ \A i \in 1 .. n : list[i] \in Slot BY LenProperties
<1>2. Filtered(Keep(list, kept))
  <2> HIDE DEF kept
  <2> QED BY KeepPositions
<1>3. Filtered(short)
  <2> HIDE DEF Filtered
  <2> QED BY <1>2
<1>4. PICK at \in [1 .. m -> 1 .. n] :
        /\ \A i, j \in DOMAIN at : i < j => at[i] < at[j]
        /\ \A i \in DOMAIN at : short[i] = list[at[i]] /\ list[at[i]] \in kept
        /\ \A j \in 1 .. n : list[j] \in kept => \E i \in DOMAIN at : at[i] = j
  BY <1>3, Zenon
<1>5. DOMAIN at = 1 .. m OBVIOUS
<1>6. short \in Seq(Slot) /\ m <= n BY <1>3, Zenon
<1> HIDE DEF kept, n, m, Filtered
<1>7. /\ \A i, j \in 1 .. m : i < j => at[i] < at[j]
      /\ \A i \in 1 .. m : short[i] = list[at[i]] /\ list[at[i]] \in kept
      /\ \A j \in 1 .. n : list[j] \in kept => \E i \in 1 .. m : at[i] = j
  BY <1>4, <1>5, Zenon
<1>8. short \in Seq(Slot) /\ m <= n /\ m \in Nat BY <1>6, LenProperties DEF m
<1>9. \A i \in 1 .. m : at[i] \in 1 .. n OBVIOUS
<1>10. \A q \in Slot : q \in kept <=> q # r BY DEF kept
<1>11. ASSUME NEW i \in 1 .. m, NEW j \in 1 .. m, short[i] = short[j] PROVE i = j
  <2>1. at[i] = at[j]
    <3>1. list[at[i]] = list[at[j]] BY <1>7, <1>11
    <3> QED BY <1>9, <3>1 DEF Distinct, n
  <2>2. ~ (i < j) /\ ~ (j < i) BY <1>1, <1>7, <1>9, <2>1
  <2> QED BY <1>8, <2>2
<1>12. Distinct(short) BY <1>11 DEF Distinct, m
<1>13. ASSUME NEW q \in Slot PROVE Among(q, short) <=> q # r /\ Among(q, list)
  <2>1. ASSUME NEW i \in 1 .. m, short[i] = q PROVE q # r /\ Among(q, list)
    <3>1. list[at[i]] = q /\ q \in kept /\ at[i] \in 1 .. n BY <1>7, <1>9, <2>1
    <3> QED BY <1>10, <3>1 DEF Among, n
  <2>2. ASSUME NEW j \in 1 .. n, list[j] = q, q # r PROVE Among(q, short)
    <3>1. list[j] \in kept BY <1>10, <2>2
    <3>2. PICK i \in 1 .. m : at[i] = j BY <1>7, <3>1
    <3>3. short[i] = q BY <1>7, <2>2, <3>2
    <3> QED BY <3>3 DEF Among, m
  <2> QED BY <2>1, <2>2 DEF Among, n, m
<1>14. PICK place \in 1 .. n : list[place] = r BY DEF Among, n
<1>15. short = << >> <=> m = 0 BY <1>8, EmptySeq DEF m
<1>16. list = <<r>> => m = 0
  <2> SUFFICES ASSUME list = <<r>>, m # 0 PROVE FALSE OBVIOUS
  <2>1. 1 \in 1 .. m BY <1>8
  <2>2. n = 1 /\ \A j \in 1 .. n : list[j] = r BY DEF n
  <2>3. list[at[1]] = r BY <1>9, <2>1, <2>2
  <2>4. list[at[1]] \in kept BY <1>7, <2>1
  <2> QED BY <1>10, <2>3, <2>4
<1>17. m = 0 => list = <<r>>
  <2> SUFFICES ASSUME m = 0 PROVE list = <<r>> OBVIOUS
  <2>1. \A j \in 1 .. n : list[j] = r
    <3> SUFFICES ASSUME NEW j \in 1 .. n, list[j] # r PROVE FALSE OBVIOUS
    <3>1. list[j] \in kept BY <1>1, <1>10
    <3>2. PICK i \in 1 .. m : at[i] = j BY <1>7, <3>1
    <3> QED OBVIOUS
  <2>2. \A j \in 1 .. n : j = place BY <1>14, <2>1 DEF Distinct, n
  <2>3. 1 \in 1 .. n /\ n \in 1 .. n BY <1>1, <1>14
  <2>4. n = 1 /\ list[1] = r BY <2>1, <2>2, <2>3
  <2> QED BY <2>4 DEF n
<1>18. ASSUME m # 0, r = Head(list) PROVE short[m] = list[n]
  <2>1. 1 \in 1 .. m /\ m \in 1 .. m BY <1>8, <1>18
  <2>2. n # 0 /\ 1 \in 1 .. n /\ n \in 1 .. n BY <1>1, <1>14
  <2>3. list[1] = r BY <1>18
  <2>4. n # 1
    <3>1. at[1] \in 1 .. n BY <1>9, <2>1
    <3>2. list[at[1]] # r BY <1>1, <1>7, <1>10, <2>1, <3>1
    <3>3. at[1] # 1 BY <2>3, <3>2
    <3> QED BY <3>1, <3>3
  <2>5. list[n] # r BY <2>2, <2>3, <2>4 DEF Distinct, n
  <2>6. list[n] \in kept BY <1>1, <1>10, <2>2, <2>5
  <2>7. PICK i \in 1 .. m : at[i] = n BY <1>7, <2>2, <2>6
  <2>8. i = m
    <3>1. i < m => n < at[m] BY <1>7, <2>1, <2>7
    <3>2. at[m] \in 1 .. n BY <1>9, <2>1
    <3> QED BY <1>1, <1>8, <2>1, <3>1, <3>2
  <2> QED BY <1>7, <2>1, <2>7, <2>8
<1> QED BY <1>8, <1>12, <1>13, <1>15, <1>16, <1>17, <1>18 DEF n, m

\* The history after a request is sent and after it is answered.
LEMMA AskingFields ==
  ASSUME NEW h, h = [field \in HistoryFields |-> h[field]], NEW r
  PROVE  /\ Asking(h, r) = [field \in HistoryFields |-> Asking(h, r)[field]]
         /\ h.slots = << >> => /\ Asking(h, r).slots = <<r>>
                              /\ ~ Asking(h, r).overlapped /\ ~ Asking(h, r).overtaken
         /\ h.slots # << >> => /\ Asking(h, r).slots = Append(h.slots, r)
                              /\ Asking(h, r).overlapped
                              /\ (Asking(h, r).overtaken <=> h.overtaken)
<1> DEFINE k == Asking(h, r)
<1>1. CASE h.slots = << >>
  <2>1. k = [slots |-> <<r>>, overlapped |-> FALSE, overtaken |-> FALSE]
    BY <1>1 DEF Asking, Unasked
  <2> HIDE DEF k
  <2>2. k = [field \in HistoryFields |-> k[field]] BY <2>1 DEF HistoryFields
  <2>3. k.slots = <<r>> /\ ~ k.overlapped /\ ~ k.overtaken BY <2>1
  <2> QED BY <1>1, <2>2, <2>3 DEF k
<1>2. CASE h.slots # << >>
  <2>1. \A set : LET l == [h EXCEPT !.slots = Append(@, r), !.overlapped = set]
                 IN  /\ l = [field \in HistoryFields |-> l[field]]
                     /\ l.slots = Append(h.slots, r)
                     /\ l.overlapped = set /\ l.overtaken = h.overtaken
    BY DEF HistoryFields
  <2>2. k = [h EXCEPT !.slots = Append(@, r), !.overlapped = TRUE] BY <1>2 DEF Asking
  <2>3. /\ k = [field \in HistoryFields |-> k[field]]
        /\ k.slots = Append(h.slots, r) /\ k.overlapped = TRUE
        /\ k.overtaken = h.overtaken
    <3> HIDE DEF k
    <3> QED BY <2>1, <2>2, Zenon
  <2> HIDE DEF k
  <2>4. k.overlapped /\ (k.overtaken <=> h.overtaken) BY <2>3, Zenon
  <2> QED BY <1>2, <2>3, <2>4 DEF k
<1> QED BY <1>1, <1>2

LEMMA ToldFields ==
  ASSUME NEW h, h = [field \in HistoryFields |-> h[field]], NEW r
  PROVE  /\ Told(h, r) = [field \in HistoryFields |-> Told(h, r)[field]]
         /\ Told(h, r).slots = Keep(h.slots, Slot \ {r})
         /\ (Told(h, r).overlapped <=> h.overlapped)
         /\ (Told(h, r).overtaken <=> h.overtaken \/ r # Head(h.slots))
<1> DEFINE k == Told(h, r)
<1>1. \A list, set : LET l == [h EXCEPT !.slots = list, !.overtaken = set]
                     IN  /\ l = [field \in HistoryFields |-> l[field]]
                         /\ l.slots = list
                         /\ l.overlapped = h.overlapped /\ l.overtaken = set
  BY DEF HistoryFields
<1>2. k = [h EXCEPT !.slots = Keep(h.slots, Slot \ {r}),
                    !.overtaken = h.overtaken \/ r # Head(h.slots)]
  BY DEF Told
<1> HIDE DEF k
<1>3. /\ k = [field \in HistoryFields |-> k[field]]
      /\ k.slots = Keep(h.slots, Slot \ {r}) /\ k.overlapped = h.overlapped
      /\ k.overtaken = (h.overtaken \/ r # Head(h.slots))
  BY <1>1, <1>2, Zenon
<1>4. /\ (k.overlapped <=> h.overlapped)
      /\ (k.overtaken <=> h.overtaken \/ r # Head(h.slots))
  BY <1>3, Zenon
<1> QED BY <1>3, <1>4 DEF k

\* The first request of a page, one more, and an answer.
LEMMA SlotFirst ==
  ASSUME NEW r \in Slot, asked' = Asking(Unasked, r), Wants(r)',
         \A q \in Slot : q # r => ~ Wants(q)'
  PROVE  /\ SlotsOK' /\ asked'.slots = <<r>> /\ ~ AtRest' /\ LastAsked' = r
         /\ ~ asked'.overlapped /\ ~ asked'.overtaken
<1>1. /\ Unasked = [field \in HistoryFields |-> Unasked[field]]
      /\ Unasked.slots = << >>
  BY DEF Unasked, HistoryFields
<1>2. /\ asked' = [field \in HistoryFields |-> asked'[field]]
      /\ asked'.slots = <<r>>
      /\ ~ asked'.overlapped /\ ~ asked'.overtaken
  BY <1>1, AskingFields
<1> DEFINE list == <<r>>
<1>3. /\ list \in Seq(Slot) /\ list # << >> /\ Len(list) = 1
      /\ \A i \in 1 .. Len(list) : i = 1 /\ list[i] = r
      /\ 1 \in 1 .. Len(list) /\ list[1] = r
  OBVIOUS
<1> HIDE DEF list
<1>4. Distinct(list) /\ \A q : Among(q, list) <=> q = r BY <1>3 DEF Distinct, Among
<1>5. asked'.slots = list BY <1>2 DEF list
<1>6. SlotsOK' BY <1>2, <1>3, <1>4, <1>5 DEF SlotsOK
<1> QED BY <1>2, <1>3, <1>5, <1>6 DEF AtRest, LastAsked

LEMMA SlotAsked ==
  ASSUME SlotsOK, NEW r \in Slot, asked' = Asking(asked, r), ~ Wants(r), Wants(r)',
         \A q \in Slot : q # r => (Wants(q)' <=> Wants(q))
  PROVE  /\ SlotsOK' /\ ~ AtRest' /\ LastAsked' = r
         /\ AtRest => /\ asked'.slots = <<r>>
                      /\ ~ asked'.overlapped /\ ~ asked'.overtaken
         /\ ~ AtRest => /\ asked'.overlapped /\ (asked'.overtaken <=> asked.overtaken)
                        /\ \A q : asked'.slots # <<q>>
<1> DEFINE list == asked.slots
           longer == Append(list, r)
           n == Len(list)
<1>1. /\ asked = [field \in HistoryFields |-> asked[field]]
      /\ list \in Seq(Slot) /\ Distinct(list)
      /\ \A q \in Slot : Wants(q) <=> Among(q, list)
  BY DEF SlotsOK
<1>2. /\ asked' = [field \in HistoryFields |-> asked'[field]]
      /\ list = << >> => /\ asked'.slots = <<r>>
                        /\ ~ asked'.overlapped /\ ~ asked'.overtaken
      /\ list # << >> => /\ asked'.slots = longer
                        /\ asked'.overlapped
                        /\ (asked'.overtaken <=> asked.overtaken)
  BY <1>1, AskingFields
<1>3. n \in Nat /\ (list = << >> <=> n = 0) BY <1>1, EmptySeq, LenProperties
<1>4. /\ longer \in Seq(Slot) /\ Len(longer) = n + 1
      /\ \A i \in 1 .. n : longer[i] = list[i]
      /\ longer[n + 1] = r
  BY <1>1, AppendProperties
<1>5. list = << >> => longer = <<r>> OBVIOUS
<1>6. asked'.slots = longer BY <1>2, <1>5
<1> HIDE DEF list, longer, n
<1>7. \A i \in 1 .. n : list[i] # r BY <1>1 DEF Among, n
<1>8. Distinct(longer)
  <2> SUFFICES ASSUME NEW i \in 1 .. n + 1, NEW j \in 1 .. n + 1, longer[i] = longer[j]
               PROVE  i = j
    BY <1>4 DEF Distinct
  <2>1. \A k \in 1 .. n + 1 : k = n + 1 \/ k \in 1 .. n BY <1>3
  <2>2. i \in 1 .. n /\ j \in 1 .. n => i = j BY <1>1, <1>4 DEF Distinct, n
  <2> QED BY <1>4, <1>7, <2>1, <2>2
<1>9. \A q \in Slot : Among(q, longer) <=> q = r \/ Among(q, list)
  <2> SUFFICES ASSUME NEW q \in Slot PROVE Among(q, longer) <=> q = r \/ Among(q, list)
    OBVIOUS
  <2>1. n + 1 \in 1 .. n + 1 /\ \A k \in 1 .. n : k \in 1 .. n + 1 BY <1>3
  <2>2. \A k \in 1 .. n + 1 : k = n + 1 \/ k \in 1 .. n BY <1>3
  <2> QED BY <1>4, <2>1, <2>2 DEF Among, n
<1>10. \A q \in Slot : Wants(q)' <=> Among(q, longer) BY <1>1, <1>9
<1>11. ~ asked'.overlapped => Len(longer) <= 1 BY <1>2, <1>3, <1>4
<1>12. SlotsOK' BY <1>2, <1>4, <1>6, <1>8, <1>10, <1>11 DEF SlotsOK
<1>13. n # 0 => \A q : longer # <<q>>
  <2> SUFFICES ASSUME n # 0, NEW q, longer = <<q>> PROVE FALSE OBVIOUS
  <2>1. Len(longer) = 1 OBVIOUS
  <2> QED BY <1>3, <1>4, <2>1
<1>14. longer # << >> BY <1>3, <1>4, EmptySeq
<1> QED BY <1>2, <1>3, <1>4, <1>6, <1>12, <1>13, <1>14 DEF AtRest, LastAsked, list

LEMMA SlotTold ==
  ASSUME SlotsOK, NEW r \in Slot, asked' = Told(asked, r), Wants(r), ~ Wants(r)',
         \A q \in Slot : q # r => (Wants(q)' <=> Wants(q))
  PROVE  /\ SlotsOK' /\ ~ AtRest
         /\ (AtRest' <=> asked.slots = <<r>>)
         /\ (asked'.overlapped <=> asked.overlapped)
         /\ ~ asked.overlapped => AtRest'
         /\ ~ AtRest' => LastAsked' \in Slot /\ LastAsked' # r
         /\ ~ asked'.overtaken => /\ ~ asked.overtaken
                                  /\ ~ AtRest' => LastAsked' = LastAsked
<1> DEFINE list == asked.slots
           short == asked'.slots
<1>1. /\ asked = [field \in HistoryFields |-> asked[field]]
      /\ list \in Seq(Slot) /\ Distinct(list) /\ Among(r, list)
      /\ \A q \in Slot : Wants(q) <=> Among(q, list)
      /\ ~ asked.overlapped => Len(list) <= 1
  BY DEF SlotsOK
<1>2. /\ asked' = [field \in HistoryFields |-> asked'[field]]
      /\ short = Keep(list, Slot \ {r})
      /\ (asked'.overlapped <=> asked.overlapped)
      /\ (asked'.overtaken <=> asked.overtaken \/ r # Head(list))
  <2> DEFINE k == Told(asked, r)
  <2>1. /\ k = [field \in HistoryFields |-> k[field]]
        /\ k.slots = Keep(list, Slot \ {r})
        /\ (k.overlapped <=> asked.overlapped)
        /\ (k.overtaken <=> asked.overtaken \/ r # Head(list))
    BY <1>1, ToldFields
  <2>2. asked' = k OBVIOUS
  <2> HIDE DEF k, list
  <2> QED BY <2>1, <2>2
<1> HIDE DEF list, short
<1>3. /\ short \in Seq(Slot) /\ Distinct(short) /\ Len(short) <= Len(list)
      /\ \A q \in Slot : Among(q, short) <=> q # r /\ Among(q, list)
      /\ (short = << >> <=> list = <<r>>)
      /\ short # << >> /\ r = Head(list) => short[Len(short)] = list[Len(list)]
  BY <1>1, <1>2, RemoveOne
<1>4. Len(list) \in Nat /\ Len(short) \in Nat BY <1>1, <1>3, LenProperties
<1>5. \A q \in Slot : Wants(q)' <=> Among(q, short) BY <1>1, <1>3
<1>6. SlotsOK' BY <1>1, <1>2, <1>3, <1>4, <1>5 DEF SlotsOK, short
<1>7. list # << >>
  <2> SUFFICES ASSUME list = << >> PROVE FALSE OBVIOUS
  <2>1. Len(list) = 0 BY <1>1, EmptySeq
  <2>2. 1 .. 0 = {} OBVIOUS
  <2> QED BY <1>1, <2>1, <2>2 DEF Among
<1>8. Len(list) <= 1 => list = <<r>>
  <2> SUFFICES ASSUME Len(list) <= 1 PROVE list = <<r>> OBVIOUS
  <2>1. PICK i \in 1 .. Len(list) : list[i] = r BY <1>1 DEF Among
  <2> DEFINE n == Len(list)
  <2>2. n \in Nat /\ n <= 1 /\ i \in 1 .. n BY <1>4
  <2> HIDE DEF n
  <2>3. i = 1 /\ n = 1 BY <2>2
  <2> QED BY <1>1, <2>1, <2>3 DEF n
<1>9. short # << >> => LastAsked' \in Slot /\ LastAsked' # r
  <2> SUFFICES ASSUME short # << >> PROVE LastAsked' \in Slot /\ LastAsked' # r OBVIOUS
  <2>1. Len(short) \in 1 .. Len(short) BY <1>3, <1>4, EmptySeq
  <2>2. short[Len(short)] \in Slot /\ Among(short[Len(short)], short)
    BY <1>3, <2>1, ElementOfSeq DEF Among
  <2> QED BY <1>3, <2>2 DEF LastAsked, short
<1> QED
  BY <1>1, <1>2, <1>3, <1>6, <1>7, <1>8, <1>9 DEF AtRest, LastAsked, list, short

------------------------------------------------------------------------------
\* What a step has to show

LEMMA NotSnapshots ==
  ASSUME page' # "snapshots", options' = << >>, comparison' = None,
         {left', right'} \subseteq Snapshot \cup {None},
         \A q \in Slot : AskOK(http[q].ask)'
  PROVE  SnapshotsOK'
<1>1. ASSUME NEW q \in Slot PROVE ~ Asks(q, "list")' BY DEF Asks, AskOK, Kinds
<1>2. ~ Opening("list")'
  <2> SUFFICES ASSUME NEW q \in Slot, http'[q].ask = Wanted("list", << >>) PROVE FALSE
    BY DEF Opening
  <2> QED BY <1>1, WantedFacts DEF Asks
<1> QED BY <1>1, <1>2 DEF SnapshotsOK

LEMMA NotAnalysis ==
  ASSUME page' # "analysis", ~ services', ~ loading', ~ error', result' = None,
         \A q \in Slot : AskOK(http[q].ask)'
  PROVE  AnalysisOK'
<1>1. ASSUME NEW q \in Slot PROVE ~ Asks(q, "services")' BY DEF Asks, AskOK, Kinds
<1>2. ~ Opening("services")'
  <2> SUFFICES ASSUME NEW q \in Slot, http'[q].ask = Wanted("services", << >>) PROVE FALSE
    BY DEF Opening
  <2> QED BY <1>1, WantedFacts DEF Asks
<1> QED BY <1>1, <1>2 DEF AnalysisOK

\* A step that the open page does not see.
LEMMA Unseen ==
  ASSUME PageInv, UNCHANGED pageVars,
         \A q \in Slot : \/ http'[q].ask = http[q].ask
                         \/ {http'[q].ask, http[q].ask} \subseteq {<< >>, Nothing}
  PROVE  PageInv'
<1>1. /\ page' = page /\ options' = options /\ left' = left /\ right' = right
      /\ comparison' = comparison /\ services' = services /\ result' = result
      /\ error' = error /\ loading' = loading /\ asked' = asked
  BY DEF pageVars, snapshotsVars, analysisVars
<1>2. \A q \in Slot : AskOK(http[q].ask)'
  <2>1. /\ AskOK(<< >>)' /\ AskOK(Nothing)' BY WantedFacts DEF AskOK, Kinds
  <2>2. \A q \in Slot : AskOK(http[q].ask) BY DEF PageInv
  <2> QED BY <1>1, <2>1, <2>2 DEF AskOK
<1>3. \A q \in Slot : Wants(q)' <=> Wants(q) BY DEF Wants
<1>4. \A kind : \A q \in Slot : kind # "none" => (Asks(q, kind)' <=> Asks(q, kind))
  BY WantedFacts DEF Asks
<1>5. \A kind, about : \A q \in Slot :
        kind # "none" => (http'[q].ask = Wanted(kind, about) <=> http[q].ask = Wanted(kind, about))
  BY WantedFacts
<1>6. SlotsOK' BY <1>1, <1>3 DEF PageInv, SlotsOK
<1>7. (Opening("list")' <=> Opening("list")) /\ (Opening("services")' <=> Opening("services"))
  BY <1>1, <1>5 DEF Opening
<1>8. ~ AtRest => LastAsked \in Slot
  <2>1. asked.slots \in Seq(Slot) BY DEF PageInv, SlotsOK
  <2>2. asked.slots # << >> => Len(asked.slots) \in 1 .. Len(asked.slots)
    BY <2>1, EmptySeq, LenProperties
  <2> QED BY <2>1, <2>2, ElementOfSeq DEF AtRest, LastAsked
<1>9. SnapshotsOK'
  <2>1. \A r \in Slot : Asks(r, "list")' => Opening("list")' BY <1>4, <1>7 DEF PageInv, SnapshotsOK
  <2>2. AtRest' <=> AtRest BY <1>1 DEF AtRest
  <2>3. LastAsked' = LastAsked BY <1>1 DEF LastAsked
  <2>4. ~ AtRest => (http'[LastAsked].ask = Wanted("compare", <<left, right>>)
                       <=> http[LastAsked].ask = Wanted("compare", <<left, right>>))
    BY <1>5, <1>8
  <2> QED BY <1>1, <1>7, <2>1, <2>2, <2>3, <2>4 DEF PageInv, SnapshotsOK
<1>10. AnalysisOK'
  <2>1. \A r \in Slot : Asks(r, "services")' => Opening("services")'
    BY <1>4, <1>7 DEF PageInv, AnalysisOK
  <2>2. AtRest' <=> AtRest BY <1>1 DEF AtRest
  <2> QED BY <1>1, <1>7, <2>1, <2>2 DEF PageInv, AnalysisOK
<1> QED BY <1>1, <1>2, <1>6, <1>9, <1>10 DEF PageInv

\* A request of the open page.
LEMMA AskStep ==
  ASSUME PagesInv, NEW kind, kind # "none", NEW about, NEW path \in Path,
         Ask(kind, about, path)
  PROVE  \E r \in Slot :
           /\ RequestsOK' /\ SlotsOK' /\ ~ AtRest' /\ LastAsked' = r
           /\ http[r].ask = << >> /\ http'[r].ask = Wanted(kind, about)
           /\ \A q \in Slot : q # r => http'[q].ask = http[q].ask
           /\ AtRest => /\ asked'.slots = <<r>>
                        /\ ~ asked'.overlapped /\ ~ asked'.overtaken
           /\ ~ AtRest => /\ asked'.overlapped /\ (asked'.overtaken <=> asked.overtaken)
                          /\ \A q : asked'.slots # <<q>>
<1>1. PICK r \in Slot, token \in Token :
        Receive(r, Wanted(kind, about), path, token) /\ asked' = Asking(asked, r)
  BY DEF Ask
<1> DEFINE ask == Wanted(kind, about)
           h == Sent(ask, path, token)
<1>2. ask # << >> /\ ask # Nothing BY WantedFacts
<1>3. http[r].ask = << >> BY <1>1 DEF Receive, Free
<1>4. http' = [http EXCEPT ![r] = h] BY <1>1 DEF Receive
<1> HIDE DEF ask
<1>5. RequestOK(h) /\ h.ask = ask BY <1>2, SentOK
<1> HIDE DEF h
<1>6. RequestsOK' /\ http'[r].ask = ask /\ \A q \in Slot : q # r => http'[q].ask = http[q].ask
  BY <1>4, <1>5, RequestsStep DEF PagesInv
<1>7. ~ Wants(r) /\ Wants(r)' /\ \A q \in Slot : q # r => (Wants(q)' <=> Wants(q))
  BY <1>2, <1>3, <1>6 DEF Wants
<1>8. SlotsOK BY DEF PagesInv, PageInv
<1>9. /\ SlotsOK' /\ ~ AtRest' /\ LastAsked' = r
      /\ AtRest => /\ asked'.slots = <<r>>
                   /\ ~ asked'.overlapped /\ ~ asked'.overtaken
      /\ ~ AtRest => /\ asked'.overlapped /\ (asked'.overtaken <=> asked.overtaken)
                     /\ \A q : asked'.slots # <<q>>
  BY <1>1, <1>7, <1>8, SlotAsked
<1> QED BY <1>3, <1>6, <1>9 DEF ask

\* An answer that the open page waits for.
LEMMA EndedAsked ==
  ASSUME RequestsOK, NEW r \in Slot, Ended(r)
  PROVE  http[r].ask # << >>
BY DEF RequestsOK, RequestOK, Lifecycle, Ended

LEMMA ReturnStep ==
  ASSUME RequestsOK, NEW r \in Slot, Return(r)
  PROVE  /\ RequestsOK' /\ http[r].ask # << >> /\ http'[r].ask = << >>
         /\ \A q \in Slot : q # r => http'[q].ask = http[q].ask
<1>1. Ended(r) /\ http' = [http EXCEPT ![r] = Free] BY DEF Return
<1>2. Free.ask = << >> BY DEF Free
<1> QED BY <1>1, <1>2, EndedAsked, FreeOK, RequestsStep

LEMMA AnswerStep ==
  ASSUME PagesInv, NEW r \in Slot, NEW kind, kind # "none", Answered(r, kind)
  PROVE  /\ RequestsOK' /\ SlotsOK' /\ ~ AtRest /\ page' = page
         /\ Asks(r, kind) /\ kind \in Kinds(page)
         /\ http[r].ask = Wanted(kind, http[r].ask.about) /\ http'[r].ask = << >>
         /\ \A q \in Slot : q # r => http'[q].ask = http[q].ask
         /\ (AtRest' <=> asked.slots = <<r>>)
         /\ (asked'.overlapped <=> asked.overlapped)
         /\ ~ asked.overlapped => AtRest'
         /\ ~ AtRest' => LastAsked' \in Slot /\ LastAsked' # r
         /\ ~ asked'.overtaken => /\ ~ asked.overtaken
                                  /\ ~ AtRest' => LastAsked' = LastAsked
<1>1. RequestsOK /\ SlotsOK /\ AskOK(http[r].ask) BY DEF PagesInv, PageInv
<1>2. /\ Return(r) /\ http[r].ask.kind = kind /\ asked' = Told(asked, r) /\ page' = page
  BY DEF Answered
<1>3. /\ RequestsOK' /\ http[r].ask # << >> /\ http'[r].ask = << >>
      /\ \A q \in Slot : q # r => http'[q].ask = http[q].ask
  BY <1>1, <1>2, ReturnStep
<1>4. http[r].ask = Wanted(kind, http[r].ask.about) /\ kind \in Kinds(page)
  BY <1>1, <1>2, <1>3 DEF AskOK
<1>5. Wants(r) /\ ~ Wants(r)' /\ \A q \in Slot : q # r => (Wants(q)' <=> Wants(q))
  BY <1>2, <1>3, WantedFacts DEF Wants
<1>6. /\ SlotsOK' /\ ~ AtRest
      /\ (AtRest' <=> asked.slots = <<r>>)
      /\ (asked'.overlapped <=> asked.overlapped)
      /\ ~ asked.overlapped => AtRest'
      /\ ~ AtRest' => LastAsked' \in Slot /\ LastAsked' # r
      /\ ~ asked'.overtaken => /\ ~ asked.overtaken
                               /\ ~ AtRest' => LastAsked' = LastAsked
  BY <1>1, <1>2, <1>5, SlotTold
<1>7. Asks(r, kind) BY <1>2, <1>3 DEF Asks
<1> QED BY <1>2, <1>3, <1>4, <1>6, <1>7

------------------------------------------------------------------------------
\* The steps of the pages

\* A request that nobody awaits is awaited by nobody else.
LEMMA AskedBySame ==
  ASSUME PageInv, page' = page, NEW r \in Slot, AskOK(http[r].ask)',
         \A q \in Slot : q # r => http'[q].ask = http[q].ask
  PROVE  \A q \in Slot : AskOK(http[q].ask)'
<1>1. \A q \in Slot : AskOK(http[q].ask) BY DEF PageInv
<1> QED BY <1>1 DEF AskOK

LEMMA FreeAsk == AskOK(<< >>) /\ AskOK(<< >>)' BY DEF AskOK

\* While the page waits for its list it waits for nothing else.
LEMMA OnlyOpening ==
  ASSUME SlotsOK, NEW kind, Opening(kind), NEW r \in Slot, Wants(r)
  PROVE  asked.slots = <<r>> /\ http[r].ask = Wanted(kind, << >>)
<1>1. PICK q \in Slot : asked.slots = <<q>> /\ http[q].ask = Wanted(kind, << >>)
  BY DEF Opening
<1>2. Among(r, <<q>>) BY <1>1 DEF SlotsOK
<1>3. q = r BY <1>2 DEF Among
<1> QED BY <1>1, <1>3

LEMMA OpenStep ==
  ASSUME PagesInv, NEW new \in {"snapshots", "analysis"},
         NEW kind \in {"list", "services"}, NEW path \in Path, Open(new, kind, path),
         kind = IF new = "snapshots" THEN "list" ELSE "services"
  PROVE  PagesInv'
<1>1. PICK r \in Slot, token \in Token :
        /\ http[r] = Free
        /\ http' = [q \in Slot |->
                      IF q = r THEN Sent(Wanted(kind, << >>), path, token)
                      ELSE IF http[q] = Free THEN Free
                           ELSE [http[q] EXCEPT !.ask = Nothing]]
        /\ asked' = Asking(Unasked, r)
  BY DEF Open
<1>2. /\ page' = new
      /\ options' = << >> /\ left' = None /\ right' = None /\ comparison' = None
      /\ ~ services' /\ result' = None /\ ~ error' /\ ~ loading'
  BY DEF Open
<1> DEFINE ask == Wanted(kind, << >>)
<1>3. ask # << >> /\ ask # Nothing /\ ask.kind = kind /\ ask.about = << >>
  BY WantedFacts
<1>4. RequestOK(http'[r]) /\ http'[r].ask = ask
  <2>1. http'[r] = Sent(ask, path, token) BY <1>1
  <2> HIDE DEF ask
  <2> QED BY <1>3, <2>1, SentOK
<1>5. ASSUME NEW q \in Slot, q # r
      PROVE  RequestOK(http'[q]) /\ http'[q].ask \in {<< >>, Nothing}
  <2>1. http'[q] = IF http[q] = Free THEN Free ELSE [http[q] EXCEPT !.ask = Nothing]
    BY <1>1, <1>5
  <2>2. RequestOK(http[q]) BY DEF PagesInv, RequestsOK
  <2>3. Free.ask = << >> BY DEF Free
  <2> QED BY <2>1, <2>2, <2>3, FreeOK, UnwantedOK
<1>6. RequestsOK'
  <2>1. DOMAIN http' = Slot /\ http' = [q \in Slot |-> http'[q]] BY <1>1
  <2>2. http' \in [Slot -> {http'[q] : q \in Slot}] BY <2>1
  <2> QED BY <1>4, <1>5, <2>2 DEF RequestsOK
<1>7. Wants(r)' /\ \A q \in Slot : q # r => ~ Wants(q)' BY <1>3, <1>4, <1>5 DEF Wants
<1>8. /\ SlotsOK' /\ asked'.slots = <<r>> /\ ~ AtRest' /\ LastAsked' = r
      /\ ~ asked'.overlapped /\ ~ asked'.overtaken
  BY <1>1, <1>7, SlotFirst
<1>9. ASSUME NEW q \in Slot PROVE AskOK(http[q].ask)'
  <2>1. CASE q = r
    <3>1. http'[r].ask = Wanted(kind, << >>) BY <1>4
    <3>2. kind \in Kinds(page') BY <1>2 DEF Kinds
    <3> QED BY <1>3, <2>1, <3>1, <3>2 DEF AskOK
  <2>2. CASE q # r
    <3>1. http'[q].ask \in {<< >>, Nothing} BY <1>5, <2>2
    <3> QED BY <3>1, WantedFacts DEF AskOK, Kinds
  <2> QED BY <2>1, <2>2
<1>10. Opening(kind)' BY <1>4, <1>8 DEF Opening
<1>11. SnapshotsOK'
  <2>1. CASE new = "snapshots"
    <3>1. << >> \in Seq(Snapshot) OBVIOUS
    <3>2. Opening("list")' BY <1>10, <2>1
    <3> QED BY <1>2, <2>1, <3>1, <3>2 DEF SnapshotsOK
  <2>2. CASE new = "analysis" BY <1>2, <1>9, <2>2, NotSnapshots
  <2> QED BY <2>1, <2>2
<1>12. AnalysisOK'
  <2>1. CASE new = "snapshots" BY <1>2, <1>9, <2>1, NotAnalysis
  <2>2. CASE new = "analysis"
    <3>1. Opening("services")' BY <1>10, <2>2
    <3> QED BY <1>2, <2>2, <3>1 DEF AnalysisOK
  <2> QED BY <2>1, <2>2
<1> QED BY <1>2, <1>6, <1>8, <1>9, <1>11, <1>12 DEF PagesInv, PageInv

\* A select of the snapshots page has changed.
LEMMA CompareStep ==
  ASSUME PagesInv, options # << >>, Compare(left', right'),
         {left', right'} \subseteq Snapshot \cup {None},
         UNCHANGED <<options, comparison, analysisVars>>
  PROVE  PagesInv'
<1>1. PICK r \in Slot :
        /\ RequestsOK' /\ SlotsOK' /\ ~ AtRest' /\ LastAsked' = r
        /\ http[r].ask = << >> /\ http'[r].ask = Wanted("compare", <<left', right'>>)
        /\ \A q \in Slot : q # r => http'[q].ask = http[q].ask
        /\ AtRest => asked'.slots = <<r>>
        /\ ~ AtRest => \A q : asked'.slots # <<q>>
  <2>1. Ask("compare", <<left', right'>>, "registry") BY DEF Compare
  <2>2. "registry" \in Path BY DEF Path, Service
  <2> QED BY <2>1, <2>2, AskStep
<1>2. page' = page /\ UNCHANGED <<options, comparison, services, result, error, loading>>
  BY DEF Compare, analysisVars
<1>3. PageInv /\ SnapshotsOK /\ AnalysisOK BY DEF PagesInv, PageInv
<1>4. page = "snapshots" /\ ~ Opening("list") BY <1>3 DEF SnapshotsOK
<1>5. \A q \in Slot : AskOK(http[q].ask)'
  <2>1. AskOK(http[r].ask)'
    <3>1. "compare" \in Kinds(page') BY <1>2, <1>4 DEF Kinds
    <3> QED BY <1>1, <3>1, WantedFacts DEF AskOK
  <2> QED BY <1>1, <1>2, <1>3, <2>1, AskedBySame
<1>6. \A q \in Slot : ~ Asks(q, "list")'
  <2> SUFFICES ASSUME NEW q \in Slot, Asks(q, "list")' PROVE FALSE OBVIOUS
  <2>1. q # r BY <1>1, WantedFacts DEF Asks
  <2>2. Asks(q, "list") BY <1>1, <2>1 DEF Asks
  <2> QED BY <1>3, <1>4, <2>2 DEF SnapshotsOK
<1>7. ~ Opening("list")'
  <2> SUFFICES ASSUME NEW q \in Slot, http'[q].ask = Wanted("list", << >>) PROVE FALSE
    BY DEF Opening
  <2> QED BY <1>6, WantedFacts DEF Asks
<1>8. SnapshotsOK'
  <2>1. options \in Seq(Snapshot) BY <1>3 DEF SnapshotsOK
  <2> QED BY <1>1, <1>2, <1>4, <1>6, <1>7, <2>1 DEF SnapshotsOK
<1>9. AnalysisOK'
  <2>1. /\ page' # "analysis" /\ ~ services' /\ ~ loading' /\ ~ error' /\ result' = None
    BY <1>2, <1>3, <1>4 DEF AnalysisOK
  <2> QED BY <1>5, <2>1, NotAnalysis
<1>10. page' \in {"none", "snapshots", "analysis"} BY <1>2, <1>3 DEF PageInv
<1> QED BY <1>1, <1>5, <1>8, <1>9, <1>10 DEF PagesInv, PageInv

\* An answer of the snapshots page.
LEMMA ListFailed ==
  ASSUME PagesInv, NEW r \in Slot, Answered(r, "list"),
         {left', right'} \subseteq Snapshot \cup {None},
         options' = << >>, comparison' \in {Empty, <<left', right'>>},
         UNCHANGED analysisVars
  PROVE  PagesInv'
<1>1. /\ RequestsOK' /\ SlotsOK' /\ page' = page
      /\ Asks(r, "list") /\ "list" \in Kinds(page) /\ http'[r].ask = << >>
      /\ \A q \in Slot : q # r => http'[q].ask = http[q].ask
      /\ (AtRest' <=> asked.slots = <<r>>)
  BY AnswerStep
<1>2. UNCHANGED <<services, result, error, loading>> BY DEF analysisVars
<1>3. PageInv /\ SlotsOK /\ SnapshotsOK /\ AnalysisOK BY DEF PagesInv, PageInv
<1>4. page = "snapshots" BY <1>1, <1>3 DEF Kinds, PageInv
<1>5. \A q \in Slot : AskOK(http[q].ask)' BY <1>1, <1>3, FreeAsk, AskedBySame
<1>6. AtRest'
  <2>1. Opening("list") BY <1>1, <1>3 DEF SnapshotsOK
  <2>2. Wants(r) BY <1>1, WantedFacts DEF Asks, Wants
  <2> QED BY <1>1, <1>3, <2>1, <2>2, OnlyOpening
<1>7. \A q \in Slot : http'[q].ask \in {<< >>, Nothing}
  <2>1. \A q \in Slot : ~ Among(q, << >>) BY DEF Among
  <2> QED BY <1>1, <1>6, <2>1 DEF SlotsOK, AtRest, Wants
<1>8. /\ \A q \in Slot : ~ Asks(q, "list")'
      /\ ~ Opening("list")'
  BY <1>7, WantedFacts DEF Asks, Opening
<1>9. SnapshotsOK'
  <2>1. << >> \in Seq(Snapshot) OBVIOUS
  <2> QED BY <1>1, <1>4, <1>6, <1>8, <2>1 DEF SnapshotsOK
<1>10. AnalysisOK'
  <2>1. /\ page' # "analysis" /\ ~ services' /\ ~ loading' /\ ~ error' /\ result' = None
    BY <1>1, <1>2, <1>3, <1>4 DEF AnalysisOK
  <2> QED BY <1>5, <2>1, NotAnalysis
<1>11. page' \in {"none", "snapshots", "analysis"} BY <1>1, <1>3 DEF PageInv
<1> QED BY <1>1, <1>5, <1>9, <1>10, <1>11 DEF PagesInv, PageInv

LEMMA ListLoaded ==
  ASSUME PagesInv, NEW r \in Slot, NEW list \in Stored, list # << >>,
         SnapshotsLoaded(r, list)
  PROVE  PagesInv'
<1>1. /\ Ended(r) /\ http[r].ask.kind = "list"
      /\ options' = list /\ left' = list[1]
      /\ right' = (IF Len(list) > 1 THEN list[2] ELSE left')
  BY DEF SnapshotsLoaded
<1>2. PICK token \in Token :
        http' = [http EXCEPT ![r] =
                   Sent(Wanted("compare", <<left', right'>>), "registry", token)]
  BY DEF SnapshotsLoaded
<1>3. /\ asked' = Asking(Told(asked, r), r) /\ page' = page /\ comparison' = comparison
      /\ UNCHANGED <<services, result, error, loading>>
  BY DEF SnapshotsLoaded, analysisVars
<1>4. RequestsOK /\ PageInv /\ SlotsOK /\ SnapshotsOK /\ AnalysisOK
  BY DEF PagesInv, PageInv
<1>5. http[r].ask # << >> /\ Asks(r, "list") /\ Wants(r)
  BY <1>1, <1>4, EndedAsked, WantedFacts DEF Asks, Wants
<1>6. asked.slots = <<r>>
  <2>1. Opening("list") BY <1>4, <1>5 DEF SnapshotsOK
  <2> QED BY <1>4, <1>5, <2>1, OnlyOpening
<1>7. page = "snapshots"
  <2>1. AskOK(http[r].ask) BY <1>4 DEF PageInv
  <2> QED BY <1>1, <1>4, <1>5, <2>1 DEF AskOK, Kinds, PageInv
<1> DEFINE ask == Wanted("compare", <<left', right'>>)
<1>8. /\ RequestsOK' /\ http'[r].ask = ask
      /\ \A q \in Slot : q # r => http'[q].ask = http[q].ask
  <2>1. "registry" \in Path /\ ask # << >> BY WantedFacts DEF Path, Service
  <2> HIDE DEF ask
  <2>2. RequestOK(Sent(ask, "registry", token)) /\ Sent(ask, "registry", token).ask = ask
    BY <2>1, SentOK
  <2>3. http' = [http EXCEPT ![r] = Sent(ask, "registry", token)] BY <1>2 DEF ask
  <2> QED BY <1>4, <2>2, <2>3, RequestsStep
<1>9. \A q \in Slot : q # r => http'[q].ask \in {<< >>, Nothing}
  <2>1. \A q \in Slot : Among(q, <<r>>) => q = r BY DEF Among
  <2> QED BY <1>4, <1>6, <1>8, <2>1 DEF SlotsOK, Wants
<1>10. /\ SlotsOK' /\ asked'.slots = <<r>> /\ ~ AtRest' /\ LastAsked' = r
       /\ ~ asked'.overlapped /\ ~ asked'.overtaken
  <2>1. asked' = Asking(Unasked, r)
    <3>1. asked = [field \in HistoryFields |-> asked[field]] BY <1>4 DEF SlotsOK
    <3>2. Told(asked, r).slots = << >>
      <4> DEFINE slots == asked.slots
                 short == Told(asked, r).slots
      <4>1. slots \in Seq(Slot) /\ Distinct(slots) /\ Among(r, slots)
        BY <1>4, <1>5 DEF SlotsOK
      <4>2. short = Keep(slots, Slot \ {r}) BY <3>1, ToldFields
      <4>3. slots = <<r>> BY <1>6
      <4> HIDE DEF slots, short
      <4>4. short = << >> <=> slots = <<r>> BY <4>1, <4>2, RemoveOne
      <4>5. short = << >> BY <4>3, <4>4
      <4> QED BY <4>5 DEF short
    <3> QED BY <1>3, <3>2 DEF Asking, Unasked
  <2>2. Wants(r)' BY <1>8, WantedFacts DEF Wants
  <2>3. \A q \in Slot : q # r => ~ Wants(q)' BY <1>9 DEF Wants
  <2> QED BY <2>1, <2>2, <2>3, SlotFirst
<1>11. \A q \in Slot : AskOK(http[q].ask)'
  <2>1. AskOK(http[r].ask)'
    <3>1. "compare" \in Kinds(page') BY <1>3, <1>7 DEF Kinds
    <3> QED BY <1>8, <3>1, WantedFacts DEF AskOK
  <2> QED BY <1>3, <1>4, <1>8, <2>1, AskedBySame
<1>12. \A q \in Slot : ~ Asks(q, "list")' BY <1>8, <1>9, WantedFacts DEF Asks
<1>13. ~ Opening("list")'
  <2> SUFFICES ASSUME NEW q \in Slot, http'[q].ask = Wanted("list", << >>) PROVE FALSE
    BY DEF Opening
  <2> QED BY <1>12, WantedFacts DEF Asks
<1>14. options' \in Seq(Snapshot) /\ {left', right'} \subseteq Snapshot
  <2>1. list \in Seq(Snapshot) BY StoredAssumption
  <2>2. Len(list) \in Nat /\ Len(list) # 0 BY <2>1, EmptySeq, LenProperties
  <2>3. 1 \in 1 .. Len(list) /\ (Len(list) > 1 => 2 \in 1 .. Len(list)) BY <2>2
  <2>4. list[1] \in Snapshot /\ (Len(list) > 1 => list[2] \in Snapshot)
    BY <2>1, <2>3, ElementOfSeq
  <2> QED BY <1>1, <2>1, <2>4
<1>15. SnapshotsOK' BY <1>3, <1>7, <1>8, <1>10, <1>12, <1>13, <1>14 DEF SnapshotsOK
<1>16. AnalysisOK'
  <2>1. /\ page' # "analysis" /\ ~ services' /\ ~ loading' /\ ~ error' /\ result' = None
    BY <1>3, <1>4, <1>7 DEF AnalysisOK
  <2> QED BY <1>11, <2>1, NotAnalysis
<1>17. page' \in {"none", "snapshots", "analysis"} BY <1>3, <1>4 DEF PageInv
<1> QED BY <1>8, <1>10, <1>11, <1>15, <1>16, <1>17 DEF PagesInv, PageInv

LEMMA ComparedStep ==
  ASSUME PagesInv, NEW r \in Slot, Compared(r)
  PROVE  PagesInv'
<1>1. /\ Answered(r, "compare")
      /\ comparison' = (IF Succeeded(r) THEN http[r].ask.about ELSE Empty)
      /\ UNCHANGED <<options, left, right, services, result, error, loading>>
  BY DEF Compared, analysisVars
<1>2. /\ RequestsOK' /\ SlotsOK' /\ ~ AtRest /\ page' = page
      /\ Asks(r, "compare") /\ "compare" \in Kinds(page)
      /\ http[r].ask = Wanted("compare", http[r].ask.about) /\ http'[r].ask = << >>
      /\ \A q \in Slot : q # r => http'[q].ask = http[q].ask
      /\ (AtRest' <=> asked.slots = <<r>>)
      /\ ~ AtRest' => LastAsked' \in Slot /\ LastAsked' # r
      /\ ~ asked'.overtaken => /\ ~ asked.overtaken
                               /\ ~ AtRest' => LastAsked' = LastAsked
  BY <1>1, AnswerStep
<1>3. PageInv /\ SlotsOK /\ SnapshotsOK /\ AnalysisOK BY DEF PagesInv, PageInv
<1>4. page = "snapshots" BY <1>2, <1>3 DEF Kinds, PageInv
<1>5. ~ Opening("list")
  <2> SUFFICES ASSUME Opening("list") PROVE FALSE OBVIOUS
  <2>1. Wants(r) BY <1>2, WantedFacts DEF Asks, Wants
  <2>2. http[r].ask = Wanted("list", << >>) BY <1>3, <2>1, OnlyOpening
  <2> QED BY <1>2, <2>2, WantedFacts DEF Asks
<1>6. \A q \in Slot : AskOK(http[q].ask)' BY <1>2, <1>3, FreeAsk, AskedBySame
<1>7. \A q \in Slot : ~ Asks(q, "list")'
  <2> SUFFICES ASSUME NEW q \in Slot, Asks(q, "list")' PROVE FALSE OBVIOUS
  <2>1. q # r BY <1>2 DEF Asks
  <2>2. Asks(q, "list") BY <1>2, <2>1 DEF Asks
  <2> QED BY <1>3, <1>5, <2>2 DEF SnapshotsOK
<1>8. ~ Opening("list")'
  <2> SUFFICES ASSUME NEW q \in Slot, http'[q].ask = Wanted("list", << >>) PROVE FALSE
    BY DEF Opening
  <2> QED BY <1>7, WantedFacts DEF Asks
\* The newest request is about what is selected; if this is its answer, so is
\* the comparison.
<1>9. ASSUME ~ asked'.overtaken
      PROVE  IF AtRest' THEN comparison' \in {Empty, <<left', right'>>}
             ELSE http'[LastAsked'].ask = Wanted("compare", <<left', right'>>)
  <2>1. http[LastAsked].ask = Wanted("compare", <<left, right>>)
    BY <1>2, <1>3, <1>4, <1>5, <1>9 DEF SnapshotsOK
  <2>2. CASE AtRest'
    <3>1. LastAsked = r
      <4>1. asked.slots = <<r>> BY <1>2, <2>2
      <4> QED BY <4>1 DEF LastAsked
    <3>2. http[r].ask.about = <<left, right>> BY <2>1, <3>1, WantedFacts
    <3> QED BY <1>1, <2>2, <3>2
  <2>3. CASE ~ AtRest'
    <3>1. http'[LastAsked'].ask = http[LastAsked].ask BY <1>2, <1>9, <2>3
    <3> QED BY <1>1, <2>1, <2>3, <3>1
  <2> QED BY <2>2, <2>3
<1>10. SnapshotsOK'
  <2>1. options' \in Seq(Snapshot) /\ {left', right'} \subseteq Snapshot \cup {None}
    BY <1>1, <1>3 DEF SnapshotsOK
  <2>2. page' = "snapshots" BY <1>2, <1>4
  <2> QED BY <1>7, <1>8, <1>9, <2>1, <2>2 DEF SnapshotsOK
<1>11. AnalysisOK'
  <2>1. /\ page' # "analysis" /\ ~ services' /\ ~ loading' /\ ~ error' /\ result' = None
    BY <1>1, <1>2, <1>3, <1>4 DEF AnalysisOK
  <2> QED BY <1>6, <2>1, NotAnalysis
<1>12. page' \in {"none", "snapshots", "analysis"} BY <1>2, <1>3 DEF PageInv
<1> QED BY <1>2, <1>6, <1>10, <1>11, <1>12 DEF PagesInv, PageInv

\* The steps of the analysis page.
LEMMA ServicesStep ==
  ASSUME PagesInv, NEW r \in Slot, ServicesLoaded(r)
  PROVE  PagesInv'
<1>1. /\ Answered(r, "services")
      /\ UNCHANGED <<options, left, right, comparison, result, error, loading>>
  BY DEF ServicesLoaded, snapshotsVars
<1>2. /\ RequestsOK' /\ SlotsOK' /\ page' = page
      /\ Asks(r, "services") /\ "services" \in Kinds(page) /\ http'[r].ask = << >>
      /\ \A q \in Slot : q # r => http'[q].ask = http[q].ask
      /\ (AtRest' <=> asked.slots = <<r>>)
      /\ (asked'.overlapped <=> asked.overlapped)
  BY <1>1, AnswerStep
<1>3. PageInv /\ SlotsOK /\ SnapshotsOK /\ AnalysisOK BY DEF PagesInv, PageInv
<1>4. page = "analysis" BY <1>2, <1>3 DEF Kinds, PageInv
<1>5. \A q \in Slot : AskOK(http[q].ask)' BY <1>2, <1>3, FreeAsk, AskedBySame
<1>6. Opening("services") BY <1>2, <1>3 DEF AnalysisOK
<1>7. AtRest'
  <2>1. Wants(r) BY <1>2, WantedFacts DEF Asks, Wants
  <2> QED BY <1>2, <1>3, <1>6, <2>1, OnlyOpening
<1>8. \A q \in Slot : http'[q].ask \in {<< >>, Nothing}
  <2>1. \A q \in Slot : ~ Among(q, << >>) BY DEF Among
  <2> QED BY <1>2, <1>7, <2>1 DEF SlotsOK, AtRest, Wants
<1>9. (\A q \in Slot : ~ Asks(q, "services")') /\ ~ Opening("services")'
  BY <1>8, WantedFacts DEF Asks, Opening
<1>10. AnalysisOK'
  <2>1. result' \in Proposal \cup {None} /\ (~ asked.overlapped => ~ loading)
    BY <1>1, <1>3, <1>6 DEF AnalysisOK
  <2>2. ~ asked.overlapped => (error' => result' = None) BY <1>1, <1>3 DEF AnalysisOK
  <2> QED BY <1>1, <1>2, <1>4, <1>7, <1>9, <2>1, <2>2 DEF AnalysisOK
<1>11. SnapshotsOK'
  <2>1. /\ page' # "snapshots" /\ options' = << >> /\ comparison' = None
        /\ {left', right'} \subseteq Snapshot \cup {None}
    BY <1>1, <1>2, <1>3, <1>4 DEF SnapshotsOK
  <2> QED BY <1>5, <2>1, NotSnapshots
<1>12. page' \in {"none", "snapshots", "analysis"} BY <1>2, <1>3 DEF PageInv
<1> QED BY <1>2, <1>5, <1>10, <1>11, <1>12 DEF PagesInv, PageInv

LEMMA SubmitStep ==
  ASSUME PagesInv, NEW proposal \in Proposal, Submit(proposal)
  PROVE  PagesInv'
<1>1. /\ services /\ loading' /\ ~ error' /\ result' = None
      /\ UNCHANGED <<page, options, left, right, comparison, services>>
  BY DEF Submit, snapshotsVars
<1>2. PICK r \in Slot :
        /\ RequestsOK' /\ SlotsOK' /\ ~ AtRest'
        /\ http[r].ask = << >> /\ http'[r].ask = Wanted("impact", proposal)
        /\ \A q \in Slot : q # r => http'[q].ask = http[q].ask
        /\ AtRest => asked'.slots = <<r>>
        /\ ~ AtRest => \A q : asked'.slots # <<q>>
  <2>1. Ask("impact", proposal, "analysis") BY DEF Submit
  <2>2. "analysis" \in Path BY DEF Path, Service
  <2> QED BY <2>1, <2>2, AskStep
<1>3. PageInv /\ SlotsOK /\ SnapshotsOK /\ AnalysisOK BY DEF PagesInv, PageInv
<1>4. page = "analysis" /\ ~ Opening("services") BY <1>1, <1>3 DEF AnalysisOK
<1>5. \A q \in Slot : AskOK(http[q].ask)'
  <2>1. AskOK(http[r].ask)'
    <3>1. "impact" \in Kinds(page') BY <1>1, <1>4 DEF Kinds
    <3> QED BY <1>2, <3>1, WantedFacts DEF AskOK
  <2> QED BY <1>1, <1>2, <1>3, <2>1, AskedBySame
<1>6. \A q \in Slot : ~ Asks(q, "services")'
  <2> SUFFICES ASSUME NEW q \in Slot, Asks(q, "services")' PROVE FALSE OBVIOUS
  <2>1. q # r BY <1>2, WantedFacts DEF Asks
  <2>2. Asks(q, "services") BY <1>2, <2>1 DEF Asks
  <2> QED BY <1>3, <1>4, <2>2 DEF AnalysisOK
<1>7. ~ Opening("services")'
  <2> SUFFICES ASSUME NEW q \in Slot, http'[q].ask = Wanted("services", << >>) PROVE FALSE
    BY DEF Opening
  <2> QED BY <1>6, WantedFacts DEF Asks
<1>8. AnalysisOK'
  <2>1. services' /\ page' = "analysis" BY <1>1, <1>4
  <2> QED BY <1>1, <1>2, <1>6, <1>7, <2>1 DEF AnalysisOK
<1>9. SnapshotsOK'
  <2>1. /\ page' # "snapshots" /\ options' = << >> /\ comparison' = None
        /\ {left', right'} \subseteq Snapshot \cup {None}
    BY <1>1, <1>3, <1>4 DEF SnapshotsOK
  <2> QED BY <1>5, <2>1, NotSnapshots
<1>10. page' \in {"none", "snapshots", "analysis"} BY <1>1, <1>3 DEF PageInv
<1> QED BY <1>2, <1>5, <1>8, <1>9, <1>10 DEF PagesInv, PageInv

LEMMA AnalyzedStep ==
  ASSUME PagesInv, NEW r \in Slot, Analyzed(r)
  PROVE  PagesInv'
<1>1. /\ Answered(r, "impact") /\ ~ loading'
      /\ result' = (IF Succeeded(r) THEN http[r].ask.about ELSE result)
      /\ (error' <=> error \/ ~ Succeeded(r))
      /\ UNCHANGED <<options, left, right, comparison, services>>
  BY DEF Analyzed, snapshotsVars
<1>2. /\ RequestsOK' /\ SlotsOK' /\ ~ AtRest /\ page' = page
      /\ Asks(r, "impact") /\ "impact" \in Kinds(page) /\ http'[r].ask = << >>
      /\ http[r].ask = Wanted("impact", http[r].ask.about)
      /\ \A q \in Slot : q # r => http'[q].ask = http[q].ask
      /\ (asked'.overlapped <=> asked.overlapped)
      /\ ~ asked.overlapped => AtRest'
  BY <1>1, AnswerStep
<1>3. PageInv /\ SlotsOK /\ SnapshotsOK /\ AnalysisOK BY DEF PagesInv, PageInv
<1>4. page = "analysis" BY <1>2, <1>3 DEF Kinds, PageInv
<1>5. \A q \in Slot : AskOK(http[q].ask)' BY <1>2, <1>3, FreeAsk, AskedBySame
<1>6. ~ Opening("services")
  <2> SUFFICES ASSUME Opening("services") PROVE FALSE OBVIOUS
  <2>1. Wants(r) BY <1>2, WantedFacts DEF Asks, Wants
  <2>2. http[r].ask = Wanted("services", << >>) BY <1>3, <2>1, OnlyOpening
  <2> QED BY <1>2, <2>2, WantedFacts DEF Asks
<1>7. services BY <1>2, <1>3, <1>4, <1>6 DEF AnalysisOK
<1>8. \A q \in Slot : ~ Asks(q, "services")'
  <2> SUFFICES ASSUME NEW q \in Slot, Asks(q, "services")' PROVE FALSE OBVIOUS
  <2>1. q # r BY <1>2 DEF Asks
  <2>2. Asks(q, "services") BY <1>2, <2>1 DEF Asks
  <2> QED BY <1>3, <1>6, <2>2 DEF AnalysisOK
<1>9. ~ Opening("services")'
  <2> SUFFICES ASSUME NEW q \in Slot, http'[q].ask = Wanted("services", << >>) PROVE FALSE
    BY DEF Opening
  <2> QED BY <1>8, WantedFacts DEF Asks
\* The only request: until its answer the page showed the spinner and nothing
\* else.
<1>10. ~ asked.overlapped => AtRest' /\ ~ error /\ result = None
  BY <1>2, <1>3, <1>7 DEF AnalysisOK
<1>11. result' \in Proposal \cup {None}
  <2>1. http[r].ask.about \in Proposal
    <3>1. AskOK(http[r].ask) BY <1>3 DEF PageInv
    <3> QED BY <1>2, <3>1 DEF AskOK, Asks
  <2>2. result \in Proposal \cup {None} BY <1>3 DEF AnalysisOK
  <2> QED BY <1>1, <2>1, <2>2
<1>12. AnalysisOK'
  <2>1. services' /\ page' = "analysis" BY <1>1, <1>2, <1>4, <1>7
  <2>2. ~ asked'.overlapped => (error' => result' = None) BY <1>1, <1>2, <1>10
  <2> QED BY <1>1, <1>2, <1>8, <1>9, <1>10, <1>11, <2>1, <2>2 DEF AnalysisOK
<1>13. SnapshotsOK'
  <2>1. /\ page' # "snapshots" /\ options' = << >> /\ comparison' = None
        /\ {left', right'} \subseteq Snapshot \cup {None}
    BY <1>1, <1>2, <1>3, <1>4 DEF SnapshotsOK
  <2> QED BY <1>5, <2>1, NotSnapshots
<1>14. page' \in {"none", "snapshots", "analysis"} BY <1>2, <1>3 DEF PageInv
<1> QED BY <1>2, <1>5, <1>12, <1>13, <1>14 DEF PagesInv, PageInv

------------------------------------------------------------------------------
\* The invariant, and what it implies

LEMMA InitPages ==
  ASSUME PagesInit
  PROVE  PagesInv
<1>1. /\ http = [r \in Slot |-> Free] /\ page = "none"
      /\ options = << >> /\ left = None /\ right = None /\ comparison = None
      /\ ~ services /\ result = None /\ ~ error /\ ~ loading
      /\ asked = Unasked
  BY DEF PagesInit, GatewayInit
<1>2. RequestsOK
  <2>1. DOMAIN http = Slot /\ http = [r \in Slot |-> http[r]] BY <1>1
  <2>2. http \in [Slot -> {http[r] : r \in Slot}] BY <2>1
  <2> QED BY <1>1, <2>2, FreeOK DEF RequestsOK
<1>3. \A r \in Slot : http[r].ask = << >> BY <1>1 DEF Free
<1>4. /\ \A r \in Slot : AskOK(http[r].ask) /\ ~ Wants(r)
      /\ \A kind : \A r \in Slot : ~ Asks(r, kind)
  BY <1>3 DEF AskOK, Wants, Asks
<1>5. asked.slots = << >> /\ \A r : asked.slots # <<r>>
  <2>1. asked.slots = << >> BY <1>1 DEF Unasked
  <2>2. \A r : << >> # <<r>> OBVIOUS
  <2> QED BY <2>1, <2>2
<1>6. SlotsOK
  <2>1. asked = [field \in HistoryFields |-> asked[field]]
    BY <1>1 DEF Unasked, HistoryFields
  <2>2. /\ << >> \in Seq(Slot) /\ Len(<< >>) <= 1 /\ Distinct(<< >>)
        /\ \A r : ~ Among(r, << >>)
    BY DEF Distinct, Among
  <2> QED BY <1>4, <1>5, <2>1, <2>2 DEF SlotsOK
<1>7. << >> \in Seq(Snapshot) OBVIOUS
<1>8. SnapshotsOK BY <1>1, <1>4, <1>5, <1>7 DEF SnapshotsOK, Opening
<1>9. AnalysisOK BY <1>1, <1>4, <1>5 DEF AnalysisOK, Opening
<1> QED BY <1>1, <1>2, <1>4, <1>6, <1>8, <1>9 DEF PagesInv, PageInv

LEMMA NextPages ==
  ASSUME PagesInv, [PagesNext]_pagesVars
  PROVE  PagesInv'
<1>1. RequestsOK /\ PageInv BY DEF PagesInv
<1>2. CASE UNCHANGED pagesVars
  <2>1. UNCHANGED pageVars /\ http' = http BY <1>2 DEF pagesVars
  <2>2. PageInv' BY <1>1, <2>1, Unseen
  <2>3. RequestsOK' BY <1>1, <2>1 DEF RequestsOK
  <2> QED BY <2>2, <2>3 DEF PagesInv
<1>3. CASE OpenSnapshots
  <2>1. "registry" \in Path BY DEF Path, Service
  <2> QED BY <1>3, <2>1, OpenStep DEF OpenSnapshots
<1>4. CASE OpenAnalysis
  <2>1. "topology" \in Path BY DEF Path, Service
  <2> QED BY <1>4, <2>1, OpenStep DEF OpenAnalysis
<1>5. ASSUME NEW value \in Snapshot, OnLeftChange(value) PROVE PagesInv'
  <2>1. /\ options # << >> /\ left' = value /\ right' = right /\ Compare(left', right')
        /\ UNCHANGED <<options, comparison, analysisVars>>
    BY <1>5 DEF OnLeftChange
  <2>2. {left', right'} \subseteq Snapshot \cup {None}
    BY <1>1, <2>1 DEF PageInv, SnapshotsOK
  <2> QED BY <2>1, <2>2, CompareStep
<1>6. ASSUME NEW value \in Snapshot, OnRightChange(value) PROVE PagesInv'
  <2>1. /\ options # << >> /\ right' = value /\ left' = left /\ Compare(left', right')
        /\ UNCHANGED <<options, comparison, analysisVars>>
    BY <1>6 DEF OnRightChange
  <2>2. {left', right'} \subseteq Snapshot \cup {None}
    BY <1>1, <2>1 DEF PageInv, SnapshotsOK
  <2> QED BY <2>1, <2>2, CompareStep
<1>7. ASSUME NEW proposal \in Proposal, Submit(proposal) PROVE PagesInv' BY <1>7, SubmitStep
<1>8. ASSUME NEW r \in Slot, GatewayRuns(r) PROVE PagesInv'
  <2>1. GatewayStep(r) /\ UNCHANGED pageVars BY <1>8 DEF GatewayRuns
  <2>2. RequestsOK' /\ \A q \in Slot : http'[q].ask = http[q].ask BY <1>1, <2>1, GatewayOK
  <2>3. PageInv' BY <1>1, <2>1, <2>2, Unseen
  <2> QED BY <2>2, <2>3 DEF PagesInv
<1>9. ASSUME NEW r \in Slot, NEW list \in Stored, SnapshotsLoaded(r, list) PROVE PagesInv'
  <2>1. CASE list = << >>
    <3>1. /\ Answered(r, "list") /\ options' = << >> /\ left' = None /\ right' = None
          /\ comparison' = Empty /\ UNCHANGED analysisVars
      BY <1>9, <2>1 DEF SnapshotsLoaded
    <3> QED BY <3>1, ListFailed
  <2>2. CASE list # << >> BY <1>9, <2>2, ListLoaded
  <2> QED BY <2>1, <2>2
<1>10. ASSUME NEW r \in Slot, SnapshotsNotLoaded(r) PROVE PagesInv'
  <2>1. /\ Answered(r, "list") /\ options' = << >> /\ left' = None /\ right' = None
        /\ comparison' = Empty /\ UNCHANGED analysisVars
    BY <1>10 DEF SnapshotsNotLoaded
  <2> QED BY <2>1, ListFailed
<1>11. ASSUME NEW r \in Slot, Compared(r) PROVE PagesInv' BY <1>11, ComparedStep
<1>12. ASSUME NEW r \in Slot, ServicesLoaded(r) PROVE PagesInv' BY <1>12, ServicesStep
<1>13. ASSUME NEW r \in Slot, Analyzed(r) PROVE PagesInv' BY <1>13, AnalyzedStep
<1>14. ASSUME NEW r \in Slot, NEW path \in {"users", "auth"}, NEW token \in Token,
              ClientAsks(r, path, token)
       PROVE  PagesInv'
  <2> DEFINE h == Sent(Nothing, path, token)
  <2>1. /\ http[r].ask = << >> /\ http' = [http EXCEPT ![r] = h] /\ UNCHANGED pageVars
    BY <1>14 DEF ClientAsks, Receive, Free
  <2>2. RequestOK(h) /\ h.ask = Nothing
    <3>1. path \in Path BY DEF Path
    <3> QED BY <3>1, WantedFacts, SentOK
  <2> HIDE DEF h
  <2>3. /\ RequestsOK' /\ http'[r].ask = Nothing
        /\ \A q \in Slot : q # r => http'[q].ask = http[q].ask
    BY <1>1, <2>1, <2>2, RequestsStep
  <2>4. PageInv' BY <1>1, <2>1, <2>3, Unseen
  <2> QED BY <2>3, <2>4 DEF PagesInv
<1>15. ASSUME NEW r \in Slot, AnswerUnwanted(r) PROVE PagesInv'
  <2>1. Return(r) /\ http[r].ask = Nothing /\ UNCHANGED pageVars
    BY <1>15 DEF AnswerUnwanted
  <2>2. /\ RequestsOK' /\ http'[r].ask = << >>
        /\ \A q \in Slot : q # r => http'[q].ask = http[q].ask
    BY <1>1, <2>1, ReturnStep
  <2>3. PageInv' BY <1>1, <2>1, <2>2, Unseen
  <2> QED BY <2>2, <2>3 DEF PagesInv
<1> QED
  BY <1>2, <1>3, <1>4, <1>5, <1>6, <1>7, <1>8, <1>9, <1>10, <1>11, <1>12, <1>13, <1>14,
     <1>15 DEF PagesNext

LEMMA InvariantOfPages == PagesSpec => []PagesInv
<1>1. PagesInit => PagesInv BY InitPages
<1>2. PagesInv /\ [PagesNext]_pagesVars => PagesInv' BY NextPages
<1> QED BY <1>1, <1>2, PTL DEF PagesSpec

\* Types, of a request in the gateway and of what a page selects and shows; and
\* the requests that are awaited are those of the open page.
THEOREM PagesTypeCorrect == PagesSpec => []PagesTypeOK
<1>1. ASSUME PagesInv PROVE PagesTypeOK
  <2>1. RequestsOK /\ SlotsOK /\ SnapshotsOK /\ AnalysisOK BY <1>1 DEF PagesInv, PageInv
  <2>2. Len(Chain) = 8 BY ChainLinks
  <2>3. ASSUME NEW r \in Slot
        PROVE  /\ http[r].at \in 0 .. Len(Chain)
               /\ http[r].path \in Path \cup {"none"}
               /\ {http[r].token, http[r].user} \subseteq Token
    BY <2>1, <2>2 DEF RequestsOK, RequestOK, Lifecycle
  <2>4. /\ {left, right} \subseteq Snapshot \cup {None}
        /\ result \in Proposal \cup {None}
    BY <2>1 DEF SnapshotsOK, AnalysisOK
  <2>5. DOMAIN asked.slots = 1 .. Len(asked.slots) BY <2>1, LenProperties DEF SlotsOK
  <2>6. \A r \in Slot : http[r].ask \notin {<< >>, Nothing} <=>
                          \E i \in DOMAIN asked.slots : asked.slots[i] = r
    BY <2>1, <2>5 DEF SlotsOK, Wants, Among
  <2> QED BY <2>3, <2>4, <2>6 DEF PagesTypeOK
<1> QED BY <1>1, InvariantOfPages, PTL

\* A request is sent to a service at most once, with the claims of its own
\* verified token, and answered at most once, although ProxyMiddleware runs
\* twice and the promise of its work is dropped.
THEOREM RequestsAnsweredOnce == PagesSpec => []AnsweredOnce
<1>1. ASSUME PagesInv PROVE AnsweredOnce
  <2> SUFFICES ASSUME NEW r \in Slot
               PROVE  /\ http[r].forwarded + Len(http[r].answers) \in 0 .. 2
                      /\ Len(http[r].answers) <= 1
                      /\ http[r].forwarded > 0 =>
                           /\ http[r].forwarded = 1 /\ http[r].user = http[r].token
                           /\ http[r].user # NoUser /\ http[r].path \in Service
    BY DEF AnsweredOnce
  <2> DEFINE h == http[r]
  <2>1. Lifecycle(h.ask, h.path, h.token, h.at, h.awaits, h.user, h.forwarded, h.upstream,
                  h.answers)
    BY <1>1 DEF PagesInv, RequestsOK, RequestOK
  <2> HIDE DEF h
  <2>2. Len(h.answers) \in {0, 1}
    <3>1. h.answers = << >> \/ \E status \in Status : h.answers = <<status>>
      BY <2>1 DEF Lifecycle
    <3>2. Len(<< >>) = 0 /\ \A status : Len(<<status>>) = 1 OBVIOUS
    <3> QED BY <3>1, <3>2
  <2>3. /\ h.forwarded \in {0, 1}
        /\ h.forwarded = 1 => h.user = h.token /\ h.user # NoUser /\ h.path \in Service
    BY <2>1 DEF Lifecycle
  <2> DEFINE n == Len(h.answers)
             f == h.forwarded
  <2>4. n \in {0, 1} /\ f \in {0, 1} BY <2>2, <2>3
  <2> HIDE DEF n, f
  <2>5. f + n \in 0 .. 2 /\ n <= 1 /\ (f > 0 => f = 1) BY <2>4
  <2> QED BY <2>3, <2>5 DEF h, n, f
<1> QED BY <1>1, InvariantOfPages, PTL

\* Once SnapshotsPage waits for no answer, the comparison it shows is that of
\* the selected snapshots, or empty, if none of its answers overtook another.
THEOREM ComparisonIsOfSelected == PagesSpec => []ComparisonOfSelected
<1>1. ASSUME PagesInv PROVE ComparisonOfSelected
  <2>1. SnapshotsOK /\ page \in {"none", "snapshots", "analysis"}
    BY <1>1 DEF PagesInv, PageInv
  <2>2. AtRest => ~ Opening("list")
    <3>1. \A r : << >> # <<r>> OBVIOUS
    <3> QED BY <3>1 DEF AtRest, Opening
  <2> QED BY <2>1, <2>2 DEF ComparisonOfSelected, SnapshotsOK
<1> QED BY <1>1, InvariantOfPages, PTL

\* AnalysisPage shows one of the spinner, the error and the result, and the
\* spinner exactly while it waits, unless a submit came before the answer to
\* the one before it.
THEOREM OneOutcomeIsShown == PagesSpec => []OneOutcomeShown
<1>1. ASSUME PagesInv PROVE OneOutcomeShown
  <2> SUFFICES ASSUME ~ asked.overlapped
               PROVE  /\ (loading <=> services /\ ~ AtRest)
                      /\ Cardinality({b \in {"loading", "error", "result"} :
                                        \/ b = "loading" /\ loading
                                        \/ b = "error" /\ error
                                        \/ b = "result" /\ result # None}) <= 1
    BY DEF OneOutcomeShown
  <2>1. /\ (loading <=> services /\ ~ AtRest)
        /\ loading => ~ error /\ result = None
        /\ error => result = None
    BY <1>1 DEF PagesInv, PageInv, AnalysisOK
  <2> DEFINE shown == {b \in {"loading", "error", "result"} :
                        \/ b = "loading" /\ loading
                        \/ b = "error" /\ error
                        \/ b = "result" /\ result # None}
  <2>2. shown = {} \/ \E b : shown = {b}
    <3>1. CASE loading
      <4>1. shown = {"loading"} BY <2>1, <3>1
      <4> QED BY <4>1
    <3>2. CASE ~ loading /\ error
      <4>1. shown = {"error"} BY <2>1, <3>2
      <4> QED BY <4>1
    <3>3. CASE ~ loading /\ ~ error
      <4>1. shown = {} \/ shown = {"result"} BY <3>3
      <4> QED BY <4>1
    <3> QED BY <3>1, <3>2, <3>3
  <2> HIDE DEF shown
  <2>3. Cardinality(shown) <= 1
    <3>1. Cardinality({}) = 0 /\ \A b : Cardinality({b}) = 1 BY FS_EmptySet, FS_Singleton
    <3>2. Cardinality(shown) \in {0, 1} BY <2>2, <3>1, Zenon
    <3> QED BY <3>2
  <2> QED BY <2>1, <2>3 DEF shown
<1> QED BY <1>1, InvariantOfPages, PTL
==============================================================================
