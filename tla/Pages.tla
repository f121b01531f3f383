-------------------------------- MODULE Pages --------------------------------
(***************************************************************************)
(* Two pages of the web app, which ask the gateway for what they show:     *)
(* SnapshotsPage (apps/web-app/src/app/features/snapshots/                 *)
(* snapshots.page.ts) compares two snapshots whenever one of the selects   *)
(* changes, AnalysisPage (features/analysis/analysis.page.ts) submits a    *)
(* proposal.  Neither keeps the user from asking again before the answer   *)
(* has come.  One page is open at a time; what a page that was left still  *)
(* waits for shows nowhere.  Another client asks for anything else.        *)
(*                                                                         *)
(* A call is retried after a refresh by an interceptor (WebSession); here  *)
(* a call is one request and any answer but 200 is an error.               *)
(***************************************************************************)
EXTENDS Gateway, Lists, FiniteSets

CONSTANTS Snapshot,   \* ids of snapshots
          Stored,     \* what the list of stored snapshots may be, newest first
          Proposal,   \* values of the form, valid ones
          None        \* null, of a signal

ASSUME StoredAssumption == \A list \in Stored : list \in Seq(Snapshot)

VARIABLES page,         \* the page that is open
          options,      \* snapshotOptions: the ids
          left, right,  \* the selected snapshots
          comparison,   \* the two that comparison() is about, Empty, or None
          services,     \* whether the form has services to choose from
          result,       \* the proposal that result() is about, or None
          error,        \* whether error() is shown
          loading,      \* whether the spinner is shown
          asked         \* history of the page: the slots of its requests, oldest
                        \* first; and since it last waited for none, whether two
                        \* were under way at a time, and an answer overtaken

snapshotsVars == <<options, left, right, comparison>>

analysisVars == <<services, result, error, loading>>

pageVars == <<page, snapshotsVars, analysisVars, asked>>

pagesVars == <<http, pageVars>>

Empty == <<None, None>>

Unasked == [slots |-> << >>, overlapped |-> FALSE, overtaken |-> FALSE]

PagesInit ==
  /\ GatewayInit
  /\ page = "none"
  /\ options = << >> /\ left = None /\ right = None /\ comparison = None
  /\ services = FALSE /\ result = None /\ error = FALSE /\ loading = FALSE
  /\ asked = Unasked

------------------------------------------------------------------------------
\* Requests; the token is what the session has, valid or not.

Token == User \cup {NoUser}

AtRest == asked.slots = << >>

\* The history when a request is sent in slot r, and when its answer comes.
Asking(h, r) ==
  IF h.slots = << >> THEN [Unasked EXCEPT !.slots = <<r>>]
  ELSE [h EXCEPT !.slots = Append(@, r), !.overlapped = TRUE]

Told(h, r) ==
  [h EXCEPT !.slots = Keep(@, Slot \ {r}),
            !.overtaken = @ \/ r # Head(h.slots)]

Wanted(kind, about) == [kind |-> kind, about |-> about]

Nothing == Wanted("none", << >>)

Ask(kind, about, path) ==
  \E r \in Slot, token \in Token :
    /\ Receive(r, Wanted(kind, about), path, token)
    /\ asked' = Asking(asked, r)

\* A page is opened: its constructor asks for a list.  The answers that the
\* page before it waits for are wanted by nobody.
Open(new, kind, path) ==
  \E r \in Slot, token \in Token :
    /\ http[r] = Free
    /\ http' = [q \in Slot |->
                  IF q = r THEN Sent(Wanted(kind, << >>), path, token)
                  ELSE IF http[q] = Free THEN Free
                       ELSE [http[q] EXCEPT !.ask = Nothing]]
    /\ page' = new
    /\ asked' = Asking(Unasked, r)
    /\ options' = << >> /\ left' = None /\ right' = None /\ comparison' = None
    /\ services' = FALSE /\ result' = None /\ error' = FALSE /\ loading' = FALSE

Succeeded(r) == http[r].answers[1] = 200

\* The answer to a request of this kind is in slot r, and is taken.
Answered(r, kind) ==
  /\ Return(r)
  /\ http[r].ask.kind = kind
  /\ asked' = Told(asked, r)
  /\ UNCHANGED page

------------------------------------------------------------------------------
\* SnapshotsPage

\* The constructor: loadSnapshots.
OpenSnapshots == Open("snapshots", "list", "registry")

Compare(first, second) ==
  /\ Ask("compare", <<first, second>>, "registry")
  /\ UNCHANGED page

\* The end of loadSnapshots; compareIfReady sends its request at once, or shows
\* nothing when there is no snapshot.
SnapshotsLoaded(r, list) ==
  /\ Ended(r) /\ Succeeded(r) /\ http[r].ask.kind = "list"
  /\ options' = list
  /\ left' = IF list = << >> THEN None ELSE list[1]
  /\ right' = IF Len(list) > 1 THEN list[2] ELSE left'
  /\ IF list = << >>
     THEN /\ Answered(r, "list")
          /\ comparison' = Empty
     ELSE /\ \E token \in Token :
               http' = [http EXCEPT ![r] =
                          Sent(Wanted("compare", <<left', right'>>), "registry", token)]
          /\ asked' = Asking(Told(asked, r), r)
          /\ UNCHANGED page
          /\ UNCHANGED comparison
  /\ UNCHANGED analysisVars

SnapshotsNotLoaded(r) ==
  /\ Answered(r, "list") /\ ~ Succeeded(r)
  /\ options' = << >> /\ left' = None /\ right' = None
  /\ comparison' = Empty
  /\ UNCHANGED analysisVars

OnLeftChange(value) ==
  /\ \E i \in DOMAIN options : options[i] = value
  /\ value # left
  /\ left' = value
  /\ Compare(value, right)
  /\ UNCHANGED <<options, right, comparison, analysisVars>>

\* Mutant: only the left select compares.
OnRightChangeQuietly(value) ==
  /\ \E i \in DOMAIN options : options[i] = value
  /\ value # right
  /\ right' = value
  /\ UNCHANGED <<http, page, asked, options, left, comparison, analysisVars>>

OnRightChange(value) ==
  /\ \E i \in DOMAIN options : options[i] = value
  /\ value # right
  /\ right' = value
  /\ Compare(left, value)
  /\ UNCHANGED <<options, left, comparison, analysisVars>>

\* The end of compareIfReady.
Compared(r) ==
  /\ Answered(r, "compare")
  /\ comparison' = IF Succeeded(r) THEN http[r].ask.about ELSE Empty
  /\ UNCHANGED <<options, left, right, analysisVars>>

------------------------------------------------------------------------------
\* AnalysisPage

\* The constructor: loadServices.
OpenAnalysis == Open("analysis", "services", "topology")

ServicesLoaded(r) ==
  /\ Answered(r, "services")
  /\ services' = Succeeded(r)
  /\ UNCHANGED <<snapshotsVars, result, error, loading>>

\* Mutant: submit leaves the error of the last one.
SubmitKeepError(proposal) ==
  /\ services
  /\ loading' = TRUE /\ result' = None
  /\ Ask("impact", proposal, "analysis")
  /\ UNCHANGED <<page, snapshotsVars, services, error>>

\* submit, up to the await.
Submit(proposal) ==
  /\ services
  /\ loading' = TRUE /\ error' = FALSE /\ result' = None
  /\ Ask("impact", proposal, "analysis")
  /\ UNCHANGED <<page, snapshotsVars, services>>

\* submit, after the await.
Analyzed(r) ==
  /\ Answered(r, "impact")
  /\ result' = IF Succeeded(r) THEN http[r].ask.about ELSE result
  /\ error' = (error \/ ~ Succeeded(r))
  /\ loading' = FALSE
  /\ UNCHANGED <<snapshotsVars, services>>

------------------------------------------------------------------------------
\* Answers to nobody, another client, and the gateway

AnswerUnwanted(r) == Return(r) /\ http[r].ask = Nothing /\ UNCHANGED pageVars

ClientAsks(r, path, token) == Receive(r, Nothing, path, token) /\ UNCHANGED pageVars

GatewayRuns(r) == GatewayStep(r) /\ UNCHANGED pageVars

PagesNext ==
  \/ OpenSnapshots \/ OpenAnalysis
  \/ \E value \in Snapshot : OnLeftChange(value) \/ OnRightChange(value)
  \/ \E proposal \in Proposal : Submit(proposal)
  \/ \E r \in Slot :
       \/ GatewayRuns(r)
       \/ \E list \in Stored : SnapshotsLoaded(r, list)
       \/ SnapshotsNotLoaded(r) \/ Compared(r)
       \/ ServicesLoaded(r) \/ Analyzed(r)
       \/ \E path \in {"users", "auth"}, token \in Token : ClientAsks(r, path, token)
       \/ AnswerUnwanted(r)

\* The event loop of the gateway runs what can run, and a service answers or
\* its connection ends (the proxy sets no limit of its own).
PagesSpec ==
  PagesInit /\ [][PagesNext]_pagesVars /\ \A r \in Slot : WF_pagesVars(GatewayRuns(r))

------------------------------------------------------------------------------
\* Properties

PagesTypeOK ==
  /\ \A r \in Slot :
       /\ http[r].at \in 0 .. Len(Chain)
       /\ http[r].path \in Path \cup {"none"}
       /\ {http[r].token, http[r].user} \subseteq Token
  /\ {left, right} \subseteq Snapshot \cup {None}
  /\ result \in Proposal \cup {None}
  /\ \A r \in Slot : http[r].ask \notin {<< >>, Nothing} <=>
                      \E i \in DOMAIN asked.slots : asked.slots[i] = r

\* main.ts:88 and proxy.module.ts:9 register the proxy twice: a request is sent
\* to a service once all the same, with the claims of its own verified token,
\* and answered once, by the gateway or by the service.
AnsweredOnce ==
  \A r \in Slot :
    /\ http[r].forwarded + Len(http[r].answers) \in 0 .. 2
    /\ Len(http[r].answers) <= 1
    /\ http[r].forwarded > 0 =>
         /\ http[r].forwarded = 1 /\ http[r].user = http[r].token
         /\ http[r].user # NoUser /\ http[r].path \in Service

\* Every request the gateway receives is answered, though main.ts:89 drops the
\* promise of the proxy: nothing after its await may throw.
RequestsEnd == \A r \in Slot : http[r].at > 0 ~> Ended(r)

\* Each change of a select sends a request of its own, and the last answer to
\* arrive is shown.  Once no answer is awaited any more the comparison is that
\* of the two selected snapshots, or empty, unless an answer was overtaken.
ComparisonOfSelected ==
  AtRest /\ ~ asked.overtaken =>
    comparison \in {None, Empty, <<left, right>>}

\* The button is not disabled while an analysis runs.  Unless a submit came in
\* between, the page shows the spinner while it waits, and then the result of
\* what was submitted or an error, never both.
OneOutcomeShown ==
  ~ asked.overlapped =>
    /\ loading <=> services /\ ~ AtRest
    /\ Cardinality({b \in {"loading", "error", "result"} :
                      \/ b = "loading" /\ loading
                      \/ b = "error" /\ error
                      \/ b = "result" /\ result # None}) <= 1

\* "`GET /users` — list users" (docs/api-guide.md:19), for whom
\* @Roles('admin') (users.controller.ts:13) names: an administrator with a valid
\* token gets the list, or is told to slow down.
AdminListsUsers ==
  \A r \in Slot :
    Ended(r) /\ http[r].path = "users" /\ http[r].token \in Admin =>
      http[r].answers[1] \in {200, 429}

==============================================================================
