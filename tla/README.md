# Ripplemark in TLA+

Ripplemark keeps the dependency graph of a company's services, lets services
register themselves and their dependencies, and answers what a change would
break. This directory specifies the parts of it that are hard to get right by
testing: the graph in memory, the API that changes it and announces the changes,
the queries and analyses that read it, the snapshots that carry it over a
restart, the way of a request through the gateway, the tokens of a session in
the gateway and in the web app, the pages that ask for more before they are
answered, and the asynchronous analyses.

Every definition of a module is translated from the code; `map` in
`PROJECT.json` names the lines. Paths below are relative to `src/`.

## 1. The system

| Component | State | Operations | Talks to |
|---|---|---|---|
| GraphService (`apps/topology-service/src/graph`) | three maps in memory: nodes, outgoing lists, incoming lists; the lists share the edge objects | add, update, remove a node; add, update, remove an edge; import; clear; read-only algorithms | called by the ingestion and query controllers and by PersistenceService |
| IngestionController, GraphGateway, gauges (`.../ingestion`, `.../observability`) | rooms of the connected sockets; two gauges | eight HTTP handlers; connect, disconnect, subscribe, unsubscribe; emit | GraphService, socket.io clients, Prometheus |
| PersistenceService (`.../infrastructure/persistence`) | `isShuttingDown`; the snapshot collection in MongoDB | load at start, save every five minutes, save at shutdown | GraphService, MongoDB |
| Query controller (`.../query`) | none | lists, transitive queries, cycles, order, paths, blast radius, subgraph, export | GraphService |
| AuthService and RedisTokenService (`apps/auth-gateway/src/auth`) | one Redis key for each refresh token that works | login, refresh, logout | Redis, PostgreSQL |
| Users, guards, proxy (`apps/auth-gateway/src/{users,authorization,proxy}`) | the users table; `req.user` of a request | check the token and forward; rate limit, role checks, CRUD | PostgreSQL, the other services |
| Web app session (`apps/web-app/src/app/core`) | `state()` with the two tokens, `refreshPromise` | login, an interceptor around every call, refresh | gateway |
| Web app snapshots and analysis pages (`.../features/{snapshots,analysis}`) | signals: selection, comparison; form, spinner, result, error | load, compare at every change; load, submit | gateway |
| Web app graph page (`.../features/graph`) | nodes and edges on screen | reload at every event | gateway, GraphGateway |
| Async analyses (`apps/analysis-service/.../api/analysis.py`) | `_ANALYSIS_RESULTS`, an ordered dictionary bounded in size and age | queue, complete in a background task, poll | TopologyClient |
| TopologyClient, breaker (`.../core/http_client.py`) | attempts of a fetch; failure count | fetch with retries | query controller |
| Impact, simulation, compatibility engines | none | pure functions of a graph | |
| Registry (`apps/registry-service`) | services, versions, teams, snapshots in PostgreSQL | generic view sets, a capture command | PostgreSQL, query controller |
| Shared libraries, deployment, CI, docs | none | | |

What is hard in it, and what makes each part correct:

* **Graph.** All methods are synchronous, so calls do not interleave, but each
  changes two lists and finds the second entry by comparing fields. Correct
  means: both lists always tell one and the same graph, between registered
  services only.
* **Ingestion.** A request may be applied in part (bulk registration, dependency
  report); clients join and leave rooms at any time and may get an event twice
  or not at all. Correct means: what was applied is announced and counted, and
  nothing else is.
* **Persistence.** Saves overlap, fail, arrive in another order than they were
  sent, and outlive the process that sent them. Correct means: the newest
  snapshot is the graph exported last, and it is what the next start serves.
* **Tokens.** Every handler awaits Redis or PostgreSQL several times, on several
  replicas. Correct means: a session has one refresh token that works, and a
  token that was logged out works no more.
* **Web session.** Any number of calls meet a 401 together, answers are lost while
  the gateway goes on. Correct means: a token is traded once, and no call hangs.
* **Queries, analyses, comparisons.** Walks with a depth limit over graphs with
  cycles, self-loops and parallel edges, written four times in three services and
  two languages. Correct means: each agrees with the definition of distance, of a
  component or of an order, and they agree with each other.
* **Gateway.** A request passes the same proxy twice, guards of the application
  and guards of the controller. Correct means: it is sent on once with the claims
  of its own token, answered once, and answered at all.
* **Pages.** Nothing stops the user from asking again before an answer has come.
  Correct means: what is shown belongs to what is selected.
* **Analyses.** Tasks overtake each other in a dictionary that drops its oldest
  entry, and wait for a fetch that is retried. Correct means: a recent result can be
  fetched, every fetch ends, and a client is not told to wait for a result that has
  expired.

The line at which each of these bites, with the property that watches it or the
reason why none does, is in `hazards` of `PROJECT.json`.

## 2. The modules

```
DependencyGraph        the promise: services, and dependencies between them
  ^ INSTANCE, twice
TopologyGraph          GraphService, writing    <- TopologyGraphProofs (TLAPS)
  ^ EXTENDS                ^ EXTENDS
TopologyIngestion      GraphQueries           GraphService, reading;
  IngestionController,   ^ EXTENDS   ^        QueryController
  GraphGateway, gauges   |       GraphCycles  its cycles and its order
  <- TopologyIngestion   |
     Proofs            ImpactAnalysis         analysis engines
                         ^ EXTENDS
                       RegistrySnapshots      snapshots of the registry
Compatibility          compatibility checker
  <- QueriesProofs, for GraphQueries, ImpactAnalysis, RegistrySnapshots
     and Compatibility

TopologyPersistence    PersistenceService: replicas,   <- TopologyPersistenceProofs
                       MongoDB, restarts

AuthTokens             gateway: refresh tokens in Redis
  ^ EXTENDS                                     <- SessionProofs, for both
WebSession             web app: one refresh in flight,
                       and the calls that wait for it

Gateway                gateway: proxy, guards, handlers
  ^ EXTENDS
Pages                  web app: snapshots page         <- PagesProofs
                       and analysis page

TopologyClient         analysis service: the attempts of a fetch
  ^ EXTENDS
AnalysisResults        analysis service: async results <- AnalysisResultsProofs

Lists                  splice() and filter(), for the modules that keep a
                       list or loop over one           <- ListsProofs
```

An `MC...` module gives the constants of a module small values; its `.cfg` files
each ask one question.

### DependencyGraph and TopologyGraph

`TopologyGraph` has the three maps of the class under their names, and `edge`,
the heap of DependencyEdge objects. The code keeps references to the *same*
object in both lists, so an update through one shows in the other; therefore a
list holds object ids, and fields are looked up in `edge`. `push` appends and
`splice` preserves order, so a list is always in the order in which its objects
were made: it is modelled as a set of ids, and `find` as the least that matches.
Each public method that changes the graph is one action; a call that throws
changes nothing and is no step. `removeNode` is kept in its two passes
(`reverse1`, `forward1`) because the second reads what the first wrote.
`importGraph` stops at the first edge that `addEdge` refuses, and what was loaded
until then stays.

`DependencyGraph` is what a caller may expect: a set of services and a set of
dependencies with an identity, which `register`, `remove`, `declare`, `change`
and `replace` act on. `TopologyGraph` implements it twice: read through the
outgoing lists (`ForwardGraph`), as `getEdges` and `exportGraph` do, and read
through the incoming ones (`ReverseGraph`), as the blast radius does.

### TopologyIngestion

Extends `TopologyGraph` with the rooms of each client, the copy of the graph a
client builds from the events it receives, the two gauges, and what the last
request left to compare them with. One action is one HTTP handler: the graph
change, the events in their order, and the gauges, which the handler sets at its
end. `emitGraphUpdate` sends to the room of the event type and then to `all`, so
a client in both receives the event twice (`Received`), and the events of one
request are received one after another (`AfterEvents`, a recursive function).
`Apply` (a subscriber) is external code: it does with an event what its payload
says. A report of dependencies is a set of entries, of which any may be listed twice:
those in `again` are found recorded by their first listing and are only announced as
updated. `Restart` loads any of the snapshots, also one that was saved with a
dependency twice or without a type. Batches name finitely many services, so
`ServiceId` and `DependencyType` are finite sets (`FiniteAssumption`).

### GraphQueries, GraphCycles, ImpactAnalysis, RegistrySnapshots and Compatibility

A query runs to its end on one thread, so it is a function of one state of
`TopologyGraph`: the `Answer...` operators are the handlers of QueryController,
and what they call are the algorithms of GraphService with their queues, marks
and limits as in the code, since there is where they could go wrong. The walk of
the transitive queries marks a service when it is taken from the queue and never
marks the start; the path search marks when it pushes. An adjacency list is read
in the order of its objects; of the keys of a `Map` one fixed order is taken. A loop
is a recursive function on the values of its variables (`Marking`, `Searching`,
`Sorting`), with one round of it as an operator (`Shift`, `SearchRound`, `SortRound`).
`KahnOrder` is the second half of `topologicalSort`, the loop that counts degrees down;
it is defined for a graph with cycles too, although the code asks for the cycles first.
`GraphCycles` has that question: the components by Tarjan, which call themselves and are
written with a `RECURSIVE` operator, and what the two handlers answer.

`ImpactAnalysis` has the walk of the analysis service, its risk score and the
simulation, each over `ExportGraph`. What `networkx` computes (descendants, path lengths) is its
definition. `Distances`, `Circle` and `Within` are the reference definitions: by
sets, without queues.

`RegistrySnapshots` adds the rows of the registry's snapshots: `CaptureSnapshot` stores
the graph of the moment in `captured`, and the graph goes on changing. `DiffGraphs` is
the comparison of two of them. It reads the ids of the services and the pairs of ends of
the dependencies, and nothing else: not what is known of a service, not the type of a
dependency, not how many there are between two services.

`Compatibility` is the verdict on two API descriptions. The checker keeps no state;
`released` is what a user of it has released, each time something it called
compatible with the latest, which is external code.

### TopologyPersistence

Several replicas with a graph each, one store. Here the order of the lists
matters, because a truncated import depends on it, so a graph is what
`exportGraph` writes. `Write` makes any change a handler of the ingestion API
makes; which one is not told apart. `saving` holds the `save()` calls that are
not answered, in the order of their `createdAt`; the store is the newest
document, since nothing in use reads another, and a call is `superseded` once a
newer document is there. `awaitedBy` of a call is the replica whose end waits for
its answer (`onModuleDestroy`), or nobody. `SaveFails` drops a call; `Crash` loses
the graph and leaves the calls in flight, which nobody awaits any more. `Accepted`
is what an import takes before `addEdge` refuses a dependency that is there.
`unsaved` is a history variable: the replicas that have written since they began
the last save of all, or that another replica's save, or a failure of the
last, has overtaken.

### AuthTokens and WebSession

A token is its rank among those issued, with the login it descends from. Every
request is a record that moves from await to await: `HasRefreshToken`,
`InvalidateRefreshToken`, `FindById`, `StoreRefreshToken`, `UpdateLastLogin`.
`RequestFails` ends one at any await (Redis or PostgreSQL does not answer, or the
gateway is killed) and leaves what it wrote. `Expire` is the time to live of a
key.

`WebSession` is one tab as the only client of that gateway. A call may come back
with 401 at any time, since the gateway checks the access token by its signature
and its age; it then starts or shares the refresh; the refresh ends with an answer, an error, or a lost connection while
the gateway still works on the request. All waiting calls are resumed at once:
they are continuations of one promise.

### Gateway and Pages

`Gateway` holds the request in each of a few slots, and where it is in `Chain`:
what `main.ts` puts in front (`BootstrapUses`), the metrics middleware and the proxy
again from the modules (`AppModuleApplies`, `ProxyModuleApplies`), the guards of the
application (`AppModuleGuards`, `AuthorizationGuards`), those of UsersController
(`UsersGuards`), the handler. The calls of one part are listed where they are
registered; that express and Nest take the parts in this order is theirs, and
external, as is what the proxy library does with an answer (`UpstreamEnds`). The proxy awaits the verification of the token, so `Use` and
`AuthenticateRequest` are two steps; `forwarded` counts how often a request is
sent on, `answers` holds every answer it was given, and `awaits` is what the proxy
waits for.

`Pages` is a client of it with one page open at a time. A signal of the page is a
variable; each handler is two steps, before and after its await; `loadSnapshots`
goes on into its comparison in the step in which it is answered. `asked` is a
history variable: the requests under way in the order they were sent, and whether
any overlapped or was overtaken, which is what the two properties of the pages
depend on. `Stored` is what the list of snapshots may be: sequences of `Snapshot`
(`StoredAssumption`). Without that condition neither holds: an overtaken comparison stays on
the page, and overlapping submits can leave an error next to a result.

### AnalysisResults and TopologyClient

`TopologyClient` is a fetch: sent, or paused before the next attempt. The circuit
breaker is not a variable: `get_topology_client` makes a client for every request,
a client fetches once, so its breaker is asked when it has recorded nothing and
never refuses. `AnalysisResults` puts the background tasks, and the requests that
wait for the graph themselves, on top of it.

`results` is the dictionary in its order; `Cleaned` and `Others` keep what a
clean-up or the store of a key leaves. When the process is replaced, its tasks are
`lost`. A handler of the event loop is one step; a background task awaits the graph, so queueing and completing are two
steps, with the attempts of the fetch in between.
The age of a record only matters against the time to live, so `old` holds the
analyses that are past it; `since` is a history variable: which analyses were
stored after each one's last store.

## 3. The runs

| Run | Question | Result |
|---|---|---|
| `topology_ingestion` | do the lists stay mirrors of each other between registered services, does each implement `DependencyGraph`, do only updates make a dependency ambiguous, and do gauges and events follow the graph, request by request? | holds |
| `every_client_told` | is a graph update sent to all connected clients, as the comment says? | violated: only to clients that subscribed |
| `topology_persistence` | is the graph exported last the newest snapshot, stored or on its way, and does a graph that is no longer written get into the store? | holds |
| `start_restores_latest` | does a start serve the graph of the latest snapshot? | violated: import stops at a dependency that is there twice |
| `auth_tokens` | does a token that was logged out stay without a key? | holds |
| `token_rotation` | does rotation leave a session one token? | violated: two refreshes pass the check before either deletes the key |
| `web_session` | does the shared refresh of the web app give its sessions what the gateway alone does not, and does every call that waits for it end? | holds |
| `graph_queries` | is every query, analysis and simulation what reachability and distance say, what do two graphs have in common when their comparison shows nothing, and does the compatibility verdict add up? | holds |
| `pages` | is every request answered, once, and does a page show what is selected unless requests overlapped? | holds |
| `users_list` | does an administrator get the list of users? | violated: the global RolesGuard runs before the token is read |
| `analysis_results` | is a recent result kept, however tasks overtake each other, and does every fetch end? | holds |
| `expired_is_gone` | is a result that has expired told to be gone? | violated: the poll that cleans it up says so, every later one says `pending` |

A PUT may change a dependency into a second copy of another, or erase its type:
`updateEdge` (`graph.service.ts:110`) does not check as `addEdge` does, and copies
fields the body leaves out. `OnlyUpdatesBlur` shows that nothing else does so;
`blurred` is the history variable that records it, and `start_restores_latest`
what it leads to.

`findings` in `PROJECT.json` quotes, for every violated one, the line that
promises it.

### Bounds, and why they are enough

* `topology_ingestion`: two services, two types, three edge objects. Two services
  have self-loops, two-cycles and parallel edges; two edges of different types
  become equal through an update; removing a service meets all of these at once. A
  third service would only add lists that a step does not touch. Ids grow only as
  long as the objects live (`IsNewest`), so runs of calls are not bounded. The
  third snapshot of `MCSnapshots` throws in the middle of its import, the fourth has
  an erased type. One client,
  since clients share no variable; two sets of rooms, of which one overlaps itself
  by `all`.
* `graph_queries`: four services and five edges, so that a path has a detour, a
  cycle has a tail, a diamond has two shortest paths, and depths up to three
  differ from one another and from no limit. A start loads one of four such
  graphs, and it is captured; then come up to `MaxWrites` = 2 writes: any one dependency
  is added, parallel ones and self-loops included, or taken back, or left without its
  type, any service is changed or removed. Two are enough for each way to leave a
  comparison empty: a dependency taken back and declared again, a second one between
  the same services, one service more critical and another less. `DefaultDepth` stands for the 10 of the code: deeper than
  any of these graphs. Every depth limit, filter, pair of services and set of
  services is asked in every state. The model is stopped there (no deadlock
  check): it is the set of graphs that matters. `Api` holds all descriptions with
  at most one schema of two properties; the theorem is about any. Releases are made
  instead of loading a graph, as neither looks at the other.
* `pages`: two requests under way at a time, which is what an answer needs to
  overtake another, on any path, with a token that is valid or not; no snapshot,
  one, or two.
* `topology_persistence`: one replica (the proofs are for any number), two services, two dependencies in a list (a duplicate
  needs two), two saves in flight (a late one and the one that overtakes it).
  `start_restores_latest` needs only one service, which depends on itself.
* `auth_tokens`, `web_session`: two requests at a time, as every race found is
  between two; three tokens, a login and two trades.
* `analysis_results`: three analyses and room for two, so that every store of the
  third drops one, in every order of completion; two attempts for each fetch.

Deadlock is checked in every other run. The constants that bound a model
(`MaxEdge`, `MaxWrites`, `MaxDependencies`, `MaxSaving`, `MaxToken`, `Slot`) stand in guards and are
named as bounds where they are declared; `MaxAsyncResults` and `MaxRetries` are
settings of the code.

### Fairness

* `TopologyPersistence!Fairness`: cron fires again and again
  (`@Cron(EVERY_5_MINUTES)`); MongoDB answers some save again and again; a process
  that was told to stop and whose last save was answered ends; the deployment
  starts a replica that is down. Nothing is assumed of writes, failures or
  crashes; `SettledGraphIsStored` speaks of behaviours in which these cease.
* `WebSession!WebFairness`: the gateway goes on with a request or fails it; a
  refresh the tab waits for is answered or reported as an error by the browser.
  It is not assumed that any answer is a success.
* `AnalysisResults!FetchGoesOn`: httpx ends an attempt after
  `topology_timeout_seconds`, the pause before the next is bounded by
  `topology_backoff_max`, and the event loop runs on. How an attempt ends is not
  assumed, so `EveryFetchEnds` rests on the count of the attempts.
* `PagesSpec`: the event loop of the gateway runs what can run, and a service
  answers or its connection ends, as the proxy sets no limit of its own. Nothing
  is assumed of users.

## 4. The proofs

Every theorem is about all values of the constants: any number of services, data,
types, clients, replicas, requests, tokens, analyses. The runs check
the same properties on small instances.

| Module | Theorem | States | Assumes |
|---|---|---|---|
| `TopologyGraphProofs` | `TypeCorrect`, `ListsAgree`, `EdgesJoinRegisteredServices` | `TypeOK`, `ListsMirror`, `NoDanglingEdge` | `MaxEdge \in Nat`; a snapshot is a map of nodes with a sequence of at most `MaxEdge` edges |
| | `ForwardImplementsGraph`, `ReverseImplementsGraph` | both refinements of `DependencyGraph` | the same |
| `TopologyIngestionProofs` | `ApiImplementsGraphService`, `ApiImplementsGraph` | `IngestionSpec` implements `TopologyGraph!Spec`, and `DependencyGraph` | `ServiceId`, `DependencyType` finite, and the above |
| | `ApiTypeCorrect`, `GaugesAreCurrent`, `DependenciesAreRecordedOnce`, `EventsAreComplete` | `IngestionTypeOK`, `GaugesFollowRequests`, `OnlyUpdatesBlur`, `EventsTellTheGraph` | the same |
| `TopologyPersistenceProofs` | `PersistenceTypeCorrect`, `ExportsReachTheStore` | `TypeOK`, `ExportedGraphIsNewest` | links join services; `MaxSaving \in Nat` |
| `SessionProofs` | `AuthTypeCorrect`, `LogoutFinal` | `AuthTypeOK`, `LogoutIsFinal` | `MaxToken \in Nat` |
| | `WebTypeCorrect`, `TabTradesOnce` | `WebTypeOK`, `TabTradesTokensOnce` | and `NoRequest \notin Request` |
| `PagesProofs` | `PagesTypeCorrect`, `RequestsAnsweredOnce`, `ComparisonIsOfSelected`, `OneOutcomeIsShown` | `PagesTypeOK`, `AnsweredOnce`, `ComparisonOfSelected`, `OneOutcomeShown` | a stored list is a sequence of `Snapshot` |
| `AnalysisResultsProofs` | `ResultsTypeCorrect`, `RecentResultsAreKept` | `TypeOK`, `RecentResultIsKept` | calls are analyses or direct; `MaxAsyncResults`, `MaxRetries` are numbers |
| `QueriesProofs` | `QueriesAreNearest`, `PathsAreShortest`, `BlastRadiusIsSymmetric`, `SubgraphsAreInduced`, `OrderRespectsDependencies` | `TransitiveIsNearest`, `ShortestPathIsShortest`, `BlastRadiusIsMutual`, `SubgraphIsInduced`, `SortRespectsDependencies` | `ServiceId` finite, the default depths are numbers, and the assumptions of `TopologyGraph` |
| | `AnalysisAgrees`, `RiskIsMonotone`, `EmptyComparisonIsSafe` | `AnalysisAgreesWithTopology`, `RiskGrowsWithGraph`, `EmptyComparisonSameImpact` | and severities in 0..100, criticalities in `Nat` |
| | `CompatibilityStepsAddUp` | `CompatibleStepsAddUp` | nothing |

**The graph.** None of the three invariants of `TopologyGraph` is inductive alone.
With entries that are in one list only, `removeNode` would leave an edge to the
removed service behind; with edges that lead nowhere, the import and removal steps
would index a map at a key it does not have. Their conjunction `IInv` is inductive.
The proof has one lemma for each action, which says what the action does to the maps
(`...Effect`), and rests on two facts about `SpliceIncoming` and `SpliceOutgoing`: as
many elements are taken away as were asked for, and *these* elements, because
`removeNode` asks for every edge between two services at once, and `removeEdge` for
the first match, which `ListsMirror` makes the first match of the other list as well.
The refinement theorems then map each action to one of `DependencyGraph`, or to a
stutter, from the same lemmas.

**The API.** `HandlersAreGraphSteps` shows that each handler takes a step of
`TopologyGraph` or none, so `IInv` and both refinements hold behind the API.
`IngestionInv` adds the types, the gauges, `OnlyUpdatesBlur` and the copies of the
clients. The copies are the hard part: a request emits as many events as it applied
parts of, each of which a client gets once or twice, and after all of them the copy
must be the graph after the request (`Tells`). A dependency is told by its fields and
not by its object, so this needs that no two dependencies have the same fields:
`EventsTellTheGraph` is not inductive without `OnlyUpdatesBlur`. Removing a
dependency by its fields from a copy would remove both.

**The snapshots.** `PersistenceInv` has three parts. The superseded calls in flight
are older than the others (`SupersededFirst`); hence the snapshot that will be the
newest, whatever order the answers come in, is that of the last call, or the stored
one when that is superseded (`NewestIsLast`); and this is the graph of every replica
with nothing unsaved (`ExportedLast`). For the exit, a replica that is stopping with
nothing unsaved has its last save stored or still awaits it (`StoppingSaves`): that is
the `await` in `onModuleDestroy`. `PersistenceTypeCorrect` is of the graphs themselves:
every write, import and export keeps one list for each service.

**Sessions.** For `LogoutFinal`, a logout must name a token that was issued
(`LogoutsNameTokens`); the rest is that only `StoreRefreshToken` adds a key, and that
of a new token (`StoredGrowsByNew`). `TabTradesOnce` is not a property of the gateway
by itself (`token_rotation`), so the argument is about what the tab may have under way.
The tokens of a session are a chain by parent. `WebInv` says that the chain has one end
(`OneHead`), that only an end has a key (`StoredAreHeads`), that a request trades an
end, whose key is gone once it passed the deletion (`TradesAreOpen`), that no two
requests trade the same one (`TradesApart`), that a token not yet delivered is known to
nobody (`AnswersAreFresh`), and that with no refresh under way nobody trades the token
of the tab (`SessionIsOpen`). The last is what `refreshPromise` is for; it survives a
refresh the tab gives up because `RefreshFails` forgets the token as well. Every
conjunct is needed by some step: `StoreRefreshToken` forks the chain without
`TradesApart`, and `RefreshFirst` breaks that without `SessionIsOpen`. Most steps start
no trade and issue nothing, and are instances of one lemma, `QuietStep`.

**Gateway and pages.** `RequestsOK` gives each request one of the forms it has on its
way (`Lifecycle`): in the chain and not answered, at a service and past the chain, or
answered. A request to a service never gets past the first proxy, which is why the
second one cannot send it again. `SlotsOK` ties the history to the requests that the
page wants; `SnapshotsOK` says that before the list has come nothing else is awaited,
and afterwards the *last* request is about what is selected: then an answer that
overtakes none, and is the last, is about it as well. `AnalysisOK` has the spinner,
the error and the result. Steps that the open page does not see are instances of one
lemma, `Unseen`.

**Results of analyses.** `RecentResultIsKept` follows from the order of the dictionary:
`since` of a record is exactly what matters to its place, as every record behind
another in `results` was stored since the other was (`InOrder`), records have
different keys, and a record is only dropped as the oldest of more than
`MaxAsyncResults`, that is with at least so many behind it.

**Compatibility.** For any descriptions, with any number of schemas and properties, and
any number of releases of which each was called compatible with the one before, the
latest is compatible with the first. `CompatibleIsKeeping` turns the verdict into what
a client sees (every property is still there, with its type, and is required only if it
was); that relation is transitive (`CompatibilityIsTransitive`), also through a schema
that is missing in the middle, which counts as one without properties.

**The queries.** An answer is a function of one state, and what it needs of the state is
`IInv` of `TopologyGraph`: every entry of a list leads from a registered service to
another, and the two lists of entries are one. What is left is that the loops do what
`Within`, `Layer` and `Distances` define, on any graph.

* *A loop has a value.* A recursive function in TLA+ is a choice among the functions
  that satisfy its equation. `LoopByLevels` gives one, for every loop that takes an
  element from a queue and appends others one level deeper: the queue is always the
  rest of level *h* followed by the beginning of level *h* + 1 (`QueueRound`,
  `QueueLevels`). When no level beyond the last is expanded, the answer is reached in
  finitely many steps, counted by the levels left and the queue left (`TakesLevels`).
* *The transitive queries* mark when they take (`Shift`): at level *h*, what is marked
  lies within *h* links, what lies within *h* links is marked or waits in the rest of
  level *h*, and what follows a marked service is marked or waits somewhere (`Covered`).
  The start is the exception in each clause: it is never marked, so every cycle through
  it puts it in the queue again.
* *The path search and the analysis* mark when they push (`Spread`). The search stops at
  its target or with an empty queue, at no limit, so `ReachIsComplete` supplies one:
  nothing new is reached after as many links as there are services. `Parents` says that a
  parent is one layer nearer and linked; hence going back from the target ends at the
  source after as many steps as its distance (`AncestryIsChain`).
* *Blast radius.* Reach over the links of one list is reach over the converse of those
  of the other (`ReachIsMutual`), by induction on the number of links, taken off at
  either end (`FirstLink`). That the direct answers agree as often as there are
  dependencies is a count of the same objects in two lists.
* *Subgraph, export, statistics* are concatenated lists of distinct objects
  (`FlattenElements`).
* *The order.* The degree of a service is at all times the number of its dependencies
  whose source is not in the result yet (`Missing`), and the result and the queue hold,
  each once, exactly the services of degree zero (`Counted`). Within a round this is
  open: parallel dependencies take a degree off one at a time, and a target is queued at
  the last of them (`Lowered`, `Cleared`). Each round adds one service to the result,
  which cannot outgrow the graph (`ResultFits`), so the loop ends. A service is behind
  its sources because it had none missing when it was queued. No service behind a cycle
  gets in (`OrderLeavesCycles`): the first of a cycle would be behind itself. And only
  these stay out (`LeftOutIsBehind`): a service left out has a source left out, so of
  those that lead to it one with the largest reach is reached by its own source, which
  closes a cycle. Hence `order.length === nodes.size` at the end of `topologicalSort`
  asks once more what `detectCycles` has answered.

**The analyses.** `AnalysisAgrees` shows that two walks, one in each language, and a
definition by paths agree on the same exported graph. For `RiskIsMonotone`, looking
further keeps the distances and adds some (`DistancesGrow`), and one more dependency only
brings services nearer (`DistancesShrink`); a sum of weights is a count of pairs
(`SumIsCount`), so it grows with its summands and with the set it is taken over
(`SumGrows`).

**The comparison.** `EmptyComparisonIsSafe` is about every pair of captured graphs, and
about a captured graph and the graph of today. `RegistryInv` adds to `IInv` that each
captured graph has the form of an export, with dependencies between its own services
(`StoredGraph`, `ExportIsStored`). When nothing is shown, both graphs have the same
services and the same links (`NothingIsSame`), and walk and simulation read nothing else
(`SameLinksSameImpact`). The score also reads `metadata.criticality`, which a
comparison leaves out: an upsert of a service can leave the comparison empty and change the
risk. So of the score the theorem only says that it does not grow where no affected service
is more critical (`MoreCriticalMoreRisk`); read both ways, equal criticalities
give equal scores.

`ListsProofs` has what several of these need: what `splice` and `filter` leave and in
which order (`WithoutList`, `KeepPositions`), what `SetToSeq` and concatenation list.
`filter` is recursive; the induction theorems of the library take a predicate, which
the provers cannot instantiate, so induction is stated about sets of numbers
(`NatBySteps`), from the least element of a set.

Model-checked only: liveness under fairness (`SettledGraphIsStored`, `EveryFetchEnds`,
`CallsEnd`, `RequestsEnd`), which is out of reach of the prover; and
`CyclesAreComponents`, whose algorithm is a `RECURSIVE` operator, which the prover does
not accept.

## 5. What is not modelled, and why

* With two or more replicas of the topology service, which the charts ask for,
  each has a graph of its own and the snapshots of all go into one collection.
  The model has the set of replicas as a parameter, and what is proved holds for any
  number of them; but with several the graphs diverge at the first write, the last
  save of any wins, and no text of the repository says how they should relate.
* Query failure at the start, writes during the shutdown: modelled as steps, with
  no property of their own, as nothing is promised about them.
* Passwords, OAuth, the proxy's headers; `completeOAuthLogin`, `setSession` and a
  stored session in the web app. `logout()` of the web app has no caller except the
  failed refresh, so there is no race with it. The handlers of `/users` are one
  step that answers: no request reaches them (`users_list`). `TeamAccessGuard`
  passes every request, as no handler has its decorator.
* Metadata of services: `RiskAssumption` takes the criticality as a natural number.
  The ingestion API does not check it; a negative one would lower a risk, a text
  would raise in the analysis. A simulation of an unknown service fails with a 500
  (`Simulate`); nothing says what it should do.
* The web app's graph page: it joins no room, so no event reaches it
  (`every_client_told`), and what is left is one load. The registry and team pages
  load once and close a form before it can be sent twice.
* Registry: generic view sets over PostgreSQL rows, without state of their own,
  except the snapshots, which `RegistrySnapshots` captures and compares; the rows it adds stay, as
  creating, changing and deleting rows through the view set is left out. That a
  service has one current version is a constraint of the database.
* What some properties leave open. `EventsTellTheGraph` says nothing once the graph was
  `blurred`, as a copy cannot tell equal dependencies apart. `LogoutIsFinal` is about
  the token that was logged out; a refresh that passed its check before may still
  issue a successor. `SubgraphIsInduced` asks for sets of services: an id given twice
  gives its node and its dependencies twice. `EveryFetchEnds` takes the timeout of httpx, which
  is one for each read, as a bound on an attempt.
* Whether a background task may still use the client of its request: the locked
  version of FastAPI closes it after the task, and the model follows it.
* Health checks, configuration, logging, tracing, deployment: I/O and wiring.

## 6. Plan

Done: graph, ingestion, persistence, tokens, web session, analyses; the queries and
engines that read the graph; gateway and pages; and proofs of every safety property,
but for the cycles.

Left, in this order:

1. The components of `DetectCycles` as a loop over an explicit stack of calls, and a
   proof that they are the largest circles.
2. `WebSession` under `Pages`: a call of a page that is retried after a refresh.
3. Two replicas of `TopologyPersistence` in a run, once the repository says what their
   graphs should have in common.
