------------------------- MODULE TopologyPersistence -------------------------
(***************************************************************************)
(* PersistenceService of the topology service                              *)
(* (apps/topology-service/src/infrastructure/persistence/                  *)
(* persistence.service.ts): the replicas of the service, each with a graph *)
(* in memory, and the snapshots they write to one MongoDB collection.      *)
(*                                                                         *)
(* A graph is what exportGraph writes: the services in the order of the    *)
(* Map, and for each the dependencies in the order of its list.  The store *)
(* is the newest snapshot in it, for no code in use reads another.         *)
(* createdAt is given when save() is called, so the calls not yet answered *)
(* are kept in that order, and one is superseded once a later one is in    *)
(* the store.                                                              *)
(***************************************************************************)
EXTENDS Integers, FiniteSets, Lists

CONSTANTS Replica,          \* pods of the deployment
          ServiceId,        \* identifiers a service may register under
          Link,             \* the <<source, target>> pairs clients declare
          DependencyType,   \* 'http' | 'grpc' | 'event'
          NoType,           \* a type field that was overwritten by undefined
          MaxDependencies,  \* bound on the dependencies of one source
          MaxSaving,        \* bound on the save() calls not yet answered
          None

ASSUME LinkAssumption == Link \subseteq ServiceId \X ServiceId

ASSUME SavingAssumption == MaxSaving \in Nat

AnyType == DependencyType \cup {NoType}

Dependency == [target : ServiceId, type : AnyType]

Empty == [services |-> << >>, dependencies |-> [s \in {} |-> << >>]]

VARIABLES phase,    \* of each replica: down, serving, stopping or stopped
          graph,    \* of each replica: its GraphService; after exit, the last
          saving,   \* snapshots whose save() is not yet answered
          latest,   \* the graph findOne().sort({createdAt: -1}) returns, or None
          unsaved   \* of each replica, history: it answered a write that no
                    \* save it began contains, or the last save failed or was
                    \* another replica's, or it started with another graph
                    \* than the newest snapshot

vars == <<phase, graph, saving, latest, unsaved>>

Init ==
  /\ phase = [r \in Replica |-> "down"]
  /\ graph = [r \in Replica |-> Empty]
  /\ saving = << >>
  /\ latest = None
  /\ unsaved = [r \in Replica |-> FALSE]

------------------------------------------------------------------------------
\* Writes, at any replica that still listens.  The HTTP server is closed only
\* after onModuleDestroy returned, so one that is stopping still answers.

Services(g) == {g.services[i] : i \in DOMAIN g.services}

Registered(g, id) ==
  [services |-> Append(g.services, id),
   dependencies |-> [s \in Services(g) \cup {id} |->
                       IF s = id THEN << >> ELSE g.dependencies[s]]]

LinksElsewhere(list, id) == Keep(list, {d \in Dependency : d.target # id})

\* Mutant: removeNode forgets adjacencyList.delete(id).
DeregisteredKeepList(g, id) ==
  [services |-> Keep(g.services, ServiceId \ {id}),
   dependencies |-> [s \in Services(g) |-> LinksElsewhere(g.dependencies[s], id)]]

Deregistered(g, id) ==
  [services |-> Keep(g.services, ServiceId \ {id}),
   dependencies |-> [s \in Services(g) \ {id} |-> LinksElsewhere(g.dependencies[s], id)]]

IsFirst(list, i, d) == list[i] = d /\ \A j \in 1 .. i - 1 : list[j] # d

WithList(g, s, list) == [g EXCEPT !.dependencies[s] = list]

Retyped(list, i, type) == [list EXCEPT ![i].type = type]

\* The dependencies on target that addEdge accepts, and those that find returns.
NewLinks(list, target) ==
  {d \in [target : {target}, type : DependencyType] :
     Len(list) < MaxDependencies /\ \A i \in DOMAIN list : list[i] # d}

FirstLinks(list, target) ==
  {i \in DOMAIN list : /\ list[i].target = target
                       /\ list[i].type \in DependencyType
                       /\ IsFirst(list, i, list[i])}

\* addEdge, removeEdge and updateEdge of the dependencies of s on target.
Linked(g, s, target) ==
  LET list == g.dependencies[s]
  IN  {WithList(g, s, Append(list, d)) : d \in NewLinks(list, target)}
        \cup {WithList(g, s, Without(list, i)) : i \in FirstLinks(list, target)}
        \cup {WithList(g, s, Retyped(list, i, type)) :
                i \in FirstLinks(list, target), type \in AnyType}

\* The graphs that one accepted write makes of g.
Written(g) ==
  {Registered(g, id) : id \in ServiceId \ Services(g)}
    \cup {Deregistered(g, id) : id \in Services(g)}
    \cup UNION {Linked(g, l[1], l[2]) :
                  l \in {k \in Link : {k[1], k[2]} \subseteq Services(g)}}

Write(r) ==
  /\ phase[r] \in {"serving", "stopping"}
  /\ \E g \in Written(graph[r]) :
       /\ g # graph[r]
       /\ graph' = [graph EXCEPT ![r] = g]
  /\ unsaved' = [unsaved EXCEPT ![r] = TRUE]
  /\ UNCHANGED <<phase, saving, latest>>

------------------------------------------------------------------------------
\* Saving

\* saveSnapshot up to the await: the graph is exported and save() is called.
\* awaitedBy is the replica whose end waits for the answer, or None.
BeginSave(r, awaitedBy) ==
  /\ Len(saving) < MaxSaving
  /\ saving' = Append(saving, [awaitedBy |-> awaitedBy, graph |-> graph[r],
                               superseded |-> FALSE])
  /\ unsaved' = [s \in Replica |-> s # r]

\* Cron calls this every five minutes, whether the last save was answered or
\* not, until isShuttingDown.
HandlePeriodicSnapshot(r) ==
  /\ phase[r] = "serving"
  /\ BeginSave(r, None)
  /\ UNCHANGED <<phase, graph, latest>>

\* Mutant: the newest snapshot is taken to be the one stored last.
StoreLast(i) ==
  /\ latest' = saving[i].graph
  /\ saving' = Without(saving, i)

\* Mutant: sort({createdAt: 1}).
StoreFirst(i) ==
  /\ latest' = IF latest = None THEN saving[i].graph ELSE latest
  /\ saving' = Without(saving, i)

\* The document of the i-th call is in the store.
Store(i) ==
  /\ latest' = IF saving[i].superseded THEN latest ELSE saving[i].graph
  /\ saving' = Without([j \in DOMAIN saving |->
                          IF j < i THEN [saving[j] EXCEPT !.superseded = TRUE]
                          ELSE saving[j]], i)

SaveSucceeds ==
  /\ \E i \in DOMAIN saving : Store(i)
  /\ UNCHANGED <<phase, graph, unsaved>>

\* save() rejects; saveSnapshot throws and nobody tries again before the next
\* period.
SaveFails ==
  /\ \E i \in DOMAIN saving :
       /\ saving' = Without(saving, i)
       /\ unsaved' = [r \in Replica |-> unsaved[r] \/ i = Len(saving)]
  /\ UNCHANGED <<phase, graph, latest>>

------------------------------------------------------------------------------
\* The life of a replica

\* SIGTERM: onModuleDestroy sets isShuttingDown and saves once more.
OnModuleDestroy(r) ==
  /\ phase[r] = "serving"
  /\ phase' = [phase EXCEPT ![r] = "stopping"]
  /\ BeginSave(r, r)
  /\ UNCHANGED <<graph, latest>>

\* The process ends once its last save was answered.
Exit(r) ==
  /\ phase[r] = "stopping"
  /\ \A i \in DOMAIN saving : saving[i].awaitedBy # r
  /\ phase' = [phase EXCEPT ![r] = "stopped"]
  /\ UNCHANGED <<graph, saving, latest, unsaved>>

\* The process is killed.  A save() it sent may still reach the store, but
\* nobody waits for the answer.
Crash(r) ==
  /\ phase[r] \in {"serving", "stopping"}
  /\ phase' = [phase EXCEPT ![r] = "down"]
  /\ graph' = [graph EXCEPT ![r] = Empty]
  /\ saving' = [i \in DOMAIN saving |->
                  IF saving[i].awaitedBy = r
                  THEN [saving[i] EXCEPT !.awaitedBy = None] ELSE saving[i]]
  /\ unsaved' = [unsaved EXCEPT ![r] = FALSE]
  /\ UNCHANGED latest

\* The graph a start would find if the calls in flight were all answered well.
Newest ==
  LET pending == {i \in DOMAIN saving : ~ saving[i].superseded}
  IN  IF pending = {} THEN latest
      ELSE saving[CHOOSE i \in pending : \A j \in pending : j <= i].graph

Repeats(list) == {i \in DOMAIN list : \E j \in 1 .. i - 1 : list[j] = list[i]}

\* addEdge throws at the first dependency that repeats one before it.
Accepted(list) ==
  IF Repeats(list) = {} THEN list
  ELSE SubSeq(list, 1, (CHOOSE i \in Repeats(list) : \A j \in Repeats(list) : i <= j) - 1)

\* What importGraph makes of an exported graph: loadLatestSnapshot catches the
\* error, and the dependencies from there on are not loaded.
Imported(g) ==
  LET position(s) == CHOOSE i \in DOMAIN g.services : g.services[i] = s
      afterThrow(s) == \E i \in 1 .. position(s) - 1 :
                         Repeats(g.dependencies[g.services[i]]) # {}
  IN  [g EXCEPT !.dependencies =
         [s \in Services(g) |->
            IF afterThrow(s) THEN << >> ELSE Accepted(g.dependencies[s])]]

\* onModuleInit: the service listens once the latest snapshot is loaded.
OnModuleInit(r) ==
  /\ phase[r] \in {"down", "stopped"}
  /\ phase' = [phase EXCEPT ![r] = "serving"]
  /\ graph' = [graph EXCEPT ![r] = IF latest = None THEN Empty ELSE Imported(latest)]
  /\ unsaved' = [unsaved EXCEPT ![r] = graph'[r] # Newest]
  /\ UNCHANGED <<saving, latest>>

\* onModuleInit when the query fails: the error is logged, and the service
\* listens with an empty graph, which the next period saves.
OnModuleInitFails(r) ==
  /\ phase[r] \in {"down", "stopped"}
  /\ phase' = [phase EXCEPT ![r] = "serving"]
  /\ graph' = [graph EXCEPT ![r] = Empty]
  /\ unsaved' = [unsaved EXCEPT ![r] = TRUE]
  /\ UNCHANGED <<saving, latest>>

------------------------------------------------------------------------------
Next ==
  \/ \E r \in Replica :
       \/ Write(r) \/ HandlePeriodicSnapshot(r)
       \/ OnModuleDestroy(r) \/ Exit(r) \/ Crash(r)
       \/ OnModuleInit(r) \/ OnModuleInitFails(r)
  \/ SaveSucceeds
  \/ SaveFails

Spec == Init /\ [][Next]_vars

\* Cron fires again and again, MongoDB answers, a process that was told to stop
\* ends, and a supervisor starts it again.
Fairness ==
  /\ \A r \in Replica : /\ WF_vars(HandlePeriodicSnapshot(r))
                        /\ WF_vars(Exit(r))
                        /\ WF_vars(OnModuleInit(r))
  /\ WF_vars(SaveSucceeds)

FairSpec == Spec /\ Fairness

------------------------------------------------------------------------------
\* Properties

GraphOK(g) ==
  g \in [services : Seq(ServiceId), dependencies : [Services(g) -> Seq(Dependency)]]

CallOK(call) ==
  /\ call \in [awaitedBy : Replica \cup {None}, graph : {call.graph},
               superseded : BOOLEAN]
  /\ GraphOK(call.graph)

TypeOK ==
  /\ phase \in [Replica -> {"down", "serving", "stopping", "stopped"}]
  /\ unsaved \in [Replica -> BOOLEAN]
  /\ graph \in [Replica -> {graph[r] : r \in Replica}]
  /\ \A r \in Replica : GraphOK(graph[r])
  /\ latest # None => GraphOK(latest)
  /\ saving \in Seq({saving[i] : i \in DOMAIN saving}) /\ Len(saving) <= MaxSaving
  /\ \A i \in DOMAIN saving : CallOK(saving[i])

\* A replica whose writes were all exported, by the last save that any replica
\* began, has its graph in the newest snapshot, stored or on its way, however
\* late older saves arrive; after a clean exit it is stored.
ExportedGraphIsNewest ==
  \A r \in Replica :
    /\ phase[r] # "down" /\ ~ unsaved[r] => Newest = graph[r]
    /\ phase[r] = "stopped" /\ ~ unsaved[r] => latest = graph[r]

\* A step that is not a write, a failure, a crash or a stop.
Calm ==
  \/ \E r \in Replica :
       HandlePeriodicSnapshot(r) \/ Exit(r) \/ OnModuleInit(r)
  \/ SaveSucceeds

\* A replica that is alone, and after some time meets no write and no failure,
\* gets its graph into the store, whatever was in flight before.
SettledGraphIsStored ==
  <>[][Calm]_vars => <>[](\A r \in Replica : latest = graph[r])

\* "Load the latest snapshot from MongoDB" (persistence.service.ts:30): a start
\* that read the snapshot serves the graph it holds.
StartRestoresLatest ==
  [][\A r \in Replica :
       OnModuleInit(r) /\ latest # None => graph'[r] = latest]_vars

==============================================================================
