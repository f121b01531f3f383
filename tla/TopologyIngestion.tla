-------------------------- MODULE TopologyIngestion --------------------------
(***************************************************************************)
(* The write side of the topology service: the handlers of                 *)
(* IngestionController (apps/topology-service/src/ingestion/               *)
(* ingestion.controller.ts) over the GraphService of TopologyGraph, the    *)
(* events they send through GraphGateway (graph.gateway.ts) and the gauges *)
(* they set in TopologyMetricsService (observability/metrics.service.ts).  *)
(*                                                                         *)
(* A handler runs to its end without an await, so it is one step.  A       *)
(* request that fails as a whole is answered before it emits or counts.    *)
(***************************************************************************)
EXTENDS TopologyGraph, SequencesExt

CONSTANTS Client,         \* socket.io clients of the namespace /graph
          Subscription    \* sets of rooms a subscribe or unsubscribe names

EventType ==
  {"node_added", "node_updated", "node_removed",
   "edge_added", "edge_updated", "edge_removed"}

Room == EventType \cup {"all"}

\* A service is named in the body of a request, whose size express limits, and
\* there are three types: 'http', 'grpc' and 'event'.
ASSUME FiniteAssumption == IsFiniteSet(ServiceId) /\ IsFiniteSet(DependencyType)

ASSUME SubscriptionAssumption == Subscription \subseteq SUBSET Room

VARIABLES rooms,      \* rooms of every connected client
          gauges,     \* graph_node_count and graph_edge_count
          told,       \* how often the last event went to each client that was
                      \* connected when it was sent
          counted,    \* history: a request set the gauges since the start
          mirror,     \* history: the graph a client of room 'all' has made of
                      \* the one it joined at and the events sent to it
          blurred     \* history: an update erased a type, here or before the
                      \* snapshot was saved, or made two dependencies equal

graphVars == vars

clientVars == <<rooms, told, mirror>>

ingestionVars == <<vars, rooms, gauges, told, counted, mirror, blurred>>

\* What GET /query/export returns of the graph, the order aside.
Exported ==
  [services |-> DOMAIN nodes, dependencies |-> {edge[e] : e \in DOMAIN edge}]

IngestionInit ==
  /\ Init
  /\ rooms = [c \in {} |-> {}]
  /\ gauges = [nodes |-> 0, edges |-> 0]
  /\ told = [c \in {} |-> 0]
  /\ counted = FALSE
  /\ mirror = [c \in {} |-> Exported]
  /\ blurred = FALSE

------------------------------------------------------------------------------
\* GraphGateway

NodeEvent(eventType, id) == [eventType |-> eventType, id |-> id]

EdgeEvent(eventType, dependency, updates) ==
  [eventType |-> eventType, dependency |-> dependency, updates |-> updates]

\* A client applies an event to its copy of the graph.
Apply(view, event) ==
  LET services == view.services
      dependencies == view.dependencies
  IN  CASE event.eventType = "node_added" ->
             [view EXCEPT !.services = @ \cup {event.id}]
        [] event.eventType = "node_removed" ->
             [services |-> services \ {event.id},
              dependencies |-> {d \in dependencies :
                                  d.source # event.id /\ d.target # event.id}]
        [] event.eventType = "edge_added" ->
             [view EXCEPT !.dependencies = @ \cup {event.dependency}]
        [] event.eventType = "edge_removed" ->
             [view EXCEPT !.dependencies = @ \ {event.dependency}]
        [] event.eventType = "edge_updated" /\ event.dependency \in dependencies ->
             [view EXCEPT !.dependencies =
                (@ \ {event.dependency})
                  \cup {[event.dependency EXCEPT !.type = event.updates]}]
        [] OTHER -> view

\* An event is sent to the room of its type and then to the room 'all'; a
\* client that is in both receives it twice, and applies it twice.
Receipts(c, event) == Cardinality(rooms[c] \cap {event.eventType, "all"})

Received(c, view, event) ==
  IF Receipts(c, event) = 2 THEN Apply(Apply(view, event), event) ELSE Apply(view, event)

\* What events, in this order, make of a client's copy of the graph.
AfterEvents(c, view, events) ==
  LET after[i \in 0 .. Len(events)] ==
        IF i = 0 THEN view ELSE Received(c, after[i - 1], events[i])
  IN  after[Len(events)]

\* emitGraphUpdate for each of the events.
EmitGraphUpdates(events) ==
  /\ mirror' = [c \in DOMAIN mirror |-> AfterEvents(c, mirror[c], events)]
  /\ told' = IF events = << >> THEN told
             ELSE [c \in DOMAIN rooms |-> Receipts(c, Last(events))]
  /\ UNCHANGED rooms

HandleConnection(c) ==
  /\ c \notin DOMAIN rooms
  /\ rooms' = [x \in DOMAIN rooms \cup {c} |-> IF x = c THEN {} ELSE rooms[x]]
  /\ UNCHANGED <<graphVars, gauges, told, counted, mirror, blurred>>

Forget(f, c) == [x \in DOMAIN f \ {c} |-> f[x]]

HandleDisconnect(c) ==
  /\ c \in DOMAIN rooms
  /\ rooms' = Forget(rooms, c)
  /\ mirror' = Forget(mirror, c)
  /\ told' = Forget(told, c)
  /\ UNCHANGED <<graphVars, gauges, counted, blurred>>

HandleSubscribe(c, eventTypes) ==
  /\ c \in DOMAIN rooms
  /\ rooms' = [rooms EXCEPT ![c] = @ \cup eventTypes]
  /\ mirror' = IF "all" \in eventTypes /\ "all" \notin rooms[c]
               THEN [x \in DOMAIN mirror \cup {c} |->
                       IF x = c THEN Exported ELSE mirror[x]]
               ELSE mirror
  /\ UNCHANGED <<graphVars, gauges, told, counted, blurred>>

HandleUnsubscribe(c, eventTypes) ==
  /\ c \in DOMAIN rooms
  /\ rooms' = [rooms EXCEPT ![c] = @ \ eventTypes]
  /\ mirror' = IF "all" \in eventTypes THEN Forget(mirror, c) ELSE mirror
  /\ UNCHANGED <<graphVars, gauges, told, counted, blurred>>

------------------------------------------------------------------------------
\* IngestionController

\* Mutant: the gauges are set before the graph is changed.
SetGraphCountsEarly ==
  /\ gauges' = [nodes |-> Cardinality(DOMAIN nodes), edges |-> Cardinality(DOMAIN edge)]
  /\ counted' = TRUE

\* Mutant: getStatistics counts an edge in each of its lists.
SetGraphCountsTwice ==
  /\ gauges' = [nodes |-> Cardinality(DOMAIN nodes'),
                edges |-> 2 * Cardinality(DOMAIN edge')]
  /\ counted' = TRUE

\* getStatistics of the changed graph, then setGraphCounts.
SetGraphCounts ==
  /\ gauges' = [nodes |-> Cardinality(DOMAIN nodes'), edges |-> Cardinality(DOMAIN edge')]
  /\ counted' = TRUE

Answer(events) == EmitGraphUpdates(events) /\ SetGraphCounts

\* registerService, for a single id.  registerServicesBulk, for the ids of the
\* request: those already registered are reported as errors, and when none is
\* left the gauges are set all the same.
RegisterServices(ids, data) ==
  LET new == ids \ DOMAIN nodes
  IN  /\ IF new = {} THEN UNCHANGED graphVars ELSE AddNodes([id \in new |-> data])
      /\ Answer(SetToSeq({NodeEvent("node_added", id) : id \in new}))
      /\ UNCHANGED blurred

UpdateService(id, data) ==
  /\ UpdateNode(id, data)
  /\ Answer(<<NodeEvent("node_updated", id)>>)
  /\ UNCHANGED blurred

\* Mutant: the edges of a deregistered service are told, its going is not.
DeregisterServiceSilently(id) ==
  /\ RemoveNode(id)
  /\ Answer(SetToSeq({EdgeEvent("edge_removed", edge[e], NoType) :
                        e \in DOMAIN edge \ DOMAIN edge'}))
  /\ UNCHANGED blurred

\* The edges that go with the service have no events of their own.
DeregisterService(id) ==
  /\ RemoveNode(id)
  /\ Answer(<<NodeEvent("node_removed", id)>>)
  /\ UNCHANGED blurred

DependencyOf(source, d) == [source |-> source, target |-> d.target, type |-> d.type]

\* registerDependency.
RegisterDependency(source, d) ==
  /\ AddEdges(source, {d})
  /\ Answer(<<EdgeEvent("edge_added", DependencyOf(source, d), d.type)>>)
  /\ UNCHANGED blurred

\* updateDependency.  The event names the edge by its old type and carries the
\* body; a field the body lacks is not in it, though the update erased it.
UpdateDependency(source, d, type) ==
  /\ UpdateEdge(source, d.target, d.type, type)
  /\ Answer(<<EdgeEvent("edge_updated", DependencyOf(source, d),
                        IF type = NoType THEN d.type ELSE type)>>)
  /\ blurred' = (blurred \/ type = NoType \/
                   \E e, f \in DOMAIN edge' : e # f /\ edge'[e] = edge'[f])

RemoveDependency(source, d) ==
  /\ RemoveEdge(source, d.target, d.type)
  /\ Answer(<<EdgeEvent("edge_removed", DependencyOf(source, d), d.type)>>)
  /\ UNCHANGED blurred

\* submitDependencyReport, for the entries deps.  Each adds an edge or, when addEdge
\* says that it exists, updates its weight, latency and metadata; an entry that
\* names an unregistered service is reported as an error.  Those in again are
\* listed a second time, when their edges exist.
SubmitDependencyReport(source, deps) ==
  LET recorded == {d \in deps : source \in DOMAIN nodes
                                  /\ Matching(source, d.target, d.type) # {}}
      new == {d \in deps \ recorded : {source, d.target} \subseteq DOMAIN nodes}
      events(eventType, ds) ==
        SetToSeq({EdgeEvent(eventType, DependencyOf(source, d), d.type) : d \in ds})
  IN  /\ IF new = {} THEN UNCHANGED graphVars ELSE AddEdges(source, new)
      /\ \E again \in SUBSET (recorded \cup new) :
           Answer(events("edge_updated", recorded) \o events("edge_added", new)
                    \o events("edge_updated", again))
      /\ UNCHANGED blurred

------------------------------------------------------------------------------
\* The process ends and another one loads a snapshot: every client has to
\* connect again, and loadLatestSnapshot sets no gauge.
Restart(snapshot) ==
  /\ ImportGraph(snapshot)
  /\ rooms' = [c \in {} |-> {}]
  /\ told' = [c \in {} |-> 0]
  /\ mirror' = [c \in {} |-> Exported]
  /\ gauges' = [nodes |-> 0, edges |-> 0]
  /\ counted' = FALSE
  /\ blurred' = (\E e \in DOMAIN edge' : edge'[e].type = NoType)

GatewayNext ==
  \E c \in Client :
    \/ HandleConnection(c) \/ HandleDisconnect(c)
    \/ \E eventTypes \in Subscription :
         HandleSubscribe(c, eventTypes) \/ HandleUnsubscribe(c, eventTypes)

ControllerNext ==
  \/ \E ids \in SUBSET ServiceId, data \in ServiceData : RegisterServices(ids, data)
  \/ \E id \in ServiceId, data \in ServiceData : UpdateService(id, data)
  \/ \E id \in ServiceId : DeregisterService(id)
  \/ \E s \in ServiceId, d \in Reported :
       \/ RegisterDependency(s, d) \/ RemoveDependency(s, d)
       \/ \E type \in AnyType : UpdateDependency(s, d, type)
  \/ \E s \in ServiceId, deps \in SUBSET Reported : SubmitDependencyReport(s, deps)

IngestionNext ==
  \/ GatewayNext
  \/ ControllerNext
  \/ \E snapshot \in Snapshots : Restart(snapshot)

IngestionSpec == IngestionInit /\ [][IngestionNext]_ingestionVars

------------------------------------------------------------------------------
\* Properties

IngestionTypeOK ==
  /\ DOMAIN rooms \subseteq Client
  /\ \A c \in DOMAIN rooms : rooms[c] \subseteq Room
  /\ DOMAIN told \subseteq DOMAIN rooms
  /\ DOMAIN mirror = {c \in DOMAIN rooms : "all" \in rooms[c]}
  /\ gauges \in [nodes : Nat, edges : 0 .. MaxEdge]

Current ==
  gauges = [nodes |-> Cardinality(DOMAIN nodes), edges |-> Cardinality(DOMAIN edge)]

\* Once a request was answered the gauges give the size of the graph, though
\* every handler sets them by itself and some requests fail in part.
GaugesFollowRequests == counted => Current

\* A client of room 'all' that applies the events to its copy of the graph has
\* the graph of the service, also when it receives events twice: no handler
\* changes the graph in a way its events do not tell.  The exception is an
\* update that erases a type or records a dependency twice.
EventsTellTheGraph ==
  \A c \in DOMAIN mirror : blurred \/ mirror[c] = Exported

\* "Check if edge already exists" (graph.service.ts:85) and "DELETE
\* dependencies/:source/:target/:type - Remove a dependency"
\* (apps/topology-service/README.md:98): a dependency is recorded once, under a
\* type that a path can name.  Only updates break this: they do not check, and
\* erase the type the body lacks.  Reports, bulk requests and imports keep it.
OnlyUpdatesBlur ==
  \/ blurred
  \/ /\ \A e, f \in DOMAIN edge : edge[e] = edge[f] => e = f
     /\ \A e \in DOMAIN edge : edge[e].type \in DependencyType

\* "Emit graph update to all connected clients" (graph.gateway.ts:84).
EveryClientIsTold == \A c \in DOMAIN told : told[c] >= 1

==============================================================================
