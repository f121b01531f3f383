----------------------- MODULE TopologyIngestionProofs -----------------------
(***************************************************************************)
(* Proofs about TopologyIngestion, for any services, types, snapshots,     *)
(* clients and sets of rooms: the handlers act on the graph as             *)
(* TopologyGraph says, set the gauges to its size, and tell of every       *)
(* change in their events.                                                 *)
(***************************************************************************)
EXTENDS TopologyIngestion, TopologyGraphProofs, ListsProofs

------------------------------------------------------------------------------
\* The handlers and the graph

LEMMA RegisterServicesGraph ==
  ASSUME NEW ids \in SUBSET ServiceId, NEW data \in ServiceData, RegisterServices(ids, data)
  PROVE  \/ UNCHANGED vars /\ ids \subseteq DOMAIN nodes
         \/ \E new \in NodeMap : /\ DOMAIN new = ids \ DOMAIN nodes
                                 /\ new # << >> /\ AddNodes(new)
<1> DEFINE new == [id \in ids \ DOMAIN nodes |-> data]
<1>1. CASE ids \ DOMAIN nodes = {}
  BY <1>1 DEF RegisterServices, graphVars
<1>2. CASE ids \ DOMAIN nodes # {}
  <2>1. AddNodes(new) BY <1>2 DEF RegisterServices
  <2>2. new \in [ids \ DOMAIN nodes -> ServiceData] /\ ids \ DOMAIN nodes \subseteq ServiceId
    OBVIOUS
  <2>3. new \in NodeMap BY <2>2, NodeMapIntro
  <2>4. DOMAIN new = ids \ DOMAIN nodes OBVIOUS
  <2>5. new # << >> BY <1>2, <2>4
  <2> HIDE DEF new
  <2> QED BY <2>1, <2>3, <2>4, <2>5
<1> QED BY <1>1, <1>2

\* The entries of a report that AddEdges gets are new to the source.
NewEntries(source, deps) ==
  {d \in deps : ~ (source \in DOMAIN nodes /\ Matching(source, d.target, d.type) # {})
                  /\ {source, d.target} \subseteq DOMAIN nodes}

LEMMA SubmitReportGraph ==
  ASSUME NEW source \in ServiceId, NEW deps \in SUBSET Reported,
         SubmitDependencyReport(source, deps)
  PROVE  \/ UNCHANGED vars /\ NewEntries(source, deps) = {}
         \/ NewEntries(source, deps) # {} /\ AddEdges(source, NewEntries(source, deps))
<1> DEFINE recorded == {d \in deps : source \in DOMAIN nodes
                                       /\ Matching(source, d.target, d.type) # {}}
           new == {d \in deps \ recorded : {source, d.target} \subseteq DOMAIN nodes}
<1>1. new = NewEntries(source, deps) BY DEF NewEntries
<1>2. IF new = {} THEN UNCHANGED graphVars ELSE AddEdges(source, new)
  BY DEF SubmitDependencyReport
<1> HIDE DEF new
<1> QED BY <1>1, <1>2 DEF graphVars

\* Whatever a handler does to the graph is a step of GraphService.
LEMMA HandlersAreGraphSteps == [IngestionNext]_ingestionVars => [Next]_vars
<1> SUFFICES ASSUME [IngestionNext]_ingestionVars PROVE [Next]_vars OBVIOUS
<1>1. ASSUME GatewayNext PROVE UNCHANGED vars
  BY <1>1 DEF GatewayNext, HandleConnection, HandleDisconnect, HandleSubscribe,
              HandleUnsubscribe, graphVars
<1>2. ASSUME NEW ids \in SUBSET ServiceId, NEW data \in ServiceData,
             RegisterServices(ids, data)
      PROVE  [Next]_vars
  BY <1>2, RegisterServicesGraph DEF Next
<1>3. ASSUME NEW id \in ServiceId, NEW data \in ServiceData, UpdateService(id, data)
      PROVE  Next
  BY <1>3 DEF UpdateService, Next
<1>4. ASSUME NEW id \in ServiceId, DeregisterService(id) PROVE Next
  BY <1>4 DEF DeregisterService, Next
<1>5. ASSUME NEW s \in ServiceId, NEW d \in Reported, RegisterDependency(s, d)
      PROVE  Next
  <2>1. {d} \in SUBSET Reported /\ {d} # {} /\ AddEdges(s, {d})
    BY <1>5 DEF RegisterDependency
  <2> QED BY <2>1 DEF Next
<1>6. ASSUME NEW s \in ServiceId, NEW d \in Reported, RemoveDependency(s, d)
      PROVE  Next
  BY <1>6 DEF RemoveDependency, Next, Reported
<1>7. ASSUME NEW s \in ServiceId, NEW d \in Reported, NEW type \in AnyType,
             UpdateDependency(s, d, type)
      PROVE  Next
  BY <1>7 DEF UpdateDependency, Next, Reported
<1>8. ASSUME NEW s \in ServiceId, NEW deps \in SUBSET Reported,
             SubmitDependencyReport(s, deps)
      PROVE  [Next]_vars
  <2>1. NewEntries(s, deps) \in SUBSET Reported BY DEF NewEntries
  <2> QED BY <1>8, <2>1, SubmitReportGraph DEF Next
<1>9. ASSUME NEW snapshot \in Snapshots, Restart(snapshot) PROVE Next
  BY <1>9 DEF Restart, Next
<1>10. CASE UNCHANGED ingestionVars BY <1>10 DEF ingestionVars, vars
<1> QED
  BY <1>1, <1>2, <1>3, <1>4, <1>5, <1>6, <1>7, <1>8, <1>9, <1>10
  DEF IngestionNext, ControllerNext

\* The API changes the graph by calls of GraphService only, so what is proved of
\* TopologyGraph, its refinements included, holds behind the API.
THEOREM ApiImplementsGraphService == IngestionSpec => Spec
<1>1. IngestionInit => Init BY DEF IngestionInit
<1> QED BY <1>1, HandlersAreGraphSteps, PTL DEF IngestionSpec, Spec
\* As TopologyGraph promises to its callers, so the API does to its clients.
THEOREM ApiImplementsGraph ==
  IngestionSpec => ForwardListsImplementGraph /\ ReverseListsImplementGraph
BY ApiImplementsGraphService, ForwardImplementsGraph, ReverseImplementsGraph, PTL

------------------------------------------------------------------------------
\* Events, in the hands of a client

LEMMA AfterEventsIsRecursive ==
  ASSUME NEW c, NEW view, NEW events, Len(events) \in Nat
  PROVE  \E after :
           /\ AfterEvents(c, view, events) = after[Len(events)]
           /\ after[0] = view
           /\ \A i \in 0 .. Len(events) :
                i > 0 => after[i] = Received(c, after[i - 1], events[i])
<1> DEFINE Following(f, i) == IF i = 0 THEN view ELSE Received(c, f[i - 1], events[i])
           Upto(n) == \E f : f = [i \in 0 .. n |-> Following(f, i)]
           good == {n \in Nat : Upto(n)}
           after == CHOOSE f : f = [i \in 0 .. Len(events) |-> Following(f, i)]
<1>1. 0 \in good
  <2> DEFINE g == [i \in 0 .. 0 |-> view]
  <2>1. g = [i \in 0 .. 0 |-> Following(g, i)] OBVIOUS
  <2> QED BY <2>1
<1>2. ASSUME NEW n \in Nat, n \in good PROVE n + 1 \in good
  <2>1. PICK f : f = [i \in 0 .. n |-> Following(f, i)] BY <1>2
  <2> DEFINE g == [i \in 0 .. n + 1 |-> IF i = n + 1 THEN Following(f, i) ELSE f[i]]
  <2>2. \A i \in 0 .. n + 1 : g[i] = Following(g, i)
    <3> SUFFICES ASSUME NEW i \in 0 .. n + 1 PROVE g[i] = Following(g, i) OBVIOUS
    <3>1. i = 0 \/ g[i - 1] = f[i - 1] OBVIOUS
    <3>2. Following(g, i) = Following(f, i) BY <3>1
    <3>3. CASE i = n + 1 BY <3>2, <3>3
    <3>4. CASE i # n + 1
      <4>1. i \in 0 .. n /\ g[i] = f[i] BY <3>4
      <4>2. f[i] = Following(f, i) BY <2>1, <4>1
      <4> QED BY <3>2, <4>1, <4>2
    <3> QED BY <3>3, <3>4
  <2>3. g = [i \in 0 .. n + 1 |-> Following(g, i)] BY <2>2
  <2> HIDE DEF g
  <2>4. Upto(n + 1) BY <2>3
  <2> QED BY <2>4
<1> HIDE DEF good
<1>3. Len(events) \in good BY <1>1, <1>2, NatBySteps
<1>4. after = [i \in 0 .. Len(events) |-> Following(after, i)] BY <1>3 DEF good
<1>5. AfterEvents(c, view, events) = after[Len(events)] BY DEF AfterEvents
<1> HIDE DEF after
<1>6. after[0] = view BY <1>4
<1>7. \A i \in 0 .. Len(events) : i > 0 => after[i] = Following(after, i) BY <1>4
<1> QED BY <1>5, <1>6, <1>7

\* A client's copy, by its two fields.
View(services, dependencies) == [services |-> services, dependencies |-> dependencies]

\* A client that receives an event twice has no other graph than one that
\* receives it once, whatever the event is.
LEMMA TwiceIsOnce ==
  ASSUME NEW c, NEW services, NEW dependencies, NEW event
  PROVE  Received(c, View(services, dependencies), event)
           = Apply(View(services, dependencies), event)
<1> DEFINE once == Apply(View(services, dependencies), event)
<1>1. CASE event.eventType = "node_added"
  BY <1>1 DEF Apply, View, Received
<1>2. CASE event.eventType = "node_removed"
  BY <1>2 DEF Apply, View, Received
<1>3. CASE event.eventType = "edge_added"
  BY <1>3 DEF Apply, View, Received
<1>4. CASE event.eventType = "edge_removed"
  BY <1>4 DEF Apply, View, Received
<1>5. CASE event.eventType = "edge_updated"
  BY <1>5 DEF Apply, View, Received
<1>6. CASE event.eventType \notin {"node_added", "node_removed", "edge_added",
                                   "edge_removed", "edge_updated"}
  BY <1>6 DEF Apply, View, Received
<1> QED BY <1>1, <1>2, <1>3, <1>4, <1>5, <1>6

LEMMA AfterOneEvent ==
  ASSUME NEW c, NEW services, NEW dependencies, NEW event
  PROVE  AfterEvents(c, View(services, dependencies), <<event>>)
           = Apply(View(services, dependencies), event)
<1> DEFINE view == View(services, dependencies)
<1>1. Len(<<event>>) = 1 /\ <<event>>[1] = event OBVIOUS
<1>2. PICK after :
        /\ AfterEvents(c, view, <<event>>) = after[1]
        /\ after[0] = view
        /\ \A i \in 0 .. 1 : i > 0 => after[i] = Received(c, after[i - 1], <<event>>[i])
  BY <1>1, AfterEventsIsRecursive
<1> HIDE DEF view
<1>3. after[1] = Received(c, after[1 - 1], <<event>>[1]) BY <1>2
<1>4. after[1] = Received(c, view, event) BY <1>1, <1>2, <1>3
<1> QED BY <1>2, <1>4, TwiceIsOnce DEF view

\* Events that tell of services and dependencies that were added, or of
\* dependencies whose type did not change.
IsAddition(event) ==
  \/ event.eventType \in {"node_added", "edge_added"}
  \/ /\ event.eventType = "edge_updated"
     /\ [event.dependency EXCEPT !.type = event.updates] = event.dependency

LEMMA AfterAdditions ==
  ASSUME NEW c, NEW services, NEW dependencies, NEW events, Len(events) \in Nat,
         \A i \in 1 .. Len(events) : IsAddition(events[i])
  PROVE  AfterEvents(c, View(services, dependencies), events)
           = View(services \cup {events[i].id :
                                   i \in {j \in 1 .. Len(events) :
                                            events[j].eventType = "node_added"}},
                  dependencies \cup {events[i].dependency :
                                       i \in {j \in 1 .. Len(events) :
                                                events[j].eventType = "edge_added"}})
<1> DEFINE Of(type, n) == {j \in 1 .. n : events[j].eventType = type}
           Ids(n) == {events[i].id : i \in Of("node_added", n)}
           Deps(n) == {events[i].dependency : i \in Of("edge_added", n)}
           Told(n) == View(services \cup Ids(n), dependencies \cup Deps(n))
<1>1. PICK after :
        /\ AfterEvents(c, View(services, dependencies), events) = after[Len(events)]
        /\ after[0] = View(services, dependencies)
        /\ \A i \in 0 .. Len(events) :
             i > 0 => after[i] = Received(c, after[i - 1], events[i])
  BY AfterEventsIsRecursive
<1> DEFINE good == {n \in Nat : n <= Len(events) => after[n] = Told(n)}
<1>2. 0 \in good
  <2>1. Of("node_added", 0) = {} /\ Of("edge_added", 0) = {} OBVIOUS
  <2>2. Ids(0) = {} /\ Deps(0) = {} BY <2>1
  <2>3. Told(0) = View(services, dependencies) BY <2>2
  <2> QED BY <1>1, <2>3
<1>3. ASSUME NEW n \in Nat, n \in good PROVE n + 1 \in good
  <2> DEFINE event == events[n + 1]
             S == services \cup Ids(n)
             D == dependencies \cup Deps(n)
  <2> HIDE DEF Told
  <2> SUFFICES ASSUME n + 1 <= Len(events) PROVE after[n + 1] = Told(n + 1) OBVIOUS
  <2>1. after[n] = Told(n) BY <1>3
  <2>2. after[n + 1] = Received(c, after[n], event) BY <1>1
  <2>3. Told(n) = View(S, D) BY DEF Told
  <2> HIDE DEF S, D, event
  <2>4. after[n + 1] = Apply(View(S, D), event) BY <2>1, <2>2, <2>3, TwiceIsOnce
  <2>5. IsAddition(event) BY DEF event
  <2>6. \A type : Of(type, n + 1) = IF event.eventType = type THEN Of(type, n) \cup {n + 1}
                                                            ELSE Of(type, n)
    BY DEF event
  <2>7. Ids(n + 1) = IF event.eventType = "node_added" THEN Ids(n) \cup {event.id} ELSE Ids(n)
    BY <2>6 DEF event
  <2>8. Deps(n + 1) = IF event.eventType = "edge_added" THEN Deps(n) \cup {event.dependency}
                                                       ELSE Deps(n)
    BY <2>6 DEF event
  <2> HIDE DEF Ids, Deps
  <2>9. Told(n + 1) = View(services \cup Ids(n + 1), dependencies \cup Deps(n + 1))
    BY DEF Told
  <2>10. CASE event.eventType = "node_added"
    <3>1. Apply(View(S, D), event) = View(S \cup {event.id}, D)
      BY <2>10 DEF Apply, View
    <3> QED BY <2>4, <2>7, <2>8, <2>9, <2>10, <3>1 DEF S, D
  <2>11. CASE event.eventType = "edge_added"
    <3>1. Apply(View(S, D), event) = View(S, D \cup {event.dependency})
      BY <2>11 DEF Apply, View
    <3> QED BY <2>4, <2>7, <2>8, <2>9, <2>11, <3>1 DEF S, D
  <2>12. CASE event.eventType = "edge_updated"
    <3>1. [event.dependency EXCEPT !.type = event.updates] = event.dependency
      BY <2>5, <2>12 DEF IsAddition
    <3> DEFINE same == [event.dependency EXCEPT !.type = event.updates]
    <3>2. event.dependency \in D => (D \ {event.dependency}) \cup {same} = D BY <3>1
    <3>3. ASSUME event.dependency \in D PROVE Apply(View(S, D), event) = View(S, D)
      <4>1. Apply(View(S, D), event)
              = [View(S, D) EXCEPT !.dependencies = (D \ {event.dependency}) \cup {same}]
        BY <2>12, <3>3 DEF Apply, View
      <4> HIDE DEF same
      <4> QED BY <3>2, <3>3, <4>1 DEF View
    <3>5. ASSUME event.dependency \notin D PROVE Apply(View(S, D), event) = View(S, D)
      BY <2>12, <3>5 DEF Apply, View
    <3>4. Apply(View(S, D), event) = View(S, D) BY <3>3, <3>5
    <3> QED BY <2>4, <2>7, <2>8, <2>9, <2>12, <3>4 DEF S, D
  <2> QED BY <2>5, <2>10, <2>11, <2>12 DEF IsAddition
<1> HIDE DEF good
<1>4. Len(events) \in good BY <1>2, <1>3, NatBySteps
<1>5. after[Len(events)] = Told(Len(events)) BY <1>4 DEF good
<1> QED BY <1>1, <1>5
------------------------------------------------------------------------------
\* Types and gauges

IngestionTyped == IInv /\ IngestionTypeOK /\ GaugesFollowRequests

LEMMA GaugesCount ==
  ASSUME IInv', SetGraphCounts
  PROVE  gauges' \in [nodes : Nat, edges : 0 .. MaxEdge] /\ Current'
<1>1. (DOMAIN nodes)' \subseteq ServiceId /\ (DOMAIN edge)' \subseteq EdgeId
  BY DEF IInv, TypeOK, NodeMap
<1>2. /\ IsFiniteSet((DOMAIN nodes)')
      /\ Cardinality((DOMAIN nodes)') \in Nat
  BY <1>1, FiniteAssumption, FS_Subset, FS_CardinalityType
<1>3. IsFiniteSet(EdgeId) /\ Cardinality(EdgeId) = MaxEdge
  BY FS_Interval, MaxEdgeAssumption DEF EdgeId
<1>4. IsFiniteSet((DOMAIN edge)') /\ Cardinality((DOMAIN edge)') <= MaxEdge
  BY <1>1, <1>3, FS_Subset
<1>5. Cardinality((DOMAIN edge)') \in Nat BY <1>4, FS_CardinalityType
<1>6. Cardinality((DOMAIN edge)') \in 0 .. MaxEdge BY <1>4, <1>5, MaxEdgeAssumption
<1>7. gauges' = [nodes |-> Cardinality((DOMAIN nodes)'), edges |-> Cardinality((DOMAIN edge)')]
  BY DEF SetGraphCounts
<1> QED BY <1>2, <1>6, <1>7 DEF Current

\* Every handler of the controller ends with its events and the gauges.
LEMMA HandlersAnswer == ControllerNext => \E events : Answer(events)
<1> SUFFICES ASSUME ControllerNext PROVE \E events : Answer(events) OBVIOUS
<1>1. ASSUME NEW ids, NEW data, RegisterServices(ids, data) PROVE \E events : Answer(events)
  BY <1>1 DEF RegisterServices
<1>2. ASSUME NEW id, NEW data, UpdateService(id, data) PROVE \E events : Answer(events)
  BY <1>2 DEF UpdateService
<1>3. ASSUME NEW id, DeregisterService(id) PROVE \E events : Answer(events)
  BY <1>3 DEF DeregisterService
<1>4. ASSUME NEW s, NEW d, RegisterDependency(s, d) PROVE \E events : Answer(events)
  BY <1>4 DEF RegisterDependency
<1>5. ASSUME NEW s, NEW d, RemoveDependency(s, d) PROVE \E events : Answer(events)
  BY <1>5 DEF RemoveDependency
<1>6. ASSUME NEW s, NEW d, NEW type, UpdateDependency(s, d, type)
      PROVE  \E events : Answer(events)
  BY <1>6 DEF UpdateDependency
<1>7. ASSUME NEW s, NEW deps, SubmitDependencyReport(s, deps)
      PROVE  \E events : Answer(events)
  BY <1>7 DEF SubmitDependencyReport
<1> QED BY <1>1, <1>2, <1>3, <1>4, <1>5, <1>6, <1>7 DEF ControllerNext

LEMMA InitTyped == IngestionInit => IngestionTyped
<1> SUFFICES ASSUME IngestionInit PROVE IngestionTyped OBVIOUS
<1>1. IInv BY InitInv DEF IngestionInit
<1>2. DOMAIN rooms = {} /\ DOMAIN told = {} /\ DOMAIN mirror = {} BY DEF IngestionInit
<1>3. gauges \in [nodes : Nat, edges : 0 .. MaxEdge]
  BY MaxEdgeAssumption DEF IngestionInit
<1>4. GaugesFollowRequests BY DEF IngestionInit, GaugesFollowRequests
<1> QED BY <1>1, <1>2, <1>3, <1>4 DEF IngestionTyped, IngestionTypeOK

LEMMA StepTyped == IngestionTyped /\ [IngestionNext]_ingestionVars => IngestionTyped'
<1> SUFFICES ASSUME IngestionTyped, [IngestionNext]_ingestionVars PROVE IngestionTyped'
  OBVIOUS
<1>0. IInv' BY HandlersAreGraphSteps, NextInv DEF IngestionTyped
<1> USE DEF IngestionTyped
<1>1. ASSUME NEW c \in Client, HandleConnection(c)
      PROVE  IngestionTypeOK' /\ GaugesFollowRequests'
  BY <1>1 DEF HandleConnection, graphVars, vars, IngestionTypeOK, GaugesFollowRequests, Current
<1>2. ASSUME NEW c \in Client, HandleDisconnect(c)
      PROVE  IngestionTypeOK' /\ GaugesFollowRequests'
  BY <1>2 DEF HandleDisconnect, Forget, graphVars, vars, IngestionTypeOK,
              GaugesFollowRequests, Current
<1>3. ASSUME NEW c \in Client, NEW eventTypes \in Subscription,
             HandleSubscribe(c, eventTypes)
      PROVE  IngestionTypeOK' /\ GaugesFollowRequests'
  <2>1. eventTypes \subseteq Room BY SubscriptionAssumption
  <2>2. c \in DOMAIN rooms /\ rooms' = [rooms EXCEPT ![c] = @ \cup eventTypes]
    BY <1>3 DEF HandleSubscribe
  <2>3. (DOMAIN mirror)' = {x \in (DOMAIN rooms)' : "all" \in rooms'[x]}
    BY <1>3, <2>2 DEF HandleSubscribe, IngestionTypeOK
  <2> QED
    BY <1>3, <2>1, <2>2, <2>3 DEF HandleSubscribe, graphVars, vars, IngestionTypeOK,
                                  GaugesFollowRequests, Current
<1>4. ASSUME NEW c \in Client, NEW eventTypes \in Subscription,
             HandleUnsubscribe(c, eventTypes)
      PROVE  IngestionTypeOK' /\ GaugesFollowRequests'
  <2>1. c \in DOMAIN rooms /\ rooms' = [rooms EXCEPT ![c] = @ \ eventTypes]
    BY <1>4 DEF HandleUnsubscribe
  <2>2. (DOMAIN mirror)' = {x \in (DOMAIN rooms)' : "all" \in rooms'[x]}
    BY <1>4, <2>1 DEF HandleUnsubscribe, Forget, IngestionTypeOK
  <2> QED
    BY <1>4, <2>1, <2>2 DEF HandleUnsubscribe, graphVars, vars, IngestionTypeOK,
                            GaugesFollowRequests, Current
<1>5. ASSUME ControllerNext PROVE IngestionTypeOK' /\ GaugesFollowRequests'
  <2>1. PICK events : Answer(events) BY <1>5, HandlersAnswer
  <2>2. /\ rooms' = rooms /\ (DOMAIN mirror)' = DOMAIN mirror
        /\ (DOMAIN told)' \subseteq DOMAIN rooms
    BY <2>1 DEF Answer, EmitGraphUpdates, IngestionTypeOK
  <2>3. gauges' \in [nodes : Nat, edges : 0 .. MaxEdge] /\ Current'
    BY <1>0, <2>1, GaugesCount DEF Answer
  <2> QED BY <2>2, <2>3 DEF IngestionTypeOK, GaugesFollowRequests
<1>6. ASSUME NEW snapshot \in Snapshots, Restart(snapshot)
      PROVE  IngestionTypeOK' /\ GaugesFollowRequests'
  BY <1>6, MaxEdgeAssumption DEF Restart, IngestionTypeOK, GaugesFollowRequests
<1>7. CASE UNCHANGED ingestionVars
  BY <1>0, <1>7 DEF ingestionVars, vars, IngestionTypeOK, GaugesFollowRequests, Current
<1> QED
  BY <1>0, <1>1, <1>2, <1>3, <1>4, <1>5, <1>6, <1>7 DEF IngestionNext, GatewayNext

\* Rooms, copies and gauges keep their shape under every sequence of requests.
THEOREM ApiTypeCorrect == IngestionSpec => []IngestionTypeOK
<1>1. IngestionTyped => IngestionTypeOK BY DEF IngestionTyped
<1> QED BY <1>1, InitTyped, StepTyped, PTL DEF IngestionSpec

\* Whatever requests were answered since the start, in part or as a whole, the
\* gauges give the size of the graph.
THEOREM GaugesAreCurrent == IngestionSpec => []GaugesFollowRequests
<1>1. IngestionTyped => GaugesFollowRequests BY DEF IngestionTyped
<1> QED BY <1>1, InitTyped, StepTyped, PTL DEF IngestionSpec

------------------------------------------------------------------------------
\* Dependencies are recorded once

Recorded == {edge[e] : e \in DOMAIN edge}

Distinct ==
  /\ \A e, f \in DOMAIN edge : edge[e] = edge[f] => e = f
  /\ \A e \in DOMAIN edge : edge[e].type \in DependencyType

\* An added dependency gets an object of its own, newer than every other.
LEMMA AddEdgesRecords ==
  ASSUME IInv, NEW source, NEW deps \in SUBSET Reported, AddEdges(source, deps)
  PROVE  /\ Recorded' = Recorded \cup {DependencyOf(source, d) : d \in deps}
         /\ Distinct => Distinct'
         /\ UNCHANGED nodes
<1>1. PICK m \in 0 .. MaxEdge : \E last \in m .. MaxEdge :
        /\ IsNewest(m)
        /\ \E order \in [m + 1 .. last -> deps] :
             /\ \A e, f \in DOMAIN order : order[e] = order[f] => e = f
             /\ \A d \in deps : \E e \in DOMAIN order : order[e] = d
             /\ PushEdges(NewEdges(source, order))
  BY DEF AddEdges
<1>2. PICK last \in m .. MaxEdge :
        /\ IsNewest(m)
        /\ \E order \in [m + 1 .. last -> deps] :
             /\ \A e, f \in DOMAIN order : order[e] = order[f] => e = f
             /\ \A d \in deps : \E e \in DOMAIN order : order[e] = d
             /\ PushEdges(NewEdges(source, order))
  BY <1>1
<1>3. PICK order \in [m + 1 .. last -> deps] :
        /\ \A e, f \in DOMAIN order : order[e] = order[f] => e = f
        /\ \A d \in deps : \E e \in DOMAIN order : order[e] = d
        /\ PushEdges(NewEdges(source, order))
  BY <1>2
<1> DEFINE fresh == m + 1 .. last
<1>4. \A e \in DOMAIN edge : e \notin fresh
  BY <1>2, Typing, MaxEdgeAssumption DEF EdgeId, IsNewest
<1> HIDE DEF fresh
<1>5. DOMAIN order = fresh BY <1>3 DEF fresh
<1>6. edge' = [e \in DOMAIN edge \cup fresh |->
                 IF e \in fresh THEN DependencyOf(source, order[e]) ELSE edge[e]]
  BY <1>3, <1>5 DEF PushEdges, NewEdges, DependencyOf
<1>7. /\ DOMAIN edge' = DOMAIN edge \cup fresh
      /\ \A e \in fresh : edge'[e] = DependencyOf(source, order[e])
      /\ \A e \in DOMAIN edge : edge'[e] = edge[e]
  BY <1>4, <1>6
<1>8. \A e \in fresh : order[e] \in deps BY <1>3 DEF fresh
<1>9. Recorded' = Recorded \cup {DependencyOf(source, d) : d \in deps}
  <2>1. \A r \in Recorded' : r \in Recorded \cup {DependencyOf(source, d) : d \in deps}
    BY <1>7, <1>8 DEF Recorded
  <2>2. Recorded \subseteq Recorded' BY <1>7 DEF Recorded
  <2>3. ASSUME NEW d \in deps PROVE DependencyOf(source, d) \in Recorded'
    <3>1. PICK e \in fresh : order[e] = d BY <1>3, <1>5
    <3> QED BY <1>7, <3>1 DEF Recorded
  <2> QED BY <2>1, <2>2, <2>3
<1>10. ASSUME Distinct PROVE Distinct'
  <2>1. ASSUME NEW e \in fresh, NEW f \in DOMAIN edge PROVE edge'[e] # edge'[f]
    <3>1. order[e] \in deps BY <1>8
    <3>2. /\ Matching(source, order[e].target, order[e].type) = {}
          /\ source \in DOMAIN nodes
      BY <3>1 DEF AddEdges
    <3>3. edge[f].source = source => f \in adjacencyList[source]
      BY <3>2 DEF IInv, ListsMirror
    <3>4. edge[f] # DependencyOf(source, order[e])
      BY <3>2, <3>3 DEF Matching, DependencyOf
    <3> QED BY <1>7, <3>4
  <2>2. ASSUME NEW e \in fresh, NEW f \in fresh, edge'[e] = edge'[f] PROVE e = f
    <3>1. order[e] \in Reported /\ order[f] \in Reported BY <1>8
    <3>2. order[e].target = order[f].target /\ order[e].type = order[f].type
      BY <1>7, <2>2 DEF DependencyOf
    <3>3. order[e] = order[f] BY <3>1, <3>2 DEF Reported
    <3> QED BY <1>3, <1>5, <3>3
  <2>3. \A e \in DOMAIN edge, f \in DOMAIN edge : edge'[e] = edge'[f] => e = f
    BY <1>7, <1>10 DEF Distinct
  <2>4. \A e \in DOMAIN edge', f \in DOMAIN edge' : edge'[e] = edge'[f] => e = f
    BY <1>7, <2>1, <2>2, <2>3
  <2>5. \A e \in fresh : edge'[e].type \in DependencyType
    BY <1>7, <1>8 DEF DependencyOf, Reported
  <2>6. \A e \in DOMAIN edge' : edge'[e].type \in DependencyType
    BY <1>7, <1>10, <2>5 DEF Distinct
  <2> QED BY <2>4, <2>6 DEF Distinct
<1> QED BY <1>9, <1>10 DEF AddEdges


LEMMA RemoveNodeRecords ==
  ASSUME IInv, NEW id, RemoveNode(id)
  PROVE  /\ Recorded' = {r \in Recorded : r.source # id /\ r.target # id}
         /\ Distinct => Distinct'
         /\ DOMAIN nodes' = DOMAIN nodes \ {id}
<1>1. id \in DOMAIN nodes BY DEF RemoveNode
<1>2. edge' = [e \in {f \in DOMAIN edge : edge[f].source # id
                                          /\ edge[f].target # id} |-> edge[e]]
  BY <1>1, RemoveNodeEffect
<1>3. nodes' = [n \in DOMAIN nodes \ {id} |-> nodes[n]] BY <1>1, RemoveNodeEffect
<1>4. Recorded' = {r \in Recorded : r.source # id /\ r.target # id} BY <1>2 DEF Recorded
<1>5. Distinct => Distinct' BY <1>2 DEF Distinct
<1> QED BY <1>3, <1>4, <1>5

\* While dependencies are recorded once, a removal takes away what it names.
LEMMA RemoveEdgeRecords ==
  ASSUME IInv, NEW source, NEW d \in Reported, RemoveEdge(source, d.target, d.type)
  PROVE  /\ Distinct => Recorded' = Recorded \ {DependencyOf(source, d)} /\ Distinct'
         /\ UNCHANGED nodes
<1>0. d.target \in ServiceId BY DEF Reported
<1>1. PICK e \in adjacencyList[source] :
        /\ e \in DOMAIN edge /\ edge[e].source = source /\ edge[e].target = d.target
        /\ source \in DOMAIN nodes
        /\ IsFirst(e, Matching(source, d.target, d.type))
        /\ TakenAway(e)
  BY <1>0, RemoveEdgeEffect
<1>2. edge[e].type = d.type BY <1>1 DEF IsFirst, Matching
<1>3. edge[e] = DependencyOf(source, d)
  BY <1>1, <1>2, Typing DEF EdgeRecord, DependencyOf
<1>4. edge' = [f \in DOMAIN edge \ {e} |-> edge[f]] BY <1>1 DEF TakenAway
<1>5. ASSUME Distinct PROVE Recorded' = Recorded \ {DependencyOf(source, d)} /\ Distinct'
  <2>1. \A f \in DOMAIN edge : edge[f] = edge[e] => f = e BY <1>1, <1>5 DEF Distinct
  <2>2. Recorded' = Recorded \ {edge[e]} BY <1>1, <1>4, <2>1 DEF Recorded
  <2>3. Distinct' BY <1>4, <1>5 DEF Distinct
  <2> QED BY <1>3, <2>2, <2>3
<1> QED BY <1>5 DEF RemoveEdge

\* An update that keeps the type in the path's alphabet and makes no two
\* dependencies equal replaces the one it names.
LEMMA UpdateEdgeRecords ==
  ASSUME IInv, NEW source, NEW d \in Reported, NEW type \in AnyType, type # NoType,
         UpdateEdge(source, d.target, d.type, type), Distinct,
         \A e, f \in DOMAIN edge' : edge'[e] = edge'[f] => e = f
  PROVE  /\ DependencyOf(source, d) \in Recorded
         /\ Recorded' = (Recorded \ {DependencyOf(source, d)})
                          \cup {[DependencyOf(source, d) EXCEPT !.type = type]}
         /\ Distinct'
         /\ UNCHANGED nodes
<1>1. PICK e \in adjacencyList[source] :
        /\ IsFirst(e, Matching(source, d.target, d.type))
        /\ edge' = [edge EXCEPT ![e].type = type]
  BY DEF UpdateEdge
<1>2. source \in DOMAIN nodes /\ UNCHANGED nodes BY Typing DEF UpdateEdge
<1>3. e \in DOMAIN edge /\ edge[e].source = source
  BY <1>1, <1>2, Typing DEF IInv, ListsMirror
<1>4. edge[e].target = d.target /\ edge[e].type = d.type BY <1>1 DEF IsFirst, Matching
<1>5. edge[e] = DependencyOf(source, d)
  BY <1>3, <1>4, Typing DEF EdgeRecord, DependencyOf
<1>6. \A f \in DOMAIN edge : edge[f] = edge[e] => f = e BY <1>3 DEF Distinct
<1>7. /\ DOMAIN edge' = DOMAIN edge
      /\ edge'[e] = [edge[e] EXCEPT !.type = type]
      /\ \A f \in DOMAIN edge : f # e => edge'[f] = edge[f]
  BY <1>1, <1>3, Typing
<1>8. edge'[e].type = type BY <1>3, <1>7, Typing DEF EdgeRecord
<1>9. Recorded' = (Recorded \ {edge[e]}) \cup {[edge[e] EXCEPT !.type = type]}
  BY <1>3, <1>6, <1>7 DEF Recorded
<1>10. \A f \in DOMAIN edge' : edge'[f].type \in DependencyType
  BY <1>7, <1>8 DEF Distinct, AnyType
<1>11. Distinct' BY <1>10 DEF Distinct
<1>12. edge[e] \in Recorded BY <1>3 DEF Recorded
<1> QED BY <1>2, <1>5, <1>9, <1>11, <1>12

\* addEdge refuses the second of two equal edges of an import.
LEMMA ImportRecords ==
  ASSUME NEW snapshot \in Snapshots, ImportGraph(snapshot),
         \A e \in DOMAIN edge' : edge'[e].type # NoType
  PROVE  Distinct'
<1>1. PICK n \in 0 .. Len(snapshot.edges) :
        /\ \A i \in 1 .. n : Accepted(snapshot, i)
        /\ edge' = [i \in 1 .. n |-> snapshot.edges[i]]
  BY DEF ImportGraph
<1>2. snapshot.edges \in Seq(EdgeRecord) BY SnapshotsAssumption
<1>3. /\ Len(snapshot.edges) \in Nat
      /\ \A i \in 1 .. Len(snapshot.edges) : snapshot.edges[i] \in EdgeRecord
  BY <1>2, LenProperties
<1>4. DOMAIN edge' = 1 .. n /\ \A i \in 1 .. n : edge'[i] = snapshot.edges[i] BY <1>1
<1>5. \A i \in 1 .. n : edge'[i].type \in DependencyType
  BY <1>3, <1>4 DEF EdgeRecord, AnyType
<1>6. ASSUME NEW i \in 1 .. n, NEW j \in 1 .. n, j < i PROVE edge'[i] # edge'[j]
  <2>1. j \in 1 .. i - 1 BY <1>3, <1>6
  <2>2. snapshot.edges[j] # snapshot.edges[i] BY <1>1, <2>1 DEF Accepted
  <2> QED BY <1>4, <2>2
<1>7. \A i, j \in 1 .. n : i = j \/ i < j \/ j < i BY <1>3
<1>8. \A i, j \in DOMAIN edge' : edge'[i] = edge'[j] => i = j BY <1>4, <1>6, <1>7
<1> QED BY <1>4, <1>5, <1>8 DEF Distinct

------------------------------------------------------------------------------
\* Events tell of every change

\* Whoever has the graph and applies the events has the changed graph.
Tells(events) == \A c : AfterEvents(c, Exported, events) = Exported'

TellsOnce == Distinct' /\ \E events : EmitGraphUpdates(events) /\ Tells(events)

LEMMA ExportedView ==
  /\ Exported = View(DOMAIN nodes, Recorded)
  /\ Exported' = View(DOMAIN nodes', Recorded')
BY DEF Exported, View, Recorded

LEMMA RegisterServicesTells ==
  ASSUME IInv, Distinct, NEW ids \in SUBSET ServiceId, NEW data \in ServiceData,
         RegisterServices(ids, data)
  PROVE  TellsOnce
<1> DEFINE new == ids \ DOMAIN nodes
           told_ == {NodeEvent("node_added", id) : id \in new}
           events == SetToSeq(told_)
<1>1. EmitGraphUpdates(events) BY DEF RegisterServices, Answer
<1>2. DOMAIN nodes' = DOMAIN nodes \cup new /\ edge' = edge
  <2>1. CASE UNCHANGED vars /\ ids \subseteq DOMAIN nodes BY <2>1 DEF vars
  <2>2. CASE \E f \in NodeMap : DOMAIN f = ids \ DOMAIN nodes /\ AddNodes(f)
    BY <2>2 DEF AddNodes
  <2> QED BY <2>1, <2>2, RegisterServicesGraph
<1>3. Recorded' = Recorded /\ Distinct' BY <1>2 DEF Recorded, Distinct
<1>4. IsFiniteSet(told_)
  <2> DEFINE f == [id \in new |-> NodeEvent("node_added", id)]
  <2>1. IsFiniteSet(new) BY FiniteAssumption, FS_Subset
  <2>2. told_ = {f[id] : id \in new} OBVIOUS
  <2> HIDE DEF new, f, told_
  <2> QED BY <2>1, <2>2, FiniteImage
<1> HIDE DEF new
<1>5. /\ Len(events) \in Nat
      /\ \A x \in told_ : \E i \in 1 .. Len(events) : events[i] = x
      /\ \A i \in 1 .. Len(events) : events[i] \in told_
  BY <1>4, SetToSeqLists
<1> HIDE DEF events
<1>6. \A i \in 1 .. Len(events) : /\ events[i].eventType = "node_added"
                                  /\ events[i].id \in new
                                  /\ IsAddition(events[i])
  BY <1>5 DEF NodeEvent, IsAddition
<1> DEFINE added == {events[i].id : i \in {j \in 1 .. Len(events) :
                                             events[j].eventType = "node_added"}}
           linked == {events[i].dependency : i \in {j \in 1 .. Len(events) :
                                                  events[j].eventType = "edge_added"}}
<1>7. added = new
  <2>1. added \subseteq new BY <1>6
  <2>2. ASSUME NEW id \in new PROVE id \in added
    <3>1. PICK i \in 1 .. Len(events) : events[i] = NodeEvent("node_added", id) BY <1>5
    <3>2. events[i].eventType = "node_added" /\ events[i].id = id BY <3>1 DEF NodeEvent
    <3> QED BY <3>2
  <2> QED BY <2>1, <2>2
<1>8. linked = {} BY <1>6
<1>9. \A c : AfterEvents(c, View(DOMAIN nodes, Recorded), events)
               = View(DOMAIN nodes \cup added, Recorded \cup linked)
  BY <1>5, <1>6, AfterAdditions
<1> HIDE DEF added, linked
<1>10. Tells(events) BY <1>2, <1>3, <1>7, <1>8, <1>9, ExportedView DEF Tells
<1> QED BY <1>1, <1>3, <1>10 DEF TellsOnce

LEMMA UpdateServiceTells ==
  ASSUME Distinct, NEW id, NEW data, UpdateService(id, data) PROVE TellsOnce
<1> DEFINE event == NodeEvent("node_updated", id)
<1>1. EmitGraphUpdates(<<event>>) BY DEF UpdateService, Answer
<1>2. DOMAIN nodes' = DOMAIN nodes /\ edge' = edge BY DEF UpdateService, UpdateNode
<1>3. Recorded' = Recorded /\ Distinct' BY <1>2 DEF Recorded, Distinct
<1>4. Apply(View(DOMAIN nodes, Recorded), event) = View(DOMAIN nodes, Recorded)
  BY DEF Apply, NodeEvent
<1> HIDE DEF event
<1>5. Tells(<<event>>) BY <1>2, <1>3, <1>4, AfterOneEvent, ExportedView DEF Tells
<1> QED BY <1>1, <1>3, <1>5 DEF TellsOnce

LEMMA DeregisterServiceTells ==
  ASSUME IInv, Distinct, NEW id, DeregisterService(id) PROVE TellsOnce
<1> DEFINE event == NodeEvent("node_removed", id)
<1>1. EmitGraphUpdates(<<event>>) /\ RemoveNode(id) BY DEF DeregisterService, Answer
<1>2. /\ Recorded' = {r \in Recorded : r.source # id /\ r.target # id}
      /\ Distinct'
      /\ DOMAIN nodes' = DOMAIN nodes \ {id}
  BY <1>1, RemoveNodeRecords
<1>3. Apply(View(DOMAIN nodes, Recorded), event) = View(DOMAIN nodes', Recorded')
  BY <1>2 DEF Apply, NodeEvent, View
<1> HIDE DEF event
<1>4. Tells(<<event>>) BY <1>3, AfterOneEvent, ExportedView DEF Tells
<1> QED BY <1>1, <1>2, <1>4 DEF TellsOnce

LEMMA RegisterDependencyTells ==
  ASSUME IInv, Distinct, NEW source, NEW d \in Reported, RegisterDependency(source, d)
  PROVE  TellsOnce
<1> DEFINE event == EdgeEvent("edge_added", DependencyOf(source, d), d.type)
<1>1. EmitGraphUpdates(<<event>>) /\ AddEdges(source, {d})
  BY DEF RegisterDependency, Answer
<1>2. {d} \in SUBSET Reported OBVIOUS
<1>3. /\ Recorded' = Recorded \cup {DependencyOf(source, x) : x \in {d}}
      /\ Distinct' /\ nodes' = nodes
  BY <1>1, <1>2, AddEdgesRecords
<1>4. Recorded' = Recorded \cup {DependencyOf(source, d)} BY <1>3
<1>5. Apply(View(DOMAIN nodes, Recorded), event) = View(DOMAIN nodes', Recorded')
  BY <1>3, <1>4 DEF Apply, EdgeEvent, View
<1> HIDE DEF event
<1>6. Tells(<<event>>) BY <1>5, AfterOneEvent, ExportedView DEF Tells
<1> QED BY <1>1, <1>3, <1>6 DEF TellsOnce

LEMMA RemoveDependencyTells ==
  ASSUME IInv, Distinct, NEW source, NEW d \in Reported, RemoveDependency(source, d)
  PROVE  TellsOnce
<1> DEFINE event == EdgeEvent("edge_removed", DependencyOf(source, d), d.type)
<1>1. EmitGraphUpdates(<<event>>) /\ RemoveEdge(source, d.target, d.type)
  BY DEF RemoveDependency, Answer
<1>2. /\ Recorded' = Recorded \ {DependencyOf(source, d)}
      /\ Distinct' /\ nodes' = nodes
  BY <1>1, RemoveEdgeRecords
<1>3. Apply(View(DOMAIN nodes, Recorded), event) = View(DOMAIN nodes', Recorded')
  BY <1>2 DEF Apply, EdgeEvent, View
<1> HIDE DEF event
<1>4. Tells(<<event>>) BY <1>3, AfterOneEvent, ExportedView DEF Tells
<1> QED BY <1>1, <1>2, <1>4 DEF TellsOnce

LEMMA UpdateDependencyTells ==
  ASSUME IInv, Distinct, NEW source, NEW d \in Reported, NEW type \in AnyType,
         UpdateDependency(source, d, type), ~ blurred'
  PROVE  TellsOnce
<1> DEFINE event == EdgeEvent("edge_updated", DependencyOf(source, d), type)
<1>1. /\ type # NoType
      /\ \A e, f \in DOMAIN edge' : edge'[e] = edge'[f] => e = f
  BY DEF UpdateDependency
<1>2. EmitGraphUpdates(<<event>>) /\ UpdateEdge(source, d.target, d.type, type)
  BY <1>1 DEF UpdateDependency, Answer
<1>3. /\ DependencyOf(source, d) \in Recorded
      /\ Recorded' = (Recorded \ {DependencyOf(source, d)})
                       \cup {[DependencyOf(source, d) EXCEPT !.type = type]}
      /\ Distinct' /\ nodes' = nodes
  BY <1>1, <1>2, UpdateEdgeRecords
<1>4. Apply(View(DOMAIN nodes, Recorded), event) = View(DOMAIN nodes', Recorded')
  BY <1>3 DEF Apply, EdgeEvent, View
<1> HIDE DEF event
<1>5. Tells(<<event>>) BY <1>4, AfterOneEvent, ExportedView DEF Tells
<1> QED BY <1>2, <1>3, <1>5 DEF TellsOnce

LEMMA ReportedFinite == IsFiniteSet(Reported)
<1> DEFINE pairs == ServiceId \X DependencyType
           f == [p \in pairs |-> [target |-> p[1], type |-> p[2]]]
<1>1. IsFiniteSet(pairs) BY FiniteAssumption, FS_Product
<1>2. Reported \subseteq {f[p] : p \in pairs}
  <2> SUFFICES ASSUME NEW d \in Reported PROVE \E p \in pairs : f[p] = d OBVIOUS
  <2>1. <<d.target, d.type>> \in pairs BY DEF Reported
  <2>2. f[<<d.target, d.type>>] = d BY <2>1 DEF Reported
  <2> QED BY <2>1, <2>2
<1> HIDE DEF pairs, f
<1>3. IsFiniteSet({f[p] : p \in pairs}) BY <1>1, FiniteImage
<1> QED BY <1>2, <1>3, FS_Subset

\* The events of one kind a report sends.
EventsOf(eventType, source, ds) ==
  SetToSeq({EdgeEvent(eventType, DependencyOf(source, d), d.type) : d \in ds})

LEMMA EventsOfList ==
  ASSUME NEW eventType, NEW source, NEW ds \in SUBSET Reported
  PROVE  \E S : /\ EventsOf(eventType, source, ds) \in Seq(S)
                /\ \A d \in ds : \E i \in 1 .. Len(EventsOf(eventType, source, ds)) :
                     EventsOf(eventType, source, ds)[i]
                       = EdgeEvent(eventType, DependencyOf(source, d), d.type)
                /\ \A i \in 1 .. Len(EventsOf(eventType, source, ds)) : \E d \in ds :
                     EventsOf(eventType, source, ds)[i]
                       = EdgeEvent(eventType, DependencyOf(source, d), d.type)
<1> DEFINE S == {EdgeEvent(eventType, DependencyOf(source, d), d.type) : d \in ds}
           f == [d \in ds |-> EdgeEvent(eventType, DependencyOf(source, d), d.type)]
<1>1. IsFiniteSet(ds) BY ReportedFinite, FS_Subset
<1>2. S = {f[d] : d \in ds} OBVIOUS
<1>3. EventsOf(eventType, source, ds) = SetToSeq(S) BY DEF EventsOf
<1>4. \A d \in ds : EdgeEvent(eventType, DependencyOf(source, d), d.type) \in S OBVIOUS
<1>5. \A x \in S : \E d \in ds : x = EdgeEvent(eventType, DependencyOf(source, d), d.type)
  OBVIOUS
<1> HIDE DEF f, S
<1>6. IsFiniteSet(S) BY <1>1, <1>2, FiniteImage
<1>7. /\ SetToSeq(S) \in Seq(S)
      /\ \A x \in S : \E i \in 1 .. Len(SetToSeq(S)) : SetToSeq(S)[i] = x
      /\ \A i \in 1 .. Len(SetToSeq(S)) : SetToSeq(S)[i] \in S
  BY <1>6, SetToSeqLists
<1> QED BY <1>3, <1>4, <1>5, <1>7

LEMMA SubmitReportTells ==
  ASSUME IInv, Distinct, NEW source \in ServiceId, NEW deps \in SUBSET Reported,
         SubmitDependencyReport(source, deps)
  PROVE  TellsOnce
<1> DEFINE recorded == {d \in deps : source \in DOMAIN nodes
                                       /\ Matching(source, d.target, d.type) # {}}
           new == {d \in deps \ recorded : {source, d.target} \subseteq DOMAIN nodes}
           same == EventsOf("edge_updated", source, recorded)
           fresh == EventsOf("edge_added", source, new)
           first == same \o fresh
           Same(d) == EdgeEvent("edge_updated", DependencyOf(source, d), d.type)
           New(d) == EdgeEvent("edge_added", DependencyOf(source, d), d.type)
<1>1. PICK again \in SUBSET (recorded \cup new) :
        EmitGraphUpdates(first \o EventsOf("edge_updated", source, again))
  BY DEF SubmitDependencyReport, Answer, EventsOf
<1> DEFINE twice == EventsOf("edge_updated", source, again)
           events == first \o twice
<1>2. EmitGraphUpdates(events) BY <1>1
<1>3. /\ Recorded' = Recorded \cup {DependencyOf(source, d) : d \in new}
      /\ Distinct' /\ nodes' = nodes
  <2>1. new = NewEntries(source, deps) BY DEF NewEntries
  <2>2. new \in SUBSET Reported OBVIOUS
  <2> HIDE DEF new
  <2>3. CASE UNCHANGED vars /\ new = {}
    <3>1. {DependencyOf(source, d) : d \in new} = {} BY <2>3
    <3> QED BY <2>3, <3>1 DEF vars, Recorded, Distinct
  <2>4. CASE AddEdges(source, new) BY <2>2, <2>4, AddEdgesRecords
  <2> QED BY <2>1, <2>3, <2>4, SubmitReportGraph
<1>4. recorded \in SUBSET Reported /\ new \in SUBSET Reported /\ again \in SUBSET Reported
  OBVIOUS
<1> HIDE DEF recorded, new
<1>5. \E S : /\ same \in Seq(S)
             /\ \A i \in 1 .. Len(same) : \E d \in recorded : same[i] = Same(d)
  BY <1>4, EventsOfList
<1>6. \E S : /\ fresh \in Seq(S)
             /\ \A d \in new : \E i \in 1 .. Len(fresh) : fresh[i] = New(d)
             /\ \A i \in 1 .. Len(fresh) : \E d \in new : fresh[i] = New(d)
  BY <1>4, EventsOfList
<1>7. \E S : /\ twice \in Seq(S)
             /\ \A i \in 1 .. Len(twice) : \E d \in again : twice[i] = Same(d)
  BY <1>4, EventsOfList
<1>8. \A d : /\ Same(d).eventType = "edge_updated" /\ IsAddition(Same(d))
             /\ New(d).eventType = "edge_added" /\ IsAddition(New(d))
             /\ New(d).dependency = DependencyOf(source, d)
  BY DEF EdgeEvent, DependencyOf, IsAddition
<1> HIDE DEF same, fresh, twice, Same, New
<1>9. /\ Len(same) \in Nat /\ Len(fresh) \in Nat
      /\ Len(first) = Len(same) + Len(fresh)
      /\ \A i \in 1 .. Len(same) : first[i] = same[i]
      /\ \A i \in 1 .. Len(fresh) : first[Len(same) + i] = fresh[i]
      /\ \A i \in 1 .. Len(first) :
           i \in 1 .. Len(same) \/ \E k \in 1 .. Len(fresh) : i = Len(same) + k
  BY <1>5, <1>6, ConcatLists
<1>10. \E S : first \in Seq(S)
  <2>1. PICK S, T : same \in Seq(S) /\ fresh \in Seq(T) BY <1>5, <1>6
  <2>2. same \in Seq(S \cup T) /\ fresh \in Seq(S \cup T) BY <2>1, SeqInLarger
  <2> QED BY <2>2, ConcatProperties
<1> HIDE DEF first
<1>11. /\ Len(first) \in Nat /\ Len(twice) \in Nat /\ Len(events) \in Nat
       /\ Len(events) = Len(first) + Len(twice)
       /\ \A i \in 1 .. Len(first) : events[i] = first[i]
       /\ \A i \in 1 .. Len(twice) : events[Len(first) + i] = twice[i]
       /\ \A i \in 1 .. Len(events) :
            i \in 1 .. Len(first) \/ \E k \in 1 .. Len(twice) : i = Len(first) + k
  BY <1>7, <1>10, ConcatLists
<1> HIDE DEF events
<1>12. \A i \in 1 .. Len(events) : /\ IsAddition(events[i])
                                   /\ events[i].eventType # "node_added"
                                   /\ events[i].eventType = "edge_added" =>
                                        \E d \in new : events[i] = New(d)
  <2> DEFINE Good(e) == (\E d : e = Same(d)) \/ \E d \in new : e = New(d)
  <2>1. \A e : Good(e) => /\ IsAddition(e) /\ e.eventType # "node_added"
                          /\ e.eventType = "edge_added" => \E d \in new : e = New(d)
    BY <1>8
  <2>2. \A i \in 1 .. Len(same) : Good(same[i]) BY <1>5
  <2>3. \A i \in 1 .. Len(fresh) : Good(fresh[i]) BY <1>6
  <2>4. \A i \in 1 .. Len(twice) : Good(twice[i]) BY <1>7
  <2> HIDE DEF Good
  <2>5. \A i \in 1 .. Len(first) : Good(first[i]) BY <1>9, <2>2, <2>3
  <2>6. \A i \in 1 .. Len(events) : Good(events[i]) BY <1>11, <2>4, <2>5
  <2> QED BY <2>1, <2>6
<1>13. ASSUME NEW d \in new PROVE \E i \in 1 .. Len(events) : events[i] = New(d)
  <2>1. PICK k \in 1 .. Len(fresh) : fresh[k] = New(d) BY <1>6
  <2>2. Len(same) + k \in 1 .. Len(first) /\ first[Len(same) + k] = New(d) BY <1>9, <2>1
  <2>3. Len(same) + k \in 1 .. Len(events) BY <1>11, <2>2
  <2> QED BY <1>11, <2>2, <2>3
<1> DEFINE added == {events[i].id : i \in {j \in 1 .. Len(events) :
                                             events[j].eventType = "node_added"}}
           linked == {events[i].dependency : i \in {j \in 1 .. Len(events) :
                                                  events[j].eventType = "edge_added"}}
<1>14. added = {} BY <1>12
<1>15. linked = {DependencyOf(source, d) : d \in new}
  <2>1. ASSUME NEW i \in 1 .. Len(events), events[i].eventType = "edge_added"
        PROVE  \E d \in new : events[i].dependency = DependencyOf(source, d)
    BY <1>8, <1>12, <2>1
  <2>2. ASSUME NEW d \in new PROVE DependencyOf(source, d) \in linked
    <3>1. PICK i \in 1 .. Len(events) : events[i] = New(d) BY <1>13
    <3>2. events[i].eventType = "edge_added" /\ events[i].dependency = DependencyOf(source, d)
      BY <1>8, <3>1
    <3> QED BY <3>2
  <2> QED BY <2>1, <2>2
<1>16. \A c : AfterEvents(c, View(DOMAIN nodes, Recorded), events)
                = View(DOMAIN nodes \cup added, Recorded \cup linked)
  <2>1. Len(events) \in Nat /\ \A i \in 1 .. Len(events) : IsAddition(events[i])
    BY <1>11, <1>12
  <2> QED BY <2>1, AfterAdditions
<1> HIDE DEF added, linked
<1>17. Tells(events) BY <1>3, <1>14, <1>15, <1>16, ExportedView DEF Tells
<1> QED BY <1>3, <1>17, <1>2 DEF TellsOnce

LEMMA ControllerTells ==
  ASSUME IInv, blurred \/ Distinct, ControllerNext
  PROVE  blurred' \/ (~ blurred /\ TellsOnce)
<1> SUFFICES ASSUME ~ blurred' PROVE ~ blurred /\ TellsOnce OBVIOUS
<1>1. ASSUME NEW ids \in SUBSET ServiceId, NEW data \in ServiceData,
             RegisterServices(ids, data)
      PROVE  ~ blurred /\ TellsOnce
  <2>1. ~ blurred BY <1>1 DEF RegisterServices
  <2> QED BY <1>1, <2>1, RegisterServicesTells
<1>2. ASSUME NEW id \in ServiceId, NEW data \in ServiceData, UpdateService(id, data)
      PROVE  ~ blurred /\ TellsOnce
  <2>1. ~ blurred BY <1>2 DEF UpdateService
  <2> QED BY <1>2, <2>1, UpdateServiceTells
<1>3. ASSUME NEW id \in ServiceId, DeregisterService(id) PROVE ~ blurred /\ TellsOnce
  <2>1. ~ blurred BY <1>3 DEF DeregisterService
  <2> QED BY <1>3, <2>1, DeregisterServiceTells
<1>4. ASSUME NEW s \in ServiceId, NEW d \in Reported, RegisterDependency(s, d)
      PROVE  ~ blurred /\ TellsOnce
  <2>1. ~ blurred BY <1>4 DEF RegisterDependency
  <2> QED BY <1>4, <2>1, RegisterDependencyTells
<1>5. ASSUME NEW s \in ServiceId, NEW d \in Reported, RemoveDependency(s, d)
      PROVE  ~ blurred /\ TellsOnce
  <2>1. ~ blurred BY <1>5 DEF RemoveDependency
  <2> QED BY <1>5, <2>1, RemoveDependencyTells
<1>6. ASSUME NEW s \in ServiceId, NEW d \in Reported, NEW type \in AnyType,
             UpdateDependency(s, d, type)
      PROVE  ~ blurred /\ TellsOnce
  <2>1. ~ blurred BY <1>6 DEF UpdateDependency
  <2> QED BY <1>6, <2>1, UpdateDependencyTells
<1>7. ASSUME NEW s \in ServiceId, NEW deps \in SUBSET Reported,
             SubmitDependencyReport(s, deps)
      PROVE  ~ blurred /\ TellsOnce
  <2>1. ~ blurred BY <1>7 DEF SubmitDependencyReport
  <2> QED BY <1>7, <2>1, SubmitReportTells
<1> QED BY <1>1, <1>2, <1>3, <1>4, <1>5, <1>6, <1>7 DEF ControllerNext

\* A client that has the graph of the service keeps having it; what holds of the
\* graph alone does not suffice, as an event about one of two equal dependencies
\* would take both from the client and one from the service.
IngestionInv == IngestionTyped /\ OnlyUpdatesBlur /\ EventsTellTheGraph

LEMMA InitTold == IngestionInit => IngestionInv
<1> SUFFICES ASSUME IngestionInit PROVE IngestionInv OBVIOUS
<1>1. DOMAIN edge = {} BY DEF IngestionInit, Init
<1>4. DOMAIN mirror = {} BY DEF IngestionInit
<1>2. OnlyUpdatesBlur BY <1>1 DEF OnlyUpdatesBlur
<1>3. EventsTellTheGraph BY <1>4 DEF EventsTellTheGraph
<1> QED BY <1>2, <1>3, InitTyped DEF IngestionInv

LEMMA StepTold == IngestionInv /\ [IngestionNext]_ingestionVars => IngestionInv'
<1> SUFFICES ASSUME IngestionInv, [IngestionNext]_ingestionVars PROVE IngestionInv'
  OBVIOUS
<1> USE DEF IngestionInv
<1>0. IngestionTyped' BY StepTyped
<1>1. ASSUME UNCHANGED vars, UNCHANGED blurred
      PROVE  OnlyUpdatesBlur' /\ Exported' = Exported
  BY <1>1 DEF vars, OnlyUpdatesBlur, Exported
<1>2. ASSUME NEW c \in Client, HandleConnection(c)
      PROVE  OnlyUpdatesBlur' /\ EventsTellTheGraph'
  <2>1. UNCHANGED vars /\ UNCHANGED <<mirror, blurred>>
    BY <1>2 DEF HandleConnection, graphVars
  <2> QED BY <1>1, <2>1 DEF EventsTellTheGraph
<1>3. ASSUME NEW c \in Client, HandleDisconnect(c)
      PROVE  OnlyUpdatesBlur' /\ EventsTellTheGraph'
  <2>1. UNCHANGED vars /\ UNCHANGED blurred /\ mirror' = Forget(mirror, c)
    BY <1>3 DEF HandleDisconnect, graphVars
  <2> QED BY <1>1, <2>1 DEF EventsTellTheGraph, Forget
<1>4. ASSUME NEW c \in Client, NEW eventTypes, HandleSubscribe(c, eventTypes)
      PROVE  OnlyUpdatesBlur' /\ EventsTellTheGraph'
  <2>1. /\ UNCHANGED vars /\ UNCHANGED blurred
        /\ \/ mirror' = mirror
           \/ mirror' = [x \in DOMAIN mirror \cup {c} |->
                           IF x = c THEN Exported ELSE mirror[x]]
    BY <1>4 DEF HandleSubscribe, graphVars
  <2> QED BY <1>1, <2>1 DEF EventsTellTheGraph
<1>5. ASSUME NEW c \in Client, NEW eventTypes, HandleUnsubscribe(c, eventTypes)
      PROVE  OnlyUpdatesBlur' /\ EventsTellTheGraph'
  <2>1. /\ UNCHANGED vars /\ UNCHANGED blurred
        /\ mirror' = mirror \/ mirror' = Forget(mirror, c)
    BY <1>5 DEF HandleUnsubscribe, graphVars
  <2> QED BY <1>1, <2>1 DEF EventsTellTheGraph, Forget
<1>6. ASSUME ControllerNext PROVE OnlyUpdatesBlur' /\ EventsTellTheGraph'
  <2>1. blurred \/ Distinct BY DEF OnlyUpdatesBlur, Distinct
  <2>2. blurred' \/ (~ blurred /\ TellsOnce)
    BY <1>6, <2>1, ControllerTells DEF IngestionTyped
  <2>3. CASE blurred' BY <2>3 DEF OnlyUpdatesBlur, EventsTellTheGraph
  <2>4. CASE ~ blurred /\ TellsOnce
    <3>1. PICK events : EmitGraphUpdates(events) /\ Tells(events)
      BY <2>4 DEF TellsOnce
    <3>2. mirror' = [c \in DOMAIN mirror |-> AfterEvents(c, mirror[c], events)]
      BY <3>1 DEF EmitGraphUpdates
    <3>3. \A c \in DOMAIN mirror : mirror[c] = Exported
      BY <2>4 DEF EventsTellTheGraph
    <3>4. \A c \in DOMAIN mirror : mirror'[c] = Exported' BY <3>1, <3>2, <3>3 DEF Tells
    <3>5. EventsTellTheGraph' BY <3>2, <3>4 DEF EventsTellTheGraph
    <3> QED BY <2>4, <3>5 DEF TellsOnce, Distinct, OnlyUpdatesBlur
  <2> QED BY <2>2, <2>3, <2>4
<1>7. ASSUME NEW snapshot \in Snapshots, Restart(snapshot)
      PROVE  OnlyUpdatesBlur' /\ EventsTellTheGraph'
  <2>1. (DOMAIN mirror)' = {} BY <1>7 DEF Restart
  <2>2. blurred' \/ \A e \in DOMAIN edge' : edge'[e].type # NoType BY <1>7 DEF Restart
  <2>3. blurred' \/ Distinct' BY <1>7, <2>2, ImportRecords DEF Restart
  <2> QED BY <2>1, <2>3 DEF OnlyUpdatesBlur, Distinct, EventsTellTheGraph
<1>8. CASE UNCHANGED ingestionVars
  <2>1. UNCHANGED vars /\ UNCHANGED <<mirror, blurred>> BY <1>8 DEF ingestionVars
  <2> QED BY <1>0, <1>1, <2>1 DEF EventsTellTheGraph
<1> QED
  BY <1>0, <1>2, <1>3, <1>4, <1>5, <1>6, <1>7, <1>8 DEF IngestionNext, GatewayNext

\* addEdge's check is enough for a dependency to be recorded once whatever
\* registrations, reports, removals and imports are made; only an update, which
\* does not check, can make two equal or take a type away.
THEOREM DependenciesAreRecordedOnce == IngestionSpec => []OnlyUpdatesBlur
<1>1. IngestionInv => OnlyUpdatesBlur BY DEF IngestionInv
<1> QED BY <1>1, InitTold, StepTold, PTL DEF IngestionSpec

\* The events of any sequence of requests, received once or twice, are enough for
\* a client of room 'all' to follow the graph, until an update blurs it.
THEOREM EventsAreComplete == IngestionSpec => []EventsTellTheGraph
<1>1. IngestionInv => EventsTellTheGraph BY DEF IngestionInv
<1> QED BY <1>1, InitTold, StepTold, PTL DEF IngestionSpec

==============================================================================
