---------------------------- MODULE TopologyGraph ----------------------------
(***************************************************************************)
(* GraphService of the topology service                                    *)
(* (apps/topology-service/src/graph/graph.service.ts): the in-memory graph *)
(* as three maps, with one action per public method that changes it.       *)
(*                                                                         *)
(* A DependencyEdge object is an EdgeId: the two adjacency lists hold      *)
(* references to the same object, and edge is the heap the references      *)
(* point into.  push() appends an object newer than every other and        *)
(* splice() keeps the order of the rest, so a list is always in creation   *)
(* order; it is modelled as the set of its EdgeIds, and the first element  *)
(* that satisfies a condition is the least one that does.                  *)
(*                                                                         *)
(* A call that throws changes nothing: it is the absence of a step.        *)
(***************************************************************************)
EXTENDS Naturals, FiniteSets, Sequences

CONSTANTS ServiceId,        \* identifiers a service may register under
          ServiceData,      \* values of a node's name, version, type, metadata
          DependencyType,   \* 'http' | 'grpc' | 'event'
          NoType,           \* a type field that was overwritten by undefined
          MaxEdge,          \* bound on the edge objects alive at one time
          Snapshots         \* the exported graphs importGraph may be given

AnyType == DependencyType \cup {NoType}

EdgeId == 1 .. MaxEdge

EdgeRecord == [source : ServiceId, target : ServiceId, type : AnyType]

NodeMap == UNION {[ids -> ServiceData] : ids \in SUBSET ServiceId}

ASSUME MaxEdgeAssumption == MaxEdge \in Nat

ASSUME SnapshotsAssumption ==
  \A snapshot \in Snapshots :
    /\ snapshot.nodes \in NodeMap
    /\ snapshot.edges \in Seq(EdgeRecord)
    /\ Len(snapshot.edges) <= MaxEdge

VARIABLES nodes,                  \* Map of registered service to its data
          adjacencyList,          \* Map of service to its outgoing edges
          reverseAdjacencyList,   \* Map of service to its incoming edges
          edge                    \* fields of every edge object in a list

vars == <<nodes, adjacencyList, reverseAdjacencyList, edge>>

Init ==
  /\ nodes = [id \in {} |-> {}]
  /\ adjacencyList = [id \in {} |-> {}]
  /\ reverseAdjacencyList = [id \in {} |-> {}]
  /\ edge = [e \in {} |-> {}]

------------------------------------------------------------------------------
\* Nodes

\* addNode for each service of the map new (one for POST /services, several
\* for the items of a bulk registration that do not throw).
AddNodes(new) ==
  /\ DOMAIN new \cap DOMAIN nodes = {}
  /\ nodes' = [id \in DOMAIN nodes \cup DOMAIN new |->
                 IF id \in DOMAIN new THEN new[id] ELSE nodes[id]]
  /\ adjacencyList' = [id \in DOMAIN nodes' |->
                         IF id \in DOMAIN new THEN {} ELSE adjacencyList[id]]
  /\ reverseAdjacencyList' =
       [id \in DOMAIN nodes' |->
          IF id \in DOMAIN new THEN {} ELSE reverseAdjacencyList[id]]
  /\ UNCHANGED edge

UpdateNode(id, data) ==
  /\ id \in DOMAIN nodes
  /\ nodes' = [nodes EXCEPT ![id] = data]
  /\ UNCHANGED <<adjacencyList, reverseAdjacencyList, edge>>

------------------------------------------------------------------------------
\* Removal of edges from the other list

\* Mutant: removeEdgeFromReverse takes the first edge of the source, of any type.
SameSource(e, f) == edge[e].source = edge[f].source

\* The match of removeEdgeFromReverse, and that of removeEdgeFromForward.
SameIncoming(e, f) == edge[e].source = edge[f].source /\ edge[e].type = edge[f].type

SameOutgoing(e, f) == edge[e].target = edge[f].target /\ edge[e].type = edge[f].type

\* Mutant: removeEdgeFromReverse filters the list and takes every match away.
FilterIncoming(list, requested) ==
  {e \in list : \A r \in requested : ~ SameIncoming(r, e)}

\* What is left of an incoming list after removeEdgeFromReverse was called for
\* each requested edge: r requests that match an element take away the first r
\* such elements (findIndex, then splice).
SpliceIncoming(list, requested) ==
  {e \in list : Cardinality({f \in list : SameIncoming(f, e) /\ f <= e})
                  > Cardinality({r \in requested : SameIncoming(r, e)})}

\* The same of an outgoing list and removeEdgeFromForward.
SpliceOutgoing(list, requested) ==
  {e \in list : Cardinality({f \in list : SameOutgoing(f, e) /\ f <= e})
                  > Cardinality({r \in requested : SameOutgoing(r, e)})}

\* The heap keeps what some list still refers to.
ReachableEdges(forward, reverse) ==
  [e \in (UNION {forward[n] : n \in DOMAIN forward})
           \cup (UNION {reverse[n] : n \in DOMAIN reverse}) |-> edge[e]]

\* Mutant: removeNode forgets reverseAdjacencyList.delete(id).
RemoveNodeKeepIncoming(id) ==
  /\ id \in DOMAIN nodes
  /\ nodes' = [n \in DOMAIN nodes \ {id} |-> nodes[n]]
  /\ adjacencyList' = [n \in DOMAIN adjacencyList \ {id} |->
       SpliceOutgoing(adjacencyList[n], reverseAdjacencyList[id])]
  /\ reverseAdjacencyList' = [n \in DOMAIN reverseAdjacencyList |->
       SpliceIncoming(reverseAdjacencyList[n], adjacencyList[id])]
  /\ edge' = ReachableEdges(adjacencyList', reverseAdjacencyList')

\* Mutant: removeNode leaves the lists of the services that depend on id alone.
RemoveNodeKeepDependents(id) ==
  /\ id \in DOMAIN nodes
  /\ nodes' = [n \in DOMAIN nodes \ {id} |-> nodes[n]]
  /\ adjacencyList' = [n \in DOMAIN nodes' |-> adjacencyList[n]]
  /\ reverseAdjacencyList' = [n \in DOMAIN nodes' |->
       SpliceIncoming(reverseAdjacencyList[n],
                      {r \in adjacencyList[id] : edge[r].target = n})]
  /\ edge' = ReachableEdges(adjacencyList', reverseAdjacencyList')

RemoveNode(id) ==
  LET reverse1 ==
        [n \in DOMAIN reverseAdjacencyList |->
           SpliceIncoming(reverseAdjacencyList[n],
                          {r \in adjacencyList[id] : edge[r].target = n})]
      forward1 ==
        [n \in DOMAIN adjacencyList |->
           SpliceOutgoing(adjacencyList[n],
                          {r \in reverse1[id] : edge[r].source = n})]
  IN  /\ id \in DOMAIN nodes
      /\ nodes' = [n \in DOMAIN nodes \ {id} |-> nodes[n]]
      /\ adjacencyList' = [n \in DOMAIN adjacencyList \ {id} |-> forward1[n]]
      /\ reverseAdjacencyList' =
           [n \in DOMAIN reverseAdjacencyList \ {id} |-> reverse1[n]]
      /\ edge' = ReachableEdges(adjacencyList', reverseAdjacencyList')

------------------------------------------------------------------------------
\* Edges

Matching(source, target, type) ==
  {e \in adjacencyList[source] : edge[e].target = target /\ edge[e].type = type}

\* Mutant: findLast in place of find.
IsLast(e, matches) == e \in matches /\ \A f \in matches : f <= e

IsFirst(e, matches) == e \in matches /\ \A f \in matches : e <= f

\* The newest edge object, 0 when there is none.
IsNewest(m) ==
  /\ m # 0 => m \in DOMAIN edge
  /\ \A e \in DOMAIN edge : e <= m

PushEdges(new) ==
  /\ edge' = [e \in DOMAIN edge \cup DOMAIN new |->
                IF e \in DOMAIN new THEN new[e] ELSE edge[e]]
  /\ adjacencyList' =
       [n \in DOMAIN adjacencyList |->
          adjacencyList[n] \cup {e \in DOMAIN new : new[e].source = n}]
  /\ reverseAdjacencyList' =
       [n \in DOMAIN reverseAdjacencyList |->
          reverseAdjacencyList[n] \cup {e \in DOMAIN new : new[e].target = n}]

\* The objects constructed for the dependencies a source declares in this order.
NewEdges(source, order) ==
  [e \in DOMAIN order |->
     [source |-> source, target |-> order[e].target, type |-> order[e].type]]

\* addEdge for each dependency of the set deps: one for POST /dependencies,
\* several for the entries of a report that are not recorded yet, in the order
\* in which the report lists them.
AddEdges(source, deps) ==
  /\ source \in DOMAIN nodes
  /\ \A d \in deps : /\ d.target \in DOMAIN nodes
                     /\ Matching(source, d.target, d.type) = {}
  /\ \E m \in 0 .. MaxEdge : \E last \in m .. MaxEdge :
       /\ IsNewest(m)
       /\ \E order \in [m + 1 .. last -> deps] :
            /\ \A e, f \in DOMAIN order : order[e] = order[f] => e = f
            /\ \A d \in deps : \E e \in DOMAIN order : order[e] = d
            /\ PushEdges(NewEdges(source, order))
  /\ UNCHANGED nodes

\* The object is shared: one assignment shows in both lists.  Object.assign
\* copies the fields an update leaves out as undefined, so type may be NoType.
UpdateEdge(source, target, oldType, type) ==
  /\ source \in DOMAIN adjacencyList
  /\ \E e \in adjacencyList[source] :
       /\ IsFirst(e, Matching(source, target, oldType))
       /\ edge' = [edge EXCEPT ![e].type = type]
  /\ UNCHANGED <<nodes, adjacencyList, reverseAdjacencyList>>

RemoveEdge(source, target, type) ==
  /\ source \in DOMAIN adjacencyList
  /\ \E e \in adjacencyList[source] :
       /\ IsFirst(e, Matching(source, target, type))
       /\ adjacencyList' = [adjacencyList EXCEPT ![source] = @ \ {e}]
       /\ reverseAdjacencyList' =
            [reverseAdjacencyList EXCEPT ![target] = SpliceIncoming(@, {e})]
       /\ edge' = ReachableEdges(adjacencyList', reverseAdjacencyList')
  /\ UNCHANGED nodes

------------------------------------------------------------------------------
\* Import

\* Mutant: an import records a dependency as often as the snapshot lists it.
AcceptedAgain(snapshot, i) ==
  LET new == snapshot.edges[i]
  IN  {new.source, new.target} \subseteq DOMAIN snapshot.nodes

\* addEdge accepts the i-th edge of an import after accepting those before it.
Accepted(snapshot, i) ==
  LET new == snapshot.edges[i]
  IN  /\ {new.source, new.target} \subseteq DOMAIN snapshot.nodes
      /\ \A j \in 1 .. i - 1 : snapshot.edges[j] # new

\* clear(), then the nodes, then the edges up to the first that throws.
ImportGraph(snapshot) ==
  \E n \in 0 .. Len(snapshot.edges) :
    /\ \A i \in 1 .. n : Accepted(snapshot, i)
    /\ n < Len(snapshot.edges) => ~ Accepted(snapshot, n + 1)
    /\ nodes' = snapshot.nodes
    /\ edge' = [i \in 1 .. n |-> snapshot.edges[i]]
    /\ adjacencyList' = [s \in DOMAIN nodes' |->
                           {i \in 1 .. n : snapshot.edges[i].source = s}]
    /\ reverseAdjacencyList' = [s \in DOMAIN nodes' |->
                                  {i \in 1 .. n : snapshot.edges[i].target = s}]

------------------------------------------------------------------------------
Reported == [target : ServiceId, type : DependencyType]

Next ==
  \/ \E new \in NodeMap : new # << >> /\ AddNodes(new)
  \/ \E id \in ServiceId, data \in ServiceData : UpdateNode(id, data)
  \/ \E id \in ServiceId : RemoveNode(id)
  \/ \E s \in ServiceId, deps \in SUBSET Reported : deps # {} /\ AddEdges(s, deps)
  \/ \E s, t \in ServiceId, old \in DependencyType, type \in AnyType :
       UpdateEdge(s, t, old, type)
  \/ \E s, t \in ServiceId, type \in DependencyType : RemoveEdge(s, t, type)
  \/ \E snapshot \in Snapshots : ImportGraph(snapshot)

Spec == Init /\ [][Next]_vars

------------------------------------------------------------------------------
\* Properties

TypeOK ==
  /\ nodes \in NodeMap
  /\ DOMAIN edge \subseteq EdgeId
  /\ edge \in [DOMAIN edge -> EdgeRecord]
  /\ adjacencyList \in [DOMAIN nodes -> SUBSET DOMAIN edge]
  /\ reverseAdjacencyList \in [DOMAIN nodes -> SUBSET DOMAIN edge]

\* The two lists describe one graph: every edge object is in the outgoing list
\* of its source and in the incoming list of its target, and in no other list.
\* removeNode, removeEdge and updateEdge each keep only one of the lists in
\* hand and find the entry of the other by its fields.
ListsMirror ==
  \A e \in DOMAIN edge, n \in DOMAIN nodes :
    /\ e \in adjacencyList[n] <=> edge[e].source = n
    /\ e \in reverseAdjacencyList[n] <=> edge[e].target = n

\* No list leads to a service that is not registered, so the traversals of the
\* query side never visit one: topologicalSort would count a degree of undefined.
NoDanglingEdge ==
  \A e \in DOMAIN edge : {edge[e].source, edge[e].target} \subseteq DOMAIN nodes

\* The graph as its forward lists tell it, and as its reverse lists do.
ForwardView ==
  UNION {{[id |-> e, source |-> s, target |-> edge[e].target, type |-> edge[e].type]
            : e \in adjacencyList[s]} : s \in DOMAIN adjacencyList}

ReverseView ==
  UNION {{[id |-> e, source |-> edge[e].source, target |-> t, type |-> edge[e].type]
            : e \in reverseAdjacencyList[t]} : t \in DOMAIN reverseAdjacencyList}

ForwardGraph == INSTANCE DependencyGraph
             WITH services <- DOMAIN nodes, dependencies <- ForwardView

ReverseGraph == INSTANCE DependencyGraph
             WITH services <- DOMAIN nodes, dependencies <- ReverseView

\* Read through adjacencyList (getEdges, exportGraph, the dependencies of a
\* service), GraphService is the graph of registered services it promises.
ForwardListsImplementGraph == ForwardGraph!Spec

\* So it is read through reverseAdjacencyList (getReverseDependencies, the
\* affectedBy half of the blast radius), though no method writes it first.
ReverseListsImplementGraph == ReverseGraph!Spec

==============================================================================
