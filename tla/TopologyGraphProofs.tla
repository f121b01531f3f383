------------------------- MODULE TopologyGraphProofs -------------------------
(***************************************************************************)
(* Proofs about TopologyGraph, for every set of services, of types and of  *)
(* snapshots and every bound on the edge objects.                          *)
(***************************************************************************)
EXTENDS TopologyGraph, FiniteSetTheorems, SequenceTheorems, TLAPS

\* The inductive invariant.  ListsMirror needs NoDanglingEdge: an edge of an
\* unregistered service would be in no list at all.
IInv == TypeOK /\ ListsMirror /\ NoDanglingEdge

------------------------------------------------------------------------------
\* Counting in lists

\* A list holds no more matches than requests that include them all.
LEMMA CountWithin ==
  ASSUME NEW B \in SUBSET EdgeId, NEW A \in SUBSET B
  PROVE  ~ (Cardinality(A) > Cardinality(B))
<1>1. IsFiniteSet(EdgeId)
  BY FS_Interval, MaxEdgeAssumption DEF EdgeId
<1>2. IsFiniteSet(B) BY <1>1, FS_Subset
<1>3. Cardinality(A) <= Cardinality(B) BY <1>2, FS_Subset
<1>4. IsFiniteSet(A) BY <1>2, FS_Subset
<1>5. Cardinality(A) \in Nat /\ Cardinality(B) \in Nat
  BY <1>2, <1>4, FS_CardinalityType
<1> QED BY <1>3, <1>5

\* A match that no request names is not removed.
LEMMA CountSome ==
  ASSUME NEW A \in SUBSET EdgeId, NEW x \in A
  PROVE  Cardinality(A) > Cardinality({})
<1>1. IsFiniteSet(EdgeId)
  BY FS_Interval, MaxEdgeAssumption DEF EdgeId
<1>2. IsFiniteSet(A) BY <1>1, FS_Subset
<1>3. Cardinality(A) \in Nat BY <1>2, FS_CardinalityType
<1>4. Cardinality(A) # 0 BY <1>2, FS_EmptySet
<1> QED BY <1>3, <1>4, FS_EmptySet

\* The second match survives one request.
LEMMA CountTwo ==
  ASSUME NEW A \in SUBSET EdgeId, NEW x \in A, NEW y \in A, x # y, NEW z
  PROVE  Cardinality(A) > Cardinality({z})
<1>1. IsFiniteSet(EdgeId)
  BY FS_Interval, MaxEdgeAssumption DEF EdgeId
<1>2. IsFiniteSet(A) BY <1>1, FS_Subset
<1>3. Cardinality(A) \in Nat BY <1>2, FS_CardinalityType
<1>4. Cardinality(A) # 0 BY <1>2, FS_EmptySet
<1>5. Cardinality(A) # 1 BY <1>2, FS_Singleton
<1> QED BY <1>3, <1>4, <1>5, FS_Singleton

------------------------------------------------------------------------------
\* What the removals do when the lists mirror each other

\* removeNode takes away the edges of the node, from whichever list.
LEMMA RemoveNodeEffect ==
  ASSUME IInv, NEW id \in DOMAIN nodes, RemoveNode(id)
  PROVE  /\ nodes' = [n \in DOMAIN nodes \ {id} |-> nodes[n]]
         /\ edge' = [e \in {f \in DOMAIN edge : edge[f].source # id
                                                /\ edge[f].target # id} |-> edge[e]]
         /\ adjacencyList' =
              [n \in DOMAIN nodes \ {id} |->
                 {e \in adjacencyList[n] : edge[e].target # id}]
         /\ reverseAdjacencyList' =
              [n \in DOMAIN nodes \ {id} |->
                 {e \in reverseAdjacencyList[n] : edge[e].source # id}]
<1> DEFINE
      out(n) == {r \in adjacencyList[id] : edge[r].target = n}
      reverse1 == [n \in DOMAIN reverseAdjacencyList |->
                     SpliceIncoming(reverseAdjacencyList[n], out(n))]
      in(n) == {r \in reverse1[id] : edge[r].source = n}
      forward1 == [n \in DOMAIN adjacencyList |->
                     SpliceOutgoing(adjacencyList[n], in(n))]
<1>1. /\ DOMAIN adjacencyList = DOMAIN nodes
      /\ DOMAIN reverseAdjacencyList = DOMAIN nodes
      /\ \A n \in DOMAIN nodes : /\ adjacencyList[n] \subseteq DOMAIN edge
                                 /\ reverseAdjacencyList[n] \subseteq DOMAIN edge
      /\ DOMAIN edge \subseteq EdgeId /\ EdgeId \subseteq Nat
  BY MaxEdgeAssumption DEF IInv, TypeOK, EdgeId
<1>2. ASSUME NEW n \in DOMAIN nodes
      PROVE  reverse1[n] = {e \in reverseAdjacencyList[n] : edge[e].source # id}
  <2>1. ASSUME NEW e \in reverseAdjacencyList[n], edge[e].source = id
        PROVE  e \notin reverse1[n]
    <3> DEFINE A == {f \in reverseAdjacencyList[n] : SameIncoming(f, e) /\ f <= e}
               B == {r \in out(n) : SameIncoming(r, e)}
    <3>1. A \subseteq B
      BY <1>1, <2>1 DEF IInv, ListsMirror, SameIncoming
    <3>2. B \in SUBSET EdgeId BY <1>1
    <3>3. ~ (Cardinality(A) > Cardinality(B)) BY <3>1, <3>2, CountWithin
    <3> QED BY <1>1, <3>3 DEF SpliceIncoming, SpliceOutgoing
  <2>2. ASSUME NEW e \in reverseAdjacencyList[n], edge[e].source # id
        PROVE  e \in reverse1[n]
    <3> DEFINE A == {f \in reverseAdjacencyList[n] : SameIncoming(f, e) /\ f <= e}
               B == {r \in out(n) : SameIncoming(r, e)}
    <3>1. B = {} BY <1>1, <2>2 DEF IInv, ListsMirror, SameIncoming
    <3>2. e \in A
      <4>1. e \in DOMAIN edge BY <1>1
      <4>2. e \in Nat BY <1>1, <4>1
      <4> QED BY <4>2 DEF SameIncoming
    <3>3. A \in SUBSET EdgeId BY <1>1
    <3>4. Cardinality(A) > Cardinality(B) BY <3>1, <3>2, <3>3, CountSome
    <3> QED BY <1>1, <3>4 DEF SpliceIncoming, SpliceOutgoing
  <2>3. reverse1[n] \subseteq reverseAdjacencyList[n] BY <1>1 DEF SpliceIncoming, SpliceOutgoing
  <2> QED BY <2>1, <2>2, <2>3
<1>3. ASSUME NEW n \in DOMAIN nodes \ {id}
      PROVE  forward1[n] = {e \in adjacencyList[n] : edge[e].target # id}
  <2>0. in(n) = {r \in reverseAdjacencyList[id] : edge[r].source = n}
    BY <1>2
  <2>1. ASSUME NEW e \in adjacencyList[n], edge[e].target = id
        PROVE  e \notin forward1[n]
    <3> DEFINE A == {f \in adjacencyList[n] : SameOutgoing(f, e) /\ f <= e}
               B == {r \in in(n) : SameOutgoing(r, e)}
    <3>1. A \subseteq B
      BY <1>1, <2>0, <2>1 DEF IInv, ListsMirror, SameOutgoing
    <3>2. B \in SUBSET EdgeId BY <1>1, <2>0
    <3>3. ~ (Cardinality(A) > Cardinality(B)) BY <3>1, <3>2, CountWithin
    <3> QED BY <1>1, <3>3 DEF SpliceIncoming, SpliceOutgoing
  <2>2. ASSUME NEW e \in adjacencyList[n], edge[e].target # id
        PROVE  e \in forward1[n]
    <3> DEFINE A == {f \in adjacencyList[n] : SameOutgoing(f, e) /\ f <= e}
               B == {r \in in(n) : SameOutgoing(r, e)}
    <3>1. B = {} BY <1>1, <2>0, <2>2 DEF IInv, ListsMirror, SameOutgoing
    <3>2. e \in A
      <4>1. e \in DOMAIN edge BY <1>1
      <4>2. e \in Nat BY <1>1, <4>1
      <4> QED BY <4>2 DEF SameOutgoing
    <3>3. A \in SUBSET EdgeId BY <1>1
    <3>4. Cardinality(A) > Cardinality(B) BY <3>1, <3>2, <3>3, CountSome
    <3> QED BY <1>1, <3>4 DEF SpliceIncoming, SpliceOutgoing
  <2>3. forward1[n] \subseteq adjacencyList[n] BY <1>1 DEF SpliceIncoming, SpliceOutgoing
  <2> QED BY <2>1, <2>2, <2>3
<1>4. /\ nodes' = [n \in DOMAIN nodes \ {id} |-> nodes[n]]
      /\ adjacencyList' = [n \in DOMAIN nodes \ {id} |-> forward1[n]]
      /\ reverseAdjacencyList' = [n \in DOMAIN nodes \ {id} |-> reverse1[n]]
      /\ edge' = ReachableEdges(adjacencyList', reverseAdjacencyList')
  BY <1>1 DEF RemoveNode
<1>5. /\ adjacencyList' = [n \in DOMAIN nodes \ {id} |->
                             {e \in adjacencyList[n] : edge[e].target # id}]
      /\ reverseAdjacencyList' =
           [n \in DOMAIN nodes \ {id} |->
              {e \in reverseAdjacencyList[n] : edge[e].source # id}]
  BY <1>2, <1>3, <1>4
<1>6. (UNION {adjacencyList'[n] : n \in DOMAIN adjacencyList'})
        \cup (UNION {reverseAdjacencyList'[n] : n \in DOMAIN reverseAdjacencyList'})
      = {f \in DOMAIN edge : edge[f].source # id /\ edge[f].target # id}
  BY <1>1, <1>5 DEF IInv, ListsMirror, NoDanglingEdge
<1> QED BY <1>4, <1>5, <1>6 DEF ReachableEdges

\* An edge object leaves both lists and the heap.
TakenAway(e) ==
  /\ edge' = [f \in DOMAIN edge \ {e} |-> edge[f]]
  /\ adjacencyList' = [n \in DOMAIN nodes |-> adjacencyList[n] \ {e}]
  /\ reverseAdjacencyList' = [n \in DOMAIN nodes |-> reverseAdjacencyList[n] \ {e}]

\* removeEdge takes the same object from both lists: the first of its kind in
\* the one is the first of its kind in the other.
LEMMA RemoveEdgeEffect ==
  ASSUME IInv, NEW source, NEW target \in ServiceId, NEW type,
         RemoveEdge(source, target, type)
  PROVE  \E e \in adjacencyList[source] :
           /\ e \in DOMAIN edge /\ edge[e].source = source /\ edge[e].target = target
           /\ source \in DOMAIN nodes
           /\ IsFirst(e, Matching(source, target, type))
           /\ TakenAway(e)
<1>0. PICK e \in adjacencyList[source] :
        /\ IsFirst(e, Matching(source, target, type))
        /\ adjacencyList' = [adjacencyList EXCEPT ![source] = @ \ {e}]
        /\ reverseAdjacencyList' =
             [reverseAdjacencyList EXCEPT ![target] = SpliceIncoming(@, {e})]
        /\ edge' = ReachableEdges(adjacencyList', reverseAdjacencyList')
  BY DEF RemoveEdge
<1>00. source \in DOMAIN adjacencyList BY DEF RemoveEdge
<1>1. /\ DOMAIN adjacencyList = DOMAIN nodes
      /\ DOMAIN reverseAdjacencyList = DOMAIN nodes
      /\ \A n \in DOMAIN nodes : /\ adjacencyList[n] \subseteq DOMAIN edge
                                 /\ reverseAdjacencyList[n] \subseteq DOMAIN edge
      /\ DOMAIN edge \subseteq EdgeId /\ EdgeId \subseteq Nat
  BY MaxEdgeAssumption DEF IInv, TypeOK, EdgeId
<1>2. /\ e \in DOMAIN edge /\ edge[e].source = source
      /\ edge[e].target = target /\ edge[e].type = type
      /\ source \in DOMAIN nodes /\ target \in DOMAIN nodes
  BY <1>0, <1>00, <1>1 DEF IInv, ListsMirror, NoDanglingEdge, IsFirst, Matching
<1>3. SpliceIncoming(reverseAdjacencyList[target], {e})
        = reverseAdjacencyList[target] \ {e}
  <2>1. e \notin SpliceIncoming(reverseAdjacencyList[target], {e})
    <3> DEFINE A == {f \in reverseAdjacencyList[target] : SameIncoming(f, e) /\ f <= e}
               B == {r \in {e} : SameIncoming(r, e)}
    <3>1. ASSUME NEW f \in A PROVE f = e
      <4>1. f \in DOMAIN edge /\ f <= e BY <1>1, <1>2
      <4>2. f \in adjacencyList[source] /\ edge[f].target = target /\ edge[f].type = type
        BY <1>1, <1>2, <4>1 DEF IInv, ListsMirror, SameIncoming
      <4>3. e <= f BY <1>0, <4>2 DEF IsFirst, Matching
      <4>4. e \in Nat /\ f \in Nat BY <1>1, <1>2, <4>1
      <4> QED BY <4>1, <4>3, <4>4
    <3>2. A \subseteq B BY <3>1 DEF SameIncoming
    <3>3. B \in SUBSET EdgeId BY <1>1, <1>2
    <3>4. ~ (Cardinality(A) > Cardinality(B)) BY <3>2, <3>3, CountWithin
    <3> QED BY <3>4 DEF SpliceIncoming, SpliceOutgoing
  <2>2. ASSUME NEW f \in reverseAdjacencyList[target], f # e
        PROVE  f \in SpliceIncoming(reverseAdjacencyList[target], {e})
    <3> DEFINE A == {g \in reverseAdjacencyList[target] : SameIncoming(g, f) /\ g <= f}
               B == {r \in {e} : SameIncoming(r, f)}
    <3>1. f \in DOMAIN edge /\ f \in Nat /\ e \in Nat
      <4>1. f \in DOMAIN edge BY <1>1, <1>2
      <4> QED BY <1>1, <1>2, <4>1
    <3>2. f \in A BY <3>1 DEF SameIncoming
    <3>3. A \in SUBSET EdgeId BY <1>1, <1>2
    <3>4. CASE SameIncoming(e, f)
      <4>1. B = {e} BY <3>4
      <4>2. f \in adjacencyList[source] /\ edge[f].target = target /\ edge[f].type = type
        BY <1>2, <3>1, <3>4 DEF IInv, ListsMirror, SameIncoming
      <4>3. e <= f BY <1>0, <4>2 DEF IsFirst, Matching
      <4>4. e \in A BY <1>2, <3>4, <4>3 DEF IInv, ListsMirror
      <4>5. Cardinality(A) > Cardinality(B)
        BY <2>2, <3>2, <3>3, <4>1, <4>4, CountTwo
      <4> QED BY <4>5 DEF SpliceIncoming, SpliceOutgoing
    <3>5. CASE ~ SameIncoming(e, f)
      <4>1. B = {} BY <3>5
      <4>2. Cardinality(A) > Cardinality(B) BY <3>2, <3>3, <4>1, CountSome
      <4> QED BY <4>2 DEF SpliceIncoming, SpliceOutgoing
    <3> QED BY <3>4, <3>5
  <2>3. SpliceIncoming(reverseAdjacencyList[target], {e})
          \subseteq reverseAdjacencyList[target]
    BY DEF SpliceIncoming, SpliceOutgoing
  <2> QED BY <2>1, <2>2, <2>3
<1>4. adjacencyList' = [n \in DOMAIN nodes |-> adjacencyList[n] \ {e}]
  <2>1. \A n \in DOMAIN nodes : n # source => e \notin adjacencyList[n]
    BY <1>1, <1>2 DEF IInv, ListsMirror
  <2>2. \A n \in DOMAIN nodes : n # source => adjacencyList[n] \ {e} = adjacencyList[n]
    BY <2>1
  <2> QED BY <1>0, <1>1, <1>2, <2>2
<1>5. reverseAdjacencyList' = [n \in DOMAIN nodes |-> reverseAdjacencyList[n] \ {e}]
  <2>1. \A n \in DOMAIN nodes : n # target => e \notin reverseAdjacencyList[n]
    BY <1>1, <1>2 DEF IInv, ListsMirror
  <2>2. \A n \in DOMAIN nodes :
          n # target => reverseAdjacencyList[n] \ {e} = reverseAdjacencyList[n]
    BY <2>1
  <2> QED BY <1>0, <1>1, <1>2, <1>3, <2>2
<1>6. (UNION {adjacencyList'[n] : n \in DOMAIN adjacencyList'})
        \cup (UNION {reverseAdjacencyList'[n] : n \in DOMAIN reverseAdjacencyList'})
      = DOMAIN edge \ {e}
  BY <1>1, <1>4, <1>5 DEF IInv, ListsMirror, NoDanglingEdge
<1>7. edge' = [f \in DOMAIN edge \ {e} |-> edge[f]]
  BY <1>0, <1>6 DEF ReachableEdges
<1>8. TakenAway(e) BY <1>4, <1>5, <1>7 DEF TakenAway
<1> QED BY <1>0, <1>2, <1>8

------------------------------------------------------------------------------
\* Every method preserves the invariant

\* Updates in terms of EdgeId and Nat.
LEMMA Typing ==
  ASSUME IInv
  PROVE  /\ DOMAIN adjacencyList = DOMAIN nodes
         /\ DOMAIN reverseAdjacencyList = DOMAIN nodes
         /\ \A n \in DOMAIN nodes : /\ adjacencyList[n] \subseteq DOMAIN edge
                                    /\ reverseAdjacencyList[n] \subseteq DOMAIN edge
         /\ DOMAIN edge \subseteq EdgeId /\ EdgeId \subseteq Nat
         /\ \A e \in DOMAIN edge : edge[e] \in EdgeRecord
         /\ DOMAIN nodes \subseteq ServiceId
         /\ \A n \in DOMAIN nodes : nodes[n] \in ServiceData
         /\ nodes = [n \in DOMAIN nodes |-> nodes[n]]
  BY MaxEdgeAssumption DEF IInv, TypeOK, EdgeId, NodeMap

LEMMA NodeMapIntro ==
  ASSUME NEW S \in SUBSET ServiceId, NEW f \in [S -> ServiceData]
  PROVE  f \in NodeMap
  BY DEF NodeMap

LEMMA AddNodesInv ==
  ASSUME IInv, NEW new \in NodeMap, AddNodes(new) PROVE IInv'
<1>1. DOMAIN new \subseteq ServiceId /\ new \in [DOMAIN new -> ServiceData]
  BY DEF NodeMap
<1>2. nodes' \in NodeMap
  <2>1. nodes' \in [DOMAIN nodes \cup DOMAIN new -> ServiceData]
    BY <1>1, Typing DEF AddNodes
  <2> QED BY <1>1, <2>1, Typing, NodeMapIntro
<1>3. DOMAIN nodes' = DOMAIN nodes \cup DOMAIN new BY DEF AddNodes
<1>4. TypeOK'
  BY <1>2, <1>3, Typing DEF AddNodes, IInv, TypeOK
<1>5. ListsMirror'
  BY <1>3, Typing DEF AddNodes, IInv, ListsMirror, NoDanglingEdge
<1>6. NoDanglingEdge'
  BY <1>3 DEF AddNodes, IInv, NoDanglingEdge
<1> QED BY <1>4, <1>5, <1>6 DEF IInv

LEMMA UpdateNodeInv ==
  ASSUME IInv, NEW id, NEW data \in ServiceData, UpdateNode(id, data) PROVE IInv'
<1>1. nodes' \in [DOMAIN nodes -> ServiceData] BY Typing DEF UpdateNode
<1>2. nodes' \in NodeMap BY <1>1, Typing, NodeMapIntro
<1>3. DOMAIN nodes' = DOMAIN nodes BY DEF UpdateNode
<1> QED BY <1>2, <1>3 DEF UpdateNode, IInv, TypeOK, ListsMirror, NoDanglingEdge

LEMMA RemoveNodeInv ==
  ASSUME IInv, NEW id, RemoveNode(id) PROVE IInv'
<1>0. id \in DOMAIN nodes BY DEF RemoveNode
<1>1. nodes' = [n \in DOMAIN nodes \ {id} |-> nodes[n]]
  BY <1>0, RemoveNodeEffect
<1>2. edge' = [e \in {f \in DOMAIN edge : edge[f].source # id
                                          /\ edge[f].target # id} |-> edge[e]]
  BY <1>0, RemoveNodeEffect
<1>3. /\ adjacencyList' = [n \in DOMAIN nodes \ {id} |->
                             {e \in adjacencyList[n] : edge[e].target # id}]
      /\ reverseAdjacencyList' =
           [n \in DOMAIN nodes \ {id} |->
              {e \in reverseAdjacencyList[n] : edge[e].source # id}]
  BY <1>0, RemoveNodeEffect
<1>4. nodes' \in NodeMap
  <2>1. nodes' \in [DOMAIN nodes \ {id} -> ServiceData] BY <1>1, Typing
  <2> QED BY <2>1, Typing, NodeMapIntro
<1>5. /\ DOMAIN edge' \subseteq EdgeId
      /\ edge' \in [DOMAIN edge' -> EdgeRecord]
  BY <1>2, Typing
<1>6. ASSUME NEW n \in DOMAIN nodes'
      PROVE  /\ adjacencyList'[n] \subseteq DOMAIN edge'
             /\ reverseAdjacencyList'[n] \subseteq DOMAIN edge'
  BY <1>1, <1>2, <1>3, Typing DEF IInv, ListsMirror
<1>7. TypeOK' BY <1>1, <1>3, <1>4, <1>5, <1>6 DEF TypeOK
<1>8. ListsMirror' BY <1>1, <1>2, <1>3 DEF IInv, ListsMirror
<1>9. NoDanglingEdge' BY <1>1, <1>2 DEF IInv, NoDanglingEdge
<1> QED BY <1>7, <1>8, <1>9 DEF IInv

\* The new objects are newer than every other and fill a range of EdgeId.
LEMMA AddEdgesEffect ==
  ASSUME IInv, NEW source, NEW deps, AddEdges(source, deps)
  PROVE  \E m \in 0 .. MaxEdge, last \in 0 .. MaxEdge :
           \E order \in [m + 1 .. last -> deps] :
             IsNewest(m) /\ PushEdges(NewEdges(source, order))
<1>1. PICK m \in 0 .. MaxEdge : \E last \in m .. MaxEdge :
         /\ IsNewest(m)
         /\ \E order \in [m + 1 .. last -> deps] : PushEdges(NewEdges(source, order))
  BY DEF AddEdges
<1>2. PICK last \in m .. MaxEdge :
         /\ IsNewest(m)
         /\ \E order \in [m + 1 .. last -> deps] : PushEdges(NewEdges(source, order))
  BY <1>1
<1>3. last \in 0 .. MaxEdge BY MaxEdgeAssumption
<1> QED BY <1>2, <1>3

LEMMA AddEdgesInv ==
  ASSUME IInv, NEW source, NEW deps \in SUBSET Reported, AddEdges(source, deps)
  PROVE  IInv'
<1>1. PICK m \in 0 .. MaxEdge, last \in 0 .. MaxEdge :
         \E order \in [m + 1 .. last -> deps] :
           IsNewest(m) /\ PushEdges(NewEdges(source, order))
  BY AddEdgesEffect
<1>2. PICK order \in [m + 1 .. last -> deps] :
         IsNewest(m) /\ PushEdges(NewEdges(source, order))
  BY <1>1
<1> DEFINE new == NewEdges(source, order)
<1>3. PushEdges(new) BY <1>2
<1>4. /\ source \in DOMAIN nodes /\ source \in ServiceId
      /\ UNCHANGED nodes
      /\ \A d \in deps : d.target \in DOMAIN nodes
  BY Typing DEF AddEdges
<1>5. /\ m + 1 .. last \subseteq EdgeId
      /\ \A e \in DOMAIN edge : e \notin m + 1 .. last
  BY <1>2, Typing, MaxEdgeAssumption DEF EdgeId, IsNewest
<1>6. ASSUME NEW e \in m + 1 .. last
      PROVE  /\ new[e] \in EdgeRecord
             /\ new[e].source \in DOMAIN nodes /\ new[e].target \in DOMAIN nodes
  <2>1. order[e] \in deps BY <1>2
  <2>2. /\ order[e].target \in ServiceId /\ order[e].type \in AnyType
        /\ order[e].target \in DOMAIN nodes
    BY <1>4, <2>1 DEF Reported, AnyType
  <2> QED BY <1>2, <1>4, <2>2 DEF EdgeRecord, NewEdges
<1> HIDE DEF new
<1>7. DOMAIN new = m + 1 .. last BY <1>2 DEF new, NewEdges
<1>8. /\ edge' = [e \in DOMAIN edge \cup (m + 1 .. last) |->
                    IF e \in m + 1 .. last THEN new[e] ELSE edge[e]]
      /\ adjacencyList' =
           [n \in DOMAIN nodes |->
              adjacencyList[n] \cup {e \in m + 1 .. last : new[e].source = n}]
      /\ reverseAdjacencyList' =
           [n \in DOMAIN nodes |->
              reverseAdjacencyList[n] \cup {e \in m + 1 .. last : new[e].target = n}]
  BY <1>3, <1>7, Typing DEF PushEdges
<1>9. TypeOK'
  <2>1. DOMAIN edge' \subseteq EdgeId BY <1>5, <1>8, Typing
  <2>2. edge' \in [DOMAIN edge' -> EdgeRecord] BY <1>6, <1>8, Typing
  <2>3. adjacencyList' \in [DOMAIN nodes -> SUBSET DOMAIN edge']
    BY <1>8, Typing
  <2>4. reverseAdjacencyList' \in [DOMAIN nodes -> SUBSET DOMAIN edge']
    BY <1>8, Typing
  <2> QED BY <1>4, <2>1, <2>2, <2>3, <2>4 DEF IInv, TypeOK
<1>10. ListsMirror'
  <2> SUFFICES ASSUME NEW e \in DOMAIN edge', NEW n \in DOMAIN nodes
               PROVE  /\ e \in adjacencyList'[n] <=> edge'[e].source = n
                      /\ e \in reverseAdjacencyList'[n] <=> edge'[e].target = n
    BY <1>4 DEF ListsMirror
  <2>1. CASE e \in m + 1 .. last
    <3>1. e \notin adjacencyList[n] /\ e \notin reverseAdjacencyList[n]
      BY <1>5, <2>1, Typing
    <3> QED BY <1>8, <2>1, <3>1
  <2>2. CASE e \in DOMAIN edge
    BY <1>5, <1>8, <2>2 DEF IInv, ListsMirror
  <2> QED BY <1>8, <2>1, <2>2
<1>11. NoDanglingEdge'
  BY <1>4, <1>6, <1>8 DEF IInv, NoDanglingEdge
<1> QED BY <1>9, <1>10, <1>11 DEF IInv

LEMMA UpdateEdgeInv ==
  ASSUME IInv, NEW source, NEW target, NEW oldType, NEW type \in AnyType,
         UpdateEdge(source, target, oldType, type)
  PROVE  IInv'
<1>1. PICK e \in DOMAIN edge : edge' = [edge EXCEPT ![e].type = type]
  BY Typing DEF UpdateEdge
<1>2. UNCHANGED <<nodes, adjacencyList, reverseAdjacencyList>> BY DEF UpdateEdge
<1>3. /\ DOMAIN edge' = DOMAIN edge
      /\ \A f \in DOMAIN edge : /\ edge'[f].source = edge[f].source
                                /\ edge'[f].target = edge[f].target
                                /\ edge'[f] \in EdgeRecord
  BY <1>1, Typing DEF EdgeRecord
<1>4. edge' \in [DOMAIN edge -> EdgeRecord] BY <1>1, <1>3
<1> QED BY <1>2, <1>3, <1>4 DEF IInv, TypeOK, ListsMirror, NoDanglingEdge

LEMMA RemoveEdgeInv ==
  ASSUME IInv, NEW source, NEW target \in ServiceId, NEW type,
         RemoveEdge(source, target, type)
  PROVE  IInv'
<1>0. PICK e \in adjacencyList[source] : TakenAway(e)
  BY RemoveEdgeEffect
<1>1. TakenAway(e) BY <1>0
<1> USE DEF TakenAway
<1>2. UNCHANGED nodes BY DEF RemoveEdge
<1>4. TypeOK' BY <1>1, <1>2, Typing DEF IInv, TypeOK
<1>5. ListsMirror' BY <1>1, <1>2 DEF IInv, ListsMirror
<1>6. NoDanglingEdge' BY <1>1, <1>2 DEF IInv, NoDanglingEdge
<1> QED BY <1>4, <1>5, <1>6 DEF IInv

LEMMA ImportGraphInv ==
  ASSUME NEW snapshot \in Snapshots, ImportGraph(snapshot) PROVE IInv'
<1>1. PICK n \in 0 .. Len(snapshot.edges) :
        /\ \A i \in 1 .. n : Accepted(snapshot, i)
        /\ nodes' = snapshot.nodes
        /\ edge' = [i \in 1 .. n |-> snapshot.edges[i]]
        /\ adjacencyList' = [s \in DOMAIN nodes' |->
                               {i \in 1 .. n : snapshot.edges[i].source = s}]
        /\ reverseAdjacencyList' = [s \in DOMAIN nodes' |->
                                      {i \in 1 .. n : snapshot.edges[i].target = s}]
  BY DEF ImportGraph
<1>2. /\ snapshot.nodes \in NodeMap
      /\ snapshot.edges \in Seq(EdgeRecord)
      /\ Len(snapshot.edges) \in Nat /\ Len(snapshot.edges) <= MaxEdge
  <2>1. /\ snapshot.nodes \in NodeMap
        /\ snapshot.edges \in Seq(EdgeRecord)
        /\ Len(snapshot.edges) <= MaxEdge
    BY SnapshotsAssumption
  <2>2. Len(snapshot.edges) \in Nat BY <2>1, LenProperties
  <2> QED BY <2>1, <2>2
<1>3. 1 .. n \subseteq EdgeId BY <1>2, MaxEdgeAssumption DEF EdgeId
<1>4. \A i \in 1 .. n : snapshot.edges[i] \in EdgeRecord BY <1>2
<1>5. TypeOK' BY <1>1, <1>2, <1>3, <1>4 DEF TypeOK
<1>6. ListsMirror' BY <1>1 DEF ListsMirror
<1>7. NoDanglingEdge' BY <1>1 DEF NoDanglingEdge, Accepted
<1> QED BY <1>5, <1>6, <1>7 DEF IInv

LEMMA InitInv == Init => IInv
<1> SUFFICES ASSUME Init PROVE IInv OBVIOUS
<1>1. /\ DOMAIN nodes = {} /\ nodes \in [{} -> ServiceData] /\ DOMAIN edge = {}
      /\ edge \in [{} -> EdgeRecord]
      /\ adjacencyList \in [{} -> SUBSET {}]
      /\ reverseAdjacencyList \in [{} -> SUBSET {}]
  BY DEF Init
<1>2. nodes \in NodeMap BY <1>1, NodeMapIntro
<1> QED BY <1>1, <1>2 DEF IInv, TypeOK, ListsMirror, NoDanglingEdge

LEMMA NextInv == IInv /\ [Next]_vars => IInv'
<1> SUFFICES ASSUME IInv, [Next]_vars PROVE IInv' OBVIOUS
<1>1. ASSUME NEW new \in NodeMap, AddNodes(new) PROVE IInv'
  BY <1>1, AddNodesInv
<1>2. ASSUME NEW id \in ServiceId, NEW data \in ServiceData, UpdateNode(id, data)
      PROVE  IInv'
  BY <1>2, UpdateNodeInv
<1>3. ASSUME NEW id \in ServiceId, RemoveNode(id) PROVE IInv'
  BY <1>3, RemoveNodeInv
<1>4. ASSUME NEW s \in ServiceId, NEW deps \in SUBSET Reported, AddEdges(s, deps)
      PROVE  IInv'
  BY <1>4, AddEdgesInv
<1>5. ASSUME NEW s \in ServiceId, NEW t \in ServiceId, NEW old \in DependencyType,
             NEW type \in AnyType, UpdateEdge(s, t, old, type)
      PROVE  IInv'
  BY <1>5, UpdateEdgeInv
<1>6. ASSUME NEW s \in ServiceId, NEW t \in ServiceId, NEW type \in DependencyType,
             RemoveEdge(s, t, type)
      PROVE  IInv'
  BY <1>6, RemoveEdgeInv
<1>7. ASSUME NEW snapshot \in Snapshots, ImportGraph(snapshot) PROVE IInv'
  BY <1>7, ImportGraphInv
<1>8. CASE UNCHANGED vars
  BY <1>8 DEF vars, IInv, TypeOK, ListsMirror, NoDanglingEdge
<1> QED BY <1>1, <1>2, <1>3, <1>4, <1>5, <1>6, <1>7, <1>8 DEF Next

\* The three maps keep their shape under every sequence of calls.
THEOREM TypeCorrect == Spec => []TypeOK
<1>1. IInv => TypeOK BY DEF IInv
<1> QED BY <1>1, InitInv, NextInv, PTL DEF Spec

\* The forward and the reverse list never disagree about an edge, whatever
\* calls are made: removals that search the other list by fields find the
\* object they removed from the first.
THEOREM ListsAgree == Spec => []ListsMirror
<1>1. IInv => ListsMirror BY DEF IInv
<1> QED BY <1>1, InitInv, NextInv, PTL DEF Spec

\* No edge outlives the registration of either of its services.
THEOREM EdgesJoinRegisteredServices == Spec => []NoDanglingEdge
<1>1. IInv => NoDanglingEdge BY DEF IInv
<1> QED BY <1>1, InitInv, NextInv, PTL DEF Spec

------------------------------------------------------------------------------
\* Both lists implement the dependency graph

\* The graph as the edge objects tell it: what either view shows.
Entered(e) == [id |-> e, source |-> edge[e].source, target |-> edge[e].target,
               type |-> edge[e].type]

EdgesView == {Entered(e) : e \in DOMAIN edge}

Graph == INSTANCE DependencyGraph
           WITH services <- DOMAIN nodes, dependencies <- EdgesView

LEMMA ViewsAgree == IInv => ForwardView = EdgesView /\ ReverseView = EdgesView
<1> SUFFICES ASSUME IInv
             PROVE  ForwardView = EdgesView /\ ReverseView = EdgesView
  OBVIOUS
<1>1. ForwardView \subseteq EdgesView
  <2> SUFFICES ASSUME NEW s \in DOMAIN nodes, NEW e \in adjacencyList[s]
               PROVE  [id |-> e, source |-> s, target |-> edge[e].target,
                       type |-> edge[e].type] \in EdgesView
    BY Typing DEF ForwardView
  <2>1. e \in DOMAIN edge /\ edge[e].source = s BY Typing DEF IInv, ListsMirror
  <2> QED BY <2>1 DEF EdgesView, Entered
<1>2. EdgesView \subseteq ForwardView
  <2> SUFFICES ASSUME NEW e \in DOMAIN edge PROVE Entered(e) \in ForwardView
    BY DEF EdgesView
  <2>1. edge[e].source \in DOMAIN nodes /\ e \in adjacencyList[edge[e].source]
    BY DEF IInv, ListsMirror, NoDanglingEdge
  <2> QED BY <2>1, Typing DEF ForwardView, Entered
<1>3. ReverseView \subseteq EdgesView
  <2> SUFFICES ASSUME NEW t \in DOMAIN nodes, NEW e \in reverseAdjacencyList[t]
               PROVE  [id |-> e, source |-> edge[e].source, target |-> t,
                       type |-> edge[e].type] \in EdgesView
    BY Typing DEF ReverseView
  <2>1. e \in DOMAIN edge /\ edge[e].target = t BY Typing DEF IInv, ListsMirror
  <2> QED BY <2>1 DEF EdgesView, Entered
<1>4. EdgesView \subseteq ReverseView
  <2> SUFFICES ASSUME NEW e \in DOMAIN edge PROVE Entered(e) \in ReverseView
    BY DEF EdgesView
  <2>1. edge[e].target \in DOMAIN nodes /\ e \in reverseAdjacencyList[edge[e].target]
    BY DEF IInv, ListsMirror, NoDanglingEdge
  <2> QED BY <2>1, Typing DEF ReverseView, Entered
<1> QED BY <1>1, <1>2, <1>3, <1>4

LEMMA AddNodesStep ==
  ASSUME IInv, NEW new \in NodeMap, AddNodes(new)
  PROVE  Graph!Register(DOMAIN nodes' \ DOMAIN nodes)
<1>1. DOMAIN nodes' = DOMAIN nodes \cup DOMAIN new /\ edge' = edge
  BY DEF AddNodes
<1>2. EdgesView' = EdgesView BY <1>1 DEF EdgesView, Entered
<1> QED BY <1>1, <1>2 DEF Graph!Register

LEMMA RemoveNodeStep ==
  ASSUME IInv, NEW id, RemoveNode(id)
  PROVE  id \in DOMAIN nodes /\ Graph!Deregister(id)
<1>0. id \in DOMAIN nodes BY DEF RemoveNode
<1>1. DOMAIN nodes' = DOMAIN nodes \ {id} BY <1>0, RemoveNodeEffect
<1>2. edge' = [e \in {f \in DOMAIN edge : edge[f].source # id
                                          /\ edge[f].target # id} |-> edge[e]]
  BY <1>0, RemoveNodeEffect
<1>3. EdgesView' = {d \in EdgesView : ~ Graph!Touches(d, id)}
  BY <1>2 DEF EdgesView, Entered, Graph!Touches
<1> QED BY <1>0, <1>1, <1>3 DEF Graph!Deregister

LEMMA RemoveEdgeStep ==
  ASSUME IInv, NEW source, NEW target \in ServiceId, NEW type,
         RemoveEdge(source, target, type)
  PROVE  \E d \in EdgesView : Graph!Undepend(d)
<1>1. PICK e \in adjacencyList[source] :
        /\ e \in DOMAIN edge /\ edge[e].source = source /\ edge[e].target = target
        /\ source \in DOMAIN nodes
        /\ IsFirst(e, Matching(source, target, type))
        /\ TakenAway(e)
  BY RemoveEdgeEffect
<1>2. UNCHANGED DOMAIN nodes BY DEF RemoveEdge
<1>3. EdgesView' = EdgesView \ {Entered(e)}
  BY <1>1 DEF TakenAway, EdgesView, Entered
<1>4. Graph!Oldest(Entered(e))
  BY <1>1 DEF Graph!Oldest, Graph!SameKey, EdgesView, Entered, IsFirst, Matching,
              IInv, ListsMirror
<1> QED BY <1>1, <1>2, <1>3, <1>4 DEF Graph!Undepend, EdgesView

LEMMA UpdateEdgeStep ==
  ASSUME IInv, NEW source, NEW target, NEW oldType, NEW type \in AnyType,
         UpdateEdge(source, target, oldType, type)
  PROVE  \E d \in EdgesView : Graph!Retype(d, type)
<1>1. PICK e \in adjacencyList[source] :
        /\ IsFirst(e, Matching(source, target, oldType))
        /\ edge' = [edge EXCEPT ![e].type = type]
  BY DEF UpdateEdge
<1>2. source \in DOMAIN nodes /\ UNCHANGED nodes BY Typing DEF UpdateEdge
<1>3. e \in DOMAIN edge /\ edge[e].source = source
  BY <1>1, <1>2, Typing DEF IInv, ListsMirror
<1>4. EdgesView' = (EdgesView \ {Entered(e)}) \cup {[Entered(e) EXCEPT !.type = type]}
  <2>1. /\ DOMAIN edge' = DOMAIN edge
        /\ Entered(e)' = [Entered(e) EXCEPT !.type = type]
        /\ \A f \in DOMAIN edge : f # e => Entered(f)' = Entered(f)
    BY <1>1, <1>3, Typing DEF Entered, EdgeRecord
  <2>2. \A f \in DOMAIN edge : f # e => Entered(f) # Entered(e)
    BY DEF Entered
  <2> QED BY <1>3, <2>1, <2>2 DEF EdgesView
<1>5. Graph!Oldest(Entered(e))
  BY <1>1, <1>2, <1>3 DEF Graph!Oldest, Graph!SameKey, EdgesView, Entered, IsFirst,
                          Matching, IInv, ListsMirror
<1> QED BY <1>2, <1>3, <1>4, <1>5 DEF Graph!Retype, EdgesView

LEMMA AddEdgesStep ==
  ASSUME IInv, NEW source, NEW deps \in SUBSET Reported, AddEdges(source, deps)
  PROVE  Graph!Depend(EdgesView' \ EdgesView)
<1>1. PICK m \in 0 .. MaxEdge, last \in 0 .. MaxEdge :
         \E order \in [m + 1 .. last -> deps] :
           IsNewest(m) /\ PushEdges(NewEdges(source, order))
  BY AddEdgesEffect
<1>2. PICK order \in [m + 1 .. last -> deps] :
         IsNewest(m) /\ PushEdges(NewEdges(source, order))
  BY <1>1
<1> DEFINE new == NewEdges(source, order)
<1>3. /\ source \in DOMAIN nodes
      /\ UNCHANGED nodes
      /\ \A d \in deps : /\ d.target \in DOMAIN nodes
                         /\ Matching(source, d.target, d.type) = {}
  BY DEF AddEdges
<1>4. /\ DOMAIN new = m + 1 .. last
      /\ \A x \in DOMAIN new : /\ new[x].source = source
                               /\ new[x].target \in DOMAIN nodes
                               /\ Matching(source, new[x].target, new[x].type) = {}
  BY <1>2, <1>3 DEF NewEdges
<1>5. \A e \in DOMAIN edge, x \in DOMAIN new : e < x
  <2> SUFFICES ASSUME NEW e \in DOMAIN edge, NEW x \in DOMAIN new PROVE e < x
    OBVIOUS
  <2>1. e \in Nat /\ e <= m BY <1>2, Typing DEF IsNewest
  <2>2. x \in Nat /\ m < x BY <1>4
  <2> QED BY <2>1, <2>2
<1>51. \A e \in DOMAIN edge : e \notin DOMAIN new
  <2> SUFFICES ASSUME NEW e \in DOMAIN edge, e \in DOMAIN new PROVE FALSE
    OBVIOUS
  <2>1. e \in Nat /\ e < e BY <1>5, Typing
  <2> QED BY <2>1
<1>6. edge' = [e \in DOMAIN edge \cup DOMAIN new |->
                 IF e \in DOMAIN new THEN new[e] ELSE edge[e]]
  BY <1>2 DEF PushEdges
<1> HIDE DEF new
<1> DEFINE added == {Entered(x)' : x \in DOMAIN new}
<1>7. EdgesView' = EdgesView \cup added
  <2>1. \A e \in DOMAIN edge : Entered(e)' = Entered(e)
    BY <1>51, <1>6 DEF Entered
  <2>2. DOMAIN edge' = DOMAIN edge \cup DOMAIN new BY <1>6
  <2> QED BY <2>1, <2>2 DEF EdgesView
<1>8. ASSUME NEW d \in added
      PROVE  /\ d.source \in DOMAIN nodes /\ d.target \in DOMAIN nodes
             /\ \A e \in EdgesView : ~ Graph!SameKey(d, e) /\ e.id < d.id
  <2>1. PICK x \in DOMAIN new : d = Entered(x)' OBVIOUS
  <2>2. d = [id |-> x, source |-> source, target |-> new[x].target,
             type |-> new[x].type]
    BY <1>4, <1>6, <2>1 DEF Entered
  <2>3. ASSUME NEW e \in DOMAIN edge
        PROVE  ~ Graph!SameKey(d, Entered(e)) /\ Entered(e).id < d.id
    <3>1. e < x BY <1>5
    <3>2. edge[e].source = source => e \in adjacencyList[source]
      BY <1>3 DEF IInv, ListsMirror
    <3>3. ~ (/\ edge[e].source = source /\ edge[e].target = new[x].target
             /\ edge[e].type = new[x].type)
      BY <1>4, <3>2 DEF Matching
    <3> QED BY <2>2, <3>1, <3>3 DEF Graph!SameKey, Entered
  <2> QED BY <1>3, <1>4, <2>2, <2>3 DEF EdgesView
<1> HIDE DEF added
<1>9. EdgesView' \ EdgesView \subseteq added BY <1>7
<1>10. EdgesView' = EdgesView \cup (EdgesView' \ EdgesView) BY <1>7
<1> QED BY <1>3, <1>8, <1>9, <1>10 DEF Graph!Depend

LEMMA ImportGraphStep ==
  ASSUME NEW snapshot \in Snapshots, ImportGraph(snapshot)
  PROVE  Graph!Load(snapshot)
<1>1. PICK n \in 0 .. Len(snapshot.edges) :
        /\ n < Len(snapshot.edges) => ~ Accepted(snapshot, n + 1)
        /\ nodes' = snapshot.nodes
        /\ edge' = [i \in 1 .. n |-> snapshot.edges[i]]
  BY DEF ImportGraph
<1>2. snapshot.edges \in Seq(EdgeRecord) BY SnapshotsAssumption
<1>3. /\ Len(snapshot.edges) \in Nat
      /\ DOMAIN snapshot.edges = 1 .. Len(snapshot.edges)
      /\ \A i \in DOMAIN snapshot.edges : snapshot.edges[i] \in EdgeRecord
  BY <1>2, LenProperties
<1>4. EdgesView' = {Graph!Entry(snapshot, i) : i \in 1 .. n}
  BY <1>1 DEF EdgesView, Entered, Graph!Entry
<1>5. 1 .. n \subseteq DOMAIN snapshot.edges BY <1>3
<1>6. ASSUME Graph!Loadable(snapshot) PROVE n = Len(snapshot.edges)
  <2> SUFFICES ASSUME n < Len(snapshot.edges) PROVE FALSE BY <1>3
  <2>1. n + 1 \in DOMAIN snapshot.edges BY <1>3
  <2>2. \A j \in 1 .. (n + 1) - 1 : snapshot.edges[j] # snapshot.edges[n + 1]
    <3> SUFFICES ASSUME NEW j \in 1 .. (n + 1) - 1,
                        snapshot.edges[j] = snapshot.edges[n + 1]
                 PROVE  FALSE
      OBVIOUS
    <3>1. j \in DOMAIN snapshot.edges /\ j # n + 1 BY <1>3
    <3> QED BY <1>6, <2>1, <3>1 DEF Graph!Loadable, Graph!SameKey
  <2>3. Accepted(snapshot, n + 1)
    BY <1>6, <2>1, <2>2 DEF Accepted, Graph!Loadable
  <2> QED BY <1>1, <2>3
<1> QED BY <1>1, <1>3, <1>4, <1>5, <1>6 DEF Graph!Load

LEMMA InitGraph == Init => Graph!Init
  BY DEF Init, Graph!Init, EdgesView

LEMMA NextGraph == IInv /\ [Next]_vars => [Graph!Next]_(Graph!vars)
<1> SUFFICES ASSUME IInv, [Next]_vars PROVE [Graph!Next]_(Graph!vars) OBVIOUS
<1>1. ASSUME NEW new \in NodeMap, AddNodes(new) PROVE Graph!Next
  BY <1>1, AddNodesStep DEF Graph!Next
<1>2. ASSUME NEW id \in ServiceId, NEW data \in ServiceData, UpdateNode(id, data)
      PROVE  UNCHANGED Graph!vars
  <2>1. DOMAIN nodes' = DOMAIN nodes /\ edge' = edge BY <1>2 DEF UpdateNode
  <2> QED BY <2>1 DEF Graph!vars, EdgesView, Entered
<1>3. ASSUME NEW id \in ServiceId, RemoveNode(id) PROVE Graph!Next
  BY <1>3, RemoveNodeStep DEF Graph!Next
<1>4. ASSUME NEW s \in ServiceId, NEW deps \in SUBSET Reported, AddEdges(s, deps)
      PROVE  Graph!Next
  BY <1>4, AddEdgesStep DEF Graph!Next
<1>5. ASSUME NEW s \in ServiceId, NEW t \in ServiceId, NEW old \in DependencyType,
             NEW type \in AnyType, UpdateEdge(s, t, old, type)
      PROVE  Graph!Next
  BY <1>5, UpdateEdgeStep DEF Graph!Next, Graph!AnyType, AnyType
<1>6. ASSUME NEW s \in ServiceId, NEW t \in ServiceId, NEW type \in DependencyType,
             RemoveEdge(s, t, type)
      PROVE  Graph!Next
  BY <1>6, RemoveEdgeStep DEF Graph!Next
<1>7. ASSUME NEW snapshot \in Snapshots, ImportGraph(snapshot) PROVE Graph!Next
  BY <1>7, ImportGraphStep DEF Graph!Next
<1>8. CASE UNCHANGED vars
  BY <1>8 DEF vars, Graph!vars, EdgesView, Entered
<1> QED BY <1>1, <1>2, <1>3, <1>4, <1>5, <1>6, <1>7, <1>8 DEF Next

\* Every behaviour of GraphService, read through its forward lists, is one of
\* the dependency graph: removals are exact, equal dependencies go oldest
\* first, and an import that stops part of the way loads no dependency twice.
THEOREM ForwardImplementsGraph == Spec => ForwardListsImplementGraph
<1> DEFINE Agree == ForwardView = EdgesView
<1>1. IInv => Agree BY ViewsAgree
<1>2. IInv /\ Graph!Init => ForwardGraph!Init
  BY <1>1 DEF Graph!Init, ForwardGraph!Init
<1>3. Agree /\ Agree' /\ [Graph!Next]_(Graph!vars)
      => [ForwardGraph!Next]_(ForwardGraph!vars)
  <2> SUFFICES ASSUME ForwardView = EdgesView, ForwardView' = EdgesView', [Graph!Next]_(Graph!vars)
               PROVE  [ForwardGraph!Next]_(ForwardGraph!vars)
    OBVIOUS
  <2>1. \A new : Graph!Register(new) => ForwardGraph!Register(new)
    BY DEF Graph!Register, ForwardGraph!Register
  <2>2. \A s : Graph!Deregister(s) => ForwardGraph!Deregister(s)
    BY DEF Graph!Deregister, ForwardGraph!Deregister, Graph!Touches, ForwardGraph!Touches
  <2>3. \A new : Graph!Depend(new) => ForwardGraph!Depend(new)
    BY DEF Graph!Depend, ForwardGraph!Depend, Graph!SameKey, ForwardGraph!SameKey
  <2>4. \A d : Graph!Oldest(d) => ForwardGraph!Oldest(d)
    BY DEF Graph!Oldest, ForwardGraph!Oldest, Graph!SameKey, ForwardGraph!SameKey
  <2>5. \A d : Graph!Undepend(d) => ForwardGraph!Undepend(d)
    BY <2>4 DEF Graph!Undepend, ForwardGraph!Undepend
  <2>6. \A d, type : Graph!Retype(d, type) => ForwardGraph!Retype(d, type)
    BY <2>4 DEF Graph!Retype, ForwardGraph!Retype
  <2>7. \A snapshot : Graph!Load(snapshot) => ForwardGraph!Load(snapshot)
    <3>1. \A snapshot : Graph!Loadable(snapshot) <=> ForwardGraph!Loadable(snapshot)
      BY DEF Graph!Loadable, ForwardGraph!Loadable, Graph!SameKey, ForwardGraph!SameKey
    <3>2. \A snapshot, i : Graph!Entry(snapshot, i) = ForwardGraph!Entry(snapshot, i)
      BY DEF Graph!Entry, ForwardGraph!Entry
    <3>3. \A snapshot : {Graph!Entry(snapshot, i) : i \in DOMAIN snapshot.edges}
                          = {ForwardGraph!Entry(snapshot, i) : i \in DOMAIN snapshot.edges}
      BY <3>2
    <3> QED BY <3>1, <3>3 DEF Graph!Load, ForwardGraph!Load
  <2>8. UNCHANGED Graph!vars => UNCHANGED ForwardGraph!vars
    BY DEF Graph!vars, ForwardGraph!vars
  <2>9. Graph!Next => ForwardGraph!Next
    BY <2>1, <2>2, <2>3, <2>5, <2>6, <2>7
    DEF Graph!Next, ForwardGraph!Next, Graph!AnyType, ForwardGraph!AnyType
  <2> QED BY <2>8, <2>9
<1> HIDE DEF Agree
<1> QED
  BY <1>1, <1>2, <1>3, InitInv, NextInv, InitGraph, NextGraph, PTL
  DEF Spec, ForwardListsImplementGraph, ForwardGraph!Spec

\* The same, read through the reverse lists.
THEOREM ReverseImplementsGraph == Spec => ReverseListsImplementGraph
<1> DEFINE Agree == ReverseView = EdgesView
<1>1. IInv => Agree BY ViewsAgree
<1>2. IInv /\ Graph!Init => ReverseGraph!Init
  BY <1>1 DEF Graph!Init, ReverseGraph!Init
<1>3. Agree /\ Agree' /\ [Graph!Next]_(Graph!vars)
      => [ReverseGraph!Next]_(ReverseGraph!vars)
  <2> SUFFICES ASSUME ReverseView = EdgesView, ReverseView' = EdgesView', [Graph!Next]_(Graph!vars)
               PROVE  [ReverseGraph!Next]_(ReverseGraph!vars)
    OBVIOUS
  <2>1. \A new : Graph!Register(new) => ReverseGraph!Register(new)
    BY DEF Graph!Register, ReverseGraph!Register
  <2>2. \A s : Graph!Deregister(s) => ReverseGraph!Deregister(s)
    BY DEF Graph!Deregister, ReverseGraph!Deregister, Graph!Touches, ReverseGraph!Touches
  <2>3. \A new : Graph!Depend(new) => ReverseGraph!Depend(new)
    BY DEF Graph!Depend, ReverseGraph!Depend, Graph!SameKey, ReverseGraph!SameKey
  <2>4. \A d : Graph!Oldest(d) => ReverseGraph!Oldest(d)
    BY DEF Graph!Oldest, ReverseGraph!Oldest, Graph!SameKey, ReverseGraph!SameKey
  <2>5. \A d : Graph!Undepend(d) => ReverseGraph!Undepend(d)
    BY <2>4 DEF Graph!Undepend, ReverseGraph!Undepend
  <2>6. \A d, type : Graph!Retype(d, type) => ReverseGraph!Retype(d, type)
    BY <2>4 DEF Graph!Retype, ReverseGraph!Retype
  <2>7. \A snapshot : Graph!Load(snapshot) => ReverseGraph!Load(snapshot)
    <3>1. \A snapshot : Graph!Loadable(snapshot) <=> ReverseGraph!Loadable(snapshot)
      BY DEF Graph!Loadable, ReverseGraph!Loadable, Graph!SameKey, ReverseGraph!SameKey
    <3>2. \A snapshot, i : Graph!Entry(snapshot, i) = ReverseGraph!Entry(snapshot, i)
      BY DEF Graph!Entry, ReverseGraph!Entry
    <3>3. \A snapshot : {Graph!Entry(snapshot, i) : i \in DOMAIN snapshot.edges}
                          = {ReverseGraph!Entry(snapshot, i) : i \in DOMAIN snapshot.edges}
      BY <3>2
    <3> QED BY <3>1, <3>3 DEF Graph!Load, ReverseGraph!Load
  <2>8. UNCHANGED Graph!vars => UNCHANGED ReverseGraph!vars
    BY DEF Graph!vars, ReverseGraph!vars
  <2>9. Graph!Next => ReverseGraph!Next
    BY <2>1, <2>2, <2>3, <2>5, <2>6, <2>7
    DEF Graph!Next, ReverseGraph!Next, Graph!AnyType, ReverseGraph!AnyType
  <2> QED BY <2>8, <2>9
<1> HIDE DEF Agree
<1> QED
  BY <1>1, <1>2, <1>3, InitInv, NextInv, InitGraph, NextGraph, PTL
  DEF Spec, ReverseListsImplementGraph, ReverseGraph!Spec

==============================================================================
