---------------------------- MODULE GraphQueries -----------------------------
(***************************************************************************)
(* The reading half of GraphService, and the QueryController in front of   *)
(* it (apps/topology-service/src/query/query.controller.ts).  A query runs *)
(* to its end without an await, so it is a function of one state of        *)
(* TopologyGraph.                                                          *)
(*                                                                         *)
(* An adjacency list is read as the sequence of its edges, oldest first.   *)
(* The order of the keys of a Map is one fixed order: no answer is right   *)
(* in one order and wrong in another.  null is the absence of an answer,   *)
(* the empty set.                                                          *)
(***************************************************************************)
EXTENDS TopologyGraph, Lists, SequencesExt

CONSTANTS DefaultDepth,   \* options.maxDepth || 10
          DefaultRadius,  \* query.maxDepth || 3
          AnyFilter       \* no typeFilter in the query

ASSUME QueriesAssumption ==
  IsFiniteSet(ServiceId) /\ DefaultDepth \in Nat /\ DefaultRadius \in Nat

Keys == SetToSeq(DOMAIN nodes)

Edges(list) == Keep([e \in EdgeId |-> e], list)

GetEdges(s) == Edges(adjacencyList[s])

GetAllEdges ==
  LET keys == Keys
  IN  FlattenSeq([i \in DOMAIN keys |-> GetEdges(keys[i])])

Passing(list, filter) == Edges({e \in list : filter \in {AnyFilter, edge[e].type}})

\* Mutant: the type filter is not applied to incoming edges.
GetReverseDependenciesUnfiltered(s, filter) ==
  LET list == Edges(reverseAdjacencyList[s])
  IN  [i \in DOMAIN list |-> edge[list[i]].source]

GetDirectDependencies(s, filter) ==
  LET list == Passing(adjacencyList[s], filter)
  IN  [i \in DOMAIN list |-> edge[list[i]].target]

GetReverseDependencies(s, filter) ==
  LET list == Passing(reverseAdjacencyList[s], filter)
  IN  [i \in DOMAIN list |-> edge[list[i]].source]

------------------------------------------------------------------------------
\* Breadth-first walks

\* Mutant: the limit excludes the services at maxDepth.
TooDeepByOne(depth, maxDepth) == depth >= maxDepth

TooDeep(depth, maxDepth) == depth > maxDepth

Item(ids) == [id : ids, depth : Nat]

\* The variables of a loop that marks the services in ids with their depth: the
\* depth of a service says nothing before it is visited.
Marking(ids) ==
  [queue : Seq(Item(ids)), visited : SUBSET ids, depth : [ids -> Nat]]

AtStart(ids, s, visited) ==
  [queue |-> <<[id |-> s, depth |-> 0]>>, visited |-> visited,
   depth |-> [n \in ids |-> 0]]

\* The entries for the services in list that a loop pushes.
Items(list, depth) == [i \in DOMAIN list |-> [id |-> list[i], depth |-> depth]]

\* One round of the loop of both transitive queries: next gives the neighbours in
\* order, and a service is marked when it is taken from the queue.  The start
\* never is.
Shift(next, start, maxDepth, st) ==
  LET id == Head(st.queue).id
      depth == Head(st.queue).depth
      seen == st.visited \cup ({id} \ {start})
  IN  IF TooDeep(depth, maxDepth) \/ id \in st.visited
      THEN [st EXCEPT !.queue = Tail(@)]
      ELSE [queue |-> Tail(st.queue) \o Items(Keep(next[id], DOMAIN next \ seen), depth + 1),
            visited |-> seen,
            depth |-> Put(st.depth, {id}, depth)]

WalkFrom(next, s, maxDepth) ==
  LET loop[st \in Marking(DOMAIN next)] ==
        IF st.queue = << >> THEN [n \in st.visited |-> st.depth[n]]
        ELSE loop[Shift(next, s, maxDepth, st)]
  IN  loop[AtStart(DOMAIN next, s, {})]

GetTransitiveDependencies(s, maxDepth, filter) ==
  WalkFrom([n \in DOMAIN nodes |-> GetDirectDependencies(n, filter)], s, maxDepth)

GetTransitiveReverseDependencies(s, maxDepth, filter) ==
  WalkFrom([n \in DOMAIN nodes |-> GetReverseDependencies(n, filter)], s, maxDepth)

CalculateBlastRadius(s, maxDepth) ==
  LET affected == DOMAIN GetTransitiveDependencies(s, maxDepth, AnyFilter)
      affectedBy == DOMAIN GetTransitiveReverseDependencies(s, maxDepth, AnyFilter)
  IN  [affected |-> affected, affectedBy |-> affectedBy,
       total |-> Cardinality(affected) + Cardinality(affectedBy)]

\* Mutant: the path is rebuilt without its source.
RebuiltWithoutSource(source, path) == path

Rebuilt(source, path) == <<source>> \o path

\* The services from the one behind source to target, by the parents.
Ancestry(parent, source, target) ==
  LET ids == DOMAIN parent
      loop[st \in [node : ids, path : Seq(ids)]] ==
        IF st.node = source THEN st.path
        ELSE loop[[node |-> parent[st.node], path |-> <<st.node>> \o st.path]]
  IN  loop[[node |-> target, path |-> << >>]]

\* The variables of this loop: a service has no parent before it is visited.
Searching(ids) == [queue : Seq(ids), visited : SUBSET ids, parent : [ids -> ids]]

\* One round of it: here a service is marked, and its parent set, when it is
\* pushed.
SearchRound(st) ==
  LET current == Head(st.queue)
      fresh == Fresh(GetDirectDependencies(current, AnyFilter), st.visited)
  IN  [queue |-> Tail(st.queue) \o fresh,
       visited |-> st.visited \cup ToSet(fresh),
       parent |-> Put(st.parent, ToSet(fresh), current)]

FindShortestPath(source, target) ==
  LET loop[st \in Searching(DOMAIN nodes)] ==
        IF st.queue = << >> THEN {}
        ELSE IF Head(st.queue) = target
             THEN {Rebuilt(source, Ancestry(st.parent, source, target))}
             ELSE loop[SearchRound(st)]
  IN  loop[[queue |-> <<source>>, visited |-> {source},
            parent |-> [n \in DOMAIN nodes |-> source]]]

------------------------------------------------------------------------------
\* The order of the services

\* Mutant: parallel dependencies count once towards the degree.
InDegreeOfPairs(t) == Cardinality({s \in DOMAIN nodes :
                        \E e \in adjacencyList[s] : edge[e].target = t})

InDegree(t) ==
  LET all == GetAllEdges
  IN  Times([i \in DOMAIN all |-> edge[all[i]].target], t)

\* The variables of the loop of Kahn's algorithm.
Sorting(ids) == [queue : Seq(ids), inDegree : [ids -> Int], result : Seq(ids)]

\* One dependency less of target is left.
Lower(st, target) ==
  LET newDegree == st.inDegree[target] - 1
  IN  [queue |-> IF newDegree = 0 THEN Append(st.queue, target) ELSE st.queue,
       inDegree |-> [st.inDegree EXCEPT ![target] = newDegree],
       result |-> st.result]

LowerAll(st, targets) ==
  LET upTo[i \in 0 .. Len(targets)] ==
        IF i = 0 THEN st ELSE Lower(upTo[i - 1], targets[i])
  IN  upTo[Len(targets)]

SortRound(st) ==
  LET nodeId == Head(st.queue)
  IN  LowerAll([queue |-> Tail(st.queue), inDegree |-> st.inDegree,
                result |-> Append(st.result, nodeId)],
               GetDirectDependencies(nodeId, AnyFilter))

KahnOrder ==
  LET loop[st \in Sorting(DOMAIN nodes)] ==
        IF st.queue = << >> THEN st.result ELSE loop[SortRound(st)]
  IN  loop[[queue |-> Keep(Keys, {n \in DOMAIN nodes : InDegree(n) = 0}),
            inDegree |-> [n \in DOMAIN nodes |-> InDegree(n)],
            result |-> << >>]]

------------------------------------------------------------------------------
\* Parts of the graph

\* Mutant: the target of an edge is not looked up in nodeSet.
InSubgraphBySource(e, nodeIds) == edge[e].source \in nodeIds

InSubgraph(e, nodeIds) == edge[e].target \in nodeIds

ExtractSubgraph(nodeIds) ==
  LET known == Keep(nodeIds, DOMAIN nodes)
  IN  [nodes |-> known,
       edges |-> FlattenSeq([i \in DOMAIN known |->
                   Edges({e \in adjacencyList[known[i]] : InSubgraph(e, ToSet(nodeIds))})])]

\* averageDegree and density are quotients of these two.
GetStatistics ==
  [nodeCount |-> Cardinality(DOMAIN nodes), edgeCount |-> Len(GetAllEdges)]

ExportGraph ==
  LET all == GetAllEdges
  IN  [nodes |-> nodes, edges |-> [i \in DOMAIN all |-> edge[all[i]]]]

------------------------------------------------------------------------------
\* QueryController: NotFoundException becomes a 404, any other answer a 200.

Answered(data) == [status |-> 200, data |-> data]

NotFound == [status |-> 404, data |-> {}]

Known(ids) == ids \subseteq DOMAIN nodes

OrDefault(maxDepth, default) == IF maxDepth = 0 THEN default ELSE maxDepth

AnswerService(s) == IF Known({s}) THEN Answered(nodes[s]) ELSE NotFound

AnswerServices ==
  LET keys == Keys IN Answered([i \in DOMAIN keys |-> nodes[keys[i]]])

AnswerDependencies == Answered(GetAllEdges)

AnswerTransitive(s, maxDepth, filter) ==
  IF Known({s})
  THEN Answered(GetTransitiveDependencies(s, OrDefault(maxDepth, DefaultDepth), filter))
  ELSE NotFound

AnswerReverseTransitive(s, maxDepth, filter) ==
  IF Known({s})
  THEN Answered(GetTransitiveReverseDependencies(s, OrDefault(maxDepth, DefaultDepth),
                                                 filter))
  ELSE NotFound

AnswerBlastRadius(s, maxDepth) ==
  IF Known({s})
  THEN Answered(CalculateBlastRadius(s, OrDefault(maxDepth, DefaultRadius)))
  ELSE NotFound

AnswerDirect(s, filter) ==
  IF Known({s}) THEN Answered(GetDirectDependencies(s, filter)) ELSE NotFound

AnswerReverse(s, filter) ==
  IF Known({s}) THEN Answered(GetReverseDependencies(s, filter)) ELSE NotFound

\* length counts the services on the path, both ends included.
AnswerPath(source, target) ==
  IF ~ Known({source, target}) THEN NotFound
  ELSE LET path == FindShortestPath(source, target)
       IN  Answered([found |-> path # {}, path |-> path,
                     length |-> IF path = {} THEN 0 ELSE Len(CHOOSE p \in path : TRUE)])

AnswerSubgraph(nodeIds) == Answered(ExtractSubgraph(nodeIds))

AnswerStatistics == Answered(GetStatistics)

AnswerExport == Answered(ExportGraph)

------------------------------------------------------------------------------
\* Reference definitions

Filters == DependencyType \cup {AnyFilter}

\* The dependencies a filter leaves, as pairs of services, and their converse.
Links(filter) ==
  {<<edge[e].source, edge[e].target>> :
     e \in {d \in DOMAIN edge : filter \in {AnyFilter, edge[d].type}}}

Converse(links) == {<<l[2], l[1]>> : l \in links}

\* The services at most d links away from s.
Within(links, s) ==
  LET W[d \in Nat] ==
        IF d = 0 THEN {s}
        ELSE LET nearer == W[d - 1]
             IN  nearer \cup {l[2] : l \in {k \in links : k[1] \in nearer}}
  IN  W

\* The other services at most limit links away, with their distance.
Distances(links, s, limit) ==
  LET W == [d \in 0 .. limit |-> Within(links, s)[d]]
  IN  [n \in W[limit] \ {s} |-> Min({d \in 0 .. limit : n \in W[d]})]

Far == Cardinality(ServiceId)

\* The services that one or more links lead to, and the other way round too.
After(links, s) ==
  UNION {Within(links, l[2])[Far] : l \in {k \in links : k[1] = s}}

Circle(s) == {t \in After(Links(AnyFilter), s) : s \in After(Links(AnyFilter), t)}

------------------------------------------------------------------------------
\* Properties

\* "Get transitive dependencies (BFS with depth limit)" (graph.service.ts:277)
\* and the reverse query: whatever cycles, self-loops and parallel dependencies
\* the writes made, each answers the distance of every service in reach, and a
\* service that is not registered with a 404.  The start is never marked and is
\* expanded again whenever a cycle leads back to it.
TransitiveIsNearest ==
  \A s \in ServiceId, maxDepth \in 0 .. Far, filter \in Filters :
    LET depth == OrDefault(maxDepth, DefaultDepth)
    IN  /\ AnswerTransitive(s, maxDepth, filter)
             = IF s \in DOMAIN nodes
               THEN Answered(Distances(Links(filter), s, depth)) ELSE NotFound
        /\ AnswerReverseTransitive(s, maxDepth, filter)
             = IF s \in DOMAIN nodes
               THEN Answered(Distances(Converse(Links(filter)), s, depth)) ELSE NotFound

\* The two halves of a blast radius are read from two lists that no method
\* writes together: one service affects another exactly when the other is
\* affected by it, as often, and their direct dependencies say the same.
BlastRadiusIsMutual ==
  \A s, t \in DOMAIN nodes :
    /\ \A maxDepth \in {0, 1} :
         LET mine == AnswerBlastRadius(s, maxDepth).data
             other == AnswerBlastRadius(t, maxDepth).data
         IN  t \in mine.affected <=> s \in other.affectedBy
    /\ \A filter \in Filters :
         Times(AnswerDirect(s, filter).data, t) = Times(AnswerReverse(t, filter).data, s)

\* "Find shortest path using BFS" (graph.service.ts:384): a path of recorded
\* dependencies, as long as the distance, found exactly when there is one.
ShortestPathIsShortest ==
  \A s, t \in DOMAIN nodes :
    LET answer == AnswerPath(s, t).data
        distance == Distances(Links(AnyFilter), s, Far)
    IN  /\ answer.found <=> t = s \/ t \in DOMAIN distance
        /\ answer.found => answer.length = IF t = s THEN 1 ELSE distance[t] + 1
        /\ \A path \in answer.path :
             /\ Len(path) = answer.length
             /\ path[1] = s /\ path[Len(path)] = t
             /\ \A i \in 1 .. Len(path) - 1 :
                  <<path[i], path[i + 1]>> \in Links(AnyFilter)

\* "Topological sort (returns null if cycle exists)" (graph.service.ts:222): the
\* loop that counts degrees down orders the services that no cycle leads to, each
\* once and behind all that depend on it.  So it is as long as the list of services
\* (graph.service.ts:263) exactly when there is no cycle, as the search for cycles
\* in front of it has found already.
SortRespectsDependencies ==
  LET order == KahnOrder
      circular == {s \in DOMAIN nodes : s \in Circle(s)}
      behind == UNION {Within(Links(AnyFilter), s)[Far] : s \in circular}
  IN  /\ ToSet(order) = DOMAIN nodes \ behind
      /\ Len(order) = Cardinality(ToSet(order))
      /\ Len(order) = Cardinality(DOMAIN nodes) <=> circular = {}
      /\ \A j \in DOMAIN order : \A e \in DOMAIN edge :
           edge[e].target = order[j] => \E i \in 1 .. j - 1 : order[i] = edge[e].source

\* A subgraph holds what was asked for and is registered, and the dependencies
\* between these services: both ends of each are in it.  That of all services
\* is the graph the lists and the export show, and as large as the statistics say.
SubgraphIsInduced ==
  \A wanted \in SUBSET ServiceId :
    LET asked == SetToSeq(wanted)
        sub == AnswerSubgraph(asked).data
    IN  /\ ToSet(sub.nodes) = {s \in wanted : AnswerService(s).status = 200}
        /\ ToSet(sub.edges)
             = {e \in DOMAIN edge : {edge[e].source, edge[e].target} \subseteq wanted}
        /\ Len(sub.edges) = Cardinality(ToSet(sub.edges))
        /\ DOMAIN nodes \subseteq wanted =>
             /\ ToSet(AnswerDependencies.data) = ToSet(sub.edges)
             /\ ToSet(AnswerExport.data.edges) = {edge[e] : e \in ToSet(sub.edges)}
             /\ Len(sub.nodes) = Len(AnswerServices.data)
             /\ AnswerStatistics.data
                  = [nodeCount |-> Len(AnswerServices.data), edgeCount |-> Len(sub.edges)]

==============================================================================
