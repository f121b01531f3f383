--------------------------- MODULE ImpactAnalysis ----------------------------
(***************************************************************************)
(* What the analysis service computes from an exported graph               *)
(* (apps/analysis-service/src/analysis_service): the impact of a change    *)
(* (analysis/engine.py) and a what-if simulation (simulation/engine.py).   *)
(* Each takes the graph as GET /query/export gives it, and runs to its end *)
(* without an await.                                                       *)
(***************************************************************************)
EXTENDS GraphQueries

CONSTANTS ChangeType,    \* values of change_type
          Severity,      \* CHANGE_SEVERITY
          Criticality    \* metadata.criticality of the data of a service

ASSUME RiskAssumption ==
  Severity \in [ChangeType -> 0 .. 100] /\ Criticality \in [ServiceData -> Nat]

------------------------------------------------------------------------------
\* ImpactAnalysisEngine

BuildAdjacency(edges) ==
  [s \in {edges[i].source : i \in DOMAIN edges} |->
     LET out == Keep([i \in DOMAIN edges |-> i],
                     {i \in DOMAIN edges : edges[i].source = s})
     IN  [i \in DOMAIN out |-> edges[out[i]].target]]

\* Mutant: a service at the limit is still expanded.
SpentLate(depth, maxDepth) == depth > maxDepth

Spent(depth, maxDepth) == depth >= maxDepth

\* One round of the loop of traverse_dependencies; a service is marked when it is
\* pushed.
Expand(adjacency, maxDepth, st) ==
  LET node == Head(st.queue).id
      depth == Head(st.queue).depth
      fresh == Fresh(adjacency[node], st.visited)
  IN  IF Spent(depth, maxDepth) \/ node \notin DOMAIN adjacency
      THEN [st EXCEPT !.queue = Tail(@)]
      ELSE [queue |-> Tail(st.queue) \o Items(fresh, depth + 1),
            visited |-> st.visited \cup ToSet(fresh),
            depth |-> Put(st.depth, ToSet(fresh), depth + 1)]

TraverseDependencies(adjacency, source, maxDepth) ==
  LET loop[st \in Marking(ServiceId)] ==
        IF st.queue = << >> THEN [n \in st.visited \ {source} |-> st.depth[n]]
        ELSE loop[Expand(adjacency, maxDepth, st)]
  IN  IF source \notin DOMAIN adjacency THEN EmptyMap
      ELSE loop[AtStart(ServiceId, source, {source})]

\* What each affected service adds to the risk.
Weights(affected, data) ==
  [s \in DOMAIN affected |->
     (IF s \in DOMAIN data THEN 5 * Criticality[data[s]] ELSE 5)
       + Max({0, 10 - affected[s]})]

\* Mutant: the risk is averaged over the affected services.
ComputeRiskScoreOnAverage(changeType, affected, data) ==
  Severity[changeType]
    + SumFunction(Weights(affected, data)) \div Max({1, Cardinality(DOMAIN affected)})

ComputeRiskScore(changeType, affected, data) ==
  Min({100, Severity[changeType] + SumFunction(Weights(affected, data))})

\* analyze: service_missing is answered with a 400.
Analyze(service, changeType, maxDepth, graph) ==
  IF service \notin DOMAIN graph.nodes THEN [status |-> 400, affected |-> EmptyMap]
  ELSE LET affected == TraverseDependencies(BuildAdjacency(graph.edges), service, maxDepth)
       IN  [status |-> 200, affected |-> affected,
            riskScore |-> ComputeRiskScore(changeType, affected, graph.nodes)]

------------------------------------------------------------------------------
\* SimulationEngine

\* nx.DiGraph keeps one edge for each pair of services.
BuildGraph(graph) ==
  {<<graph.edges[i].source, graph.edges[i].target>> : i \in DOMAIN graph.edges}

TimesOut(length) == length > 2

\* simulate: nx.descendants raises for a service that is not in the graph, and
\* nobody catches it.  The probability is in hundredths.
Simulate(service, graph) ==
  IF service \notin DOMAIN graph.nodes THEN [status |-> 500, affected |-> {}]
  ELSE LET length == Distances(BuildGraph(graph), service, Far)
       IN  [status |-> 200, affected |-> DOMAIN length,
            cascade |-> Min({100, 15 * Cardinality(DOMAIN length)}),
            timeoutChain |-> {n \in DOMAIN length : TimesOut(length[n])}]

------------------------------------------------------------------------------
\* Properties

\* The analysis service walks the exported edges with its own loop, its own
\* limit and its own marks: it names the services, at the depths, that the
\* topology service answers for the same limit, and a simulation names those
\* that are in reach at all and calls a timeout chain those more than two away.
AnalysisAgreesWithTopology ==
  \A s \in ServiceId :
    LET simulated == Simulate(s, ExportGraph)
        reached == GetTransitiveDependencies(s, Far, AnyFilter)
    IN  /\ \A maxDepth \in 1 .. Far, change \in ChangeType :
             Analyze(s, change, maxDepth, ExportGraph).affected
               = IF s \in DOMAIN nodes
                 THEN GetTransitiveDependencies(s, maxDepth, AnyFilter) ELSE EmptyMap
        /\ simulated.status = 200 =>
             /\ simulated.affected = DOMAIN reached
             /\ simulated.timeoutChain = {n \in DOMAIN reached : reached[n] > 2}

\* The exported graph, and it before one of its edges was added.
Before(graph) ==
  {[graph EXCEPT !.edges = RemoveAt(@, i)] : i \in DOMAIN graph.edges}

Risk(s, change, maxDepth, graph) == Analyze(s, change, maxDepth, graph).riskScore

\* "Risk score distribution from impact analysis results" (core/metrics.py:5),
\* in buckets up to 100: a score stays in that range, is not lowered by looking
\* further, and a dependency that is added never lowers the score of a change,
\* though it moves services nearer and the sum is cut off at 100.
RiskGrowsWithGraph ==
  \A graph \in {ExportGraph} :
    \A s \in DOMAIN nodes, change \in ChangeType, maxDepth \in 1 .. Far - 1 :
      LET risk == Risk(s, change, maxDepth, graph)
      IN  /\ risk \in Severity[change] .. 100
          /\ risk <= Risk(s, change, maxDepth + 1, graph)
          /\ \A less \in Before(graph) : Risk(s, change, maxDepth, less) <= risk

==============================================================================
