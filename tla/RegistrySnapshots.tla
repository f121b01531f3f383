-------------------------- MODULE RegistrySnapshots --------------------------
(***************************************************************************)
(* The dependency snapshots of the registry                                *)
(* (apps/registry-service/registry/apps/snapshots): a command stores the   *)
(* graph that GET /query/export gives, and a request compares two stored   *)
(* graphs.  While the rows stay as they are, the topology service writes   *)
(* on.                                                                     *)
(***************************************************************************)
EXTENDS ImpactAnalysis

VARIABLE captured      \* graph_data of the rows of DependencySnapshot

RegistryInit == Init /\ captured = {}

\* handle of capture_snapshot.  Without an answer, or with an error for one, it
\* stores nothing.
CaptureSnapshot ==
  /\ captured' = captured \cup {ExportGraph}
  /\ UNCHANGED vars

RegistryNext ==
  \/ Next /\ UNCHANGED captured
  \/ CaptureSnapshot

RegistrySpec == RegistryInit /\ [][RegistryNext]_<<vars, captured>>

------------------------------------------------------------------------------
\* Comparison

\* The pairs of _diff_graphs are those the simulation takes: source and target.
Pairs(graph) == BuildGraph(graph)

\* Mutant: an edge is compared by the service that depends.
DiffGraphsBySource(first, second) ==
  LET Sources(g) == {l[1] : l \in Pairs(g)}
  IN  [addedServices |-> DOMAIN second.nodes \ DOMAIN first.nodes,
       removedServices |-> DOMAIN first.nodes \ DOMAIN second.nodes,
       addedEdges |-> Sources(second) \ Sources(first),
       removedEdges |-> Sources(first) \ Sources(second)]

DiffGraphs(first, second) ==
  [addedServices |-> DOMAIN second.nodes \ DOMAIN first.nodes,
   removedServices |-> DOMAIN first.nodes \ DOMAIN second.nodes,
   addedEdges |-> Pairs(second) \ Pairs(first),
   removedEdges |-> Pairs(first) \ Pairs(second)]

------------------------------------------------------------------------------
\* Properties

ShowsNothing(diff) == \A part \in DOMAIN diff : diff[part] = {}

\* No service of ids is more critical in the first graph than in the second.
NoMoreCritical(ids, first, second) ==
  \A n \in ids : Criticality[first.nodes[n]] <= Criticality[second.nodes[n]]

\* A comparison leaves out the data of the services, the types of the
\* dependencies, and how many there are between two services.  When it shows
\* nothing for two snapshots, or for a snapshot and the graph of today, every
\* simulation is the same for both and every analysis names the same services at
\* the same depths.  Of what is left out only the criticality of an affected
\* service can move a score, and it moves it its own way: where none is more
\* critical, the risk is no higher, so with the same criticalities it is the same.
EmptyComparisonSameImpact ==
  \A first, second \in captured \cup {ExportGraph} :
    ShowsNothing(DiffGraphs(first, second)) =>
      \A s \in ServiceId :
        /\ Simulate(s, first) = Simulate(s, second)
        /\ \A change \in ChangeType, maxDepth \in 1 .. Far :
             LET before == Analyze(s, change, maxDepth, first)
                 after == Analyze(s, change, maxDepth, second)
             IN  /\ before.status = after.status
                 /\ before.affected = after.affected
                 /\ /\ before.status = 200
                    /\ NoMoreCritical(DOMAIN before.affected, first, second)
                    => before.riskScore <= after.riskScore

==============================================================================
