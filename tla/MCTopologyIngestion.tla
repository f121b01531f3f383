------------------------- MODULE MCTopologyIngestion -------------------------
(***************************************************************************)
(* TopologyIngestion with one client, whose rooms may overlap: clients do  *)
(* not meet in any variable but their own.  Two services and two types are *)
(* enough for self-loops, two-cycles, parallel dependencies of different   *)
(* types, and dependencies that an update makes equal.  One snapshot is    *)
(* empty, one loads whole, one records a dependency twice, one was saved   *)
(* with an erased type.                                                    *)
(***************************************************************************)
EXTENDS TopologyIngestion

CONSTANTS a, b, http, grpc, full

MCSubscriptions == {{"all"}, {"edge_added", "node_removed"}}

Link(s, t, type) == [source |-> s, target |-> t, type |-> type]

BothServices == [id \in {a, b} |-> full]

MCSnapshots ==
  {[nodes |-> << >>, edges |-> << >>],
   [nodes |-> BothServices, edges |-> <<Link(a, b, http), Link(b, a, grpc)>>],
   [nodes |-> BothServices,
    edges |-> <<Link(a, b, http), Link(a, b, http), Link(b, b, grpc)>>],
   [nodes |-> BothServices, edges |-> <<Link(b, b, NoType)>>]}
==============================================================================
