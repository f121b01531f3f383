--------------------------- MODULE MCGraphQueries ---------------------------
(***************************************************************************)
(* The queries, analyses and comparisons of graphs of four services and    *)
(* two types.  A start loads a chain, a cycle with a tail, a diamond, or a *)
(* self-loop in two types; it is captured; then come up to two writes, so  *)
(* that a dependency can be taken back and declared again, or one service  *)
(* made more critical and another less.  Or else an API is released again  *)
(* and again.                                                              *)
(***************************************************************************)
EXTENDS RegistrySnapshots, GraphCycles, Compatibility

CONSTANTS a, b, c, d, http, grpc, low, high

Link(s, t, type) == [source |-> s, target |-> t, type |-> type]

Loaded(edges) ==
  [nodes |-> [id \in ServiceId |-> IF id = d THEN high ELSE low], edges |-> edges]

MCSnapshots ==
  {Loaded(<<Link(a, b, http), Link(b, c, http), Link(c, d, grpc), Link(a, d, http)>>),
   Loaded(<<Link(a, b, http), Link(b, c, grpc), Link(c, a, http), Link(c, d, http)>>),
   Loaded(<<Link(a, c, http), Link(a, b, grpc), Link(c, d, http), Link(b, d, grpc)>>),
   Loaded(<<Link(a, a, http), Link(a, a, grpc), Link(b, a, http)>>)}

MCSeverity == [deprecation |-> 40, retry_change |-> 10]

MCCriticality == [data \in {low, high} |-> IF data = low THEN 1 ELSE 6]

\* Every description of one or no schema with up to two properties.
MCApi ==
  {[n \in {} |-> {}]}
    \cup {[n \in {"Node"} |-> [properties |-> p, required |-> r]] :
            p \in UNION {[fields -> {"string", "number"}] : fields \in SUBSET {"id", "name"}},
            r \in SUBSET {"id", "name"}}

CONSTANT MaxWrites     \* bound on the writes after the capture

VARIABLE writes        \* how many there were

QueriesInit == RegistryInit /\ ReleaseInit /\ writes = 0

\* A graph is loaded.
LoadGraph ==
  /\ nodes = << >> /\ released = << >>
  /\ \E snapshot \in Snapshots : ImportGraph(snapshot)
  /\ UNCHANGED <<captured, writes, released>>

\* It is captured once.
CaptureOnce ==
  /\ nodes # << >> /\ captured = {}
  /\ CaptureSnapshot
  /\ UNCHANGED <<writes, released>>

\* Then it is written to, one part at a time.
WriteOnce ==
  /\ captured # {} /\ writes < MaxWrites
  /\ DOMAIN nodes = ServiceId
  /\ \/ \E s \in ServiceId, dep \in Reported : AddEdges(s, {dep})
     \/ \E s, t \in ServiceId, type \in DependencyType : RemoveEdge(s, t, type)
     \/ \E s, t \in ServiceId, type \in DependencyType : UpdateEdge(s, t, type, NoType)
     \/ \E id \in ServiceId, data \in ServiceData : UpdateNode(id, data)
     \/ \E id \in ServiceId : RemoveNode(id)
  /\ writes' = writes + 1
  /\ UNCHANGED <<captured, released>>

\* Or else descriptions are released.
ReleaseOnly ==
  /\ nodes = << >>
  /\ ReleaseNext
  /\ UNCHANGED <<vars, captured, writes>>

QueriesNext == LoadGraph \/ CaptureOnce \/ WriteOnce \/ ReleaseOnly

QueriesSpec == QueriesInit /\ [][QueriesNext]_<<vars, captured, writes, released>>
==============================================================================
