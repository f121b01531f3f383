--------------------------- MODULE DependencyGraph ---------------------------
(***************************************************************************)
(* What the topology service promises its callers: a set of registered     *)
(* services and a set of directed, typed dependencies between registered   *)
(* services.  Nothing is said of adjacency lists; TopologyGraph shows that *)
(* each of the two lists GraphService keeps implements this.               *)
(*                                                                         *)
(* A dependency carries the rank at which it was recorded, because the     *)
(* code tells equal dependencies apart by their place in a list.           *)
(***************************************************************************)
EXTENDS Naturals

CONSTANTS ServiceId,        \* identifiers a service may register under
          DependencyType,   \* 'http' | 'grpc' | 'event'
          NoType,           \* a type field that was overwritten by undefined
          Snapshots         \* the exported graphs that may be loaded

VARIABLES services, dependencies

vars == <<services, dependencies>>

AnyType == DependencyType \cup {NoType}

SameKey(d, e) == d.source = e.source /\ d.target = e.target /\ d.type = e.type

Touches(d, s) == d.source = s \/ d.target = s

Init == services = {} /\ dependencies = {}

Register(new) ==
  /\ new \cap services = {}
  /\ services' = services \cup new
  /\ UNCHANGED dependencies

\* A service leaves with every dependency it has a part in, and no other.
Deregister(s) ==
  /\ s \in services
  /\ services' = services \ {s}
  /\ dependencies' = {d \in dependencies : ~ Touches(d, s)}

\* New dependencies join registered services, are none of the recorded ones,
\* and rank after all of them.
Depend(new) ==
  /\ \A d \in new :
       /\ d.source \in services /\ d.target \in services
       /\ \A e \in dependencies : ~ SameKey(d, e) /\ e.id < d.id
  /\ dependencies' = dependencies \cup new
  /\ UNCHANGED services

\* Of equal dependencies the one recorded first is meant.
Oldest(d) == \A e \in dependencies : SameKey(d, e) => d.id <= e.id

Undepend(d) ==
  /\ Oldest(d)
  /\ dependencies' = dependencies \ {d}
  /\ UNCHANGED services

Retype(d, type) ==
  /\ Oldest(d)
  /\ dependencies' = (dependencies \ {d}) \cup {[d EXCEPT !.type = type]}
  /\ UNCHANGED services

Entry(snapshot, i) ==
  LET e == snapshot.edges[i]
  IN  [id |-> i, source |-> e.source, target |-> e.target, type |-> e.type]

\* Lists every service its dependencies name, and no dependency twice.
Loadable(snapshot) ==
  LET edges == snapshot.edges
  IN  \A i, j \in DOMAIN edges :
        /\ edges[i].source \in DOMAIN snapshot.nodes
        /\ edges[i].target \in DOMAIN snapshot.nodes
        /\ SameKey(edges[i], edges[j]) => i = j

\* The graph is replaced by a snapshot: all of its services, and all of its
\* dependencies when it is loadable.
Load(snapshot) ==
  LET entries == {Entry(snapshot, i) : i \in DOMAIN snapshot.edges}
  IN  /\ services' = DOMAIN snapshot.nodes
      /\ dependencies' \subseteq entries
      /\ Loadable(snapshot) => dependencies' = entries

\* The new services and dependencies of a step are read off its two states.
Next ==
  \/ Register(services' \ services)
  \/ \E s \in services : Deregister(s)
  \/ Depend(dependencies' \ dependencies)
  \/ \E d \in dependencies : Undepend(d)
  \/ \E d \in dependencies, type \in AnyType : Retype(d, type)
  \/ \E snapshot \in Snapshots : Load(snapshot)

Spec == Init /\ [][Next]_vars
==============================================================================
