----------------------------- MODULE GraphCycles -----------------------------
(***************************************************************************)
(* The cycles and the order of the graph, as GraphService finds them       *)
(* (apps/topology-service/src/graph/graph.service.ts) and QueryController  *)
(* answers them.  The algorithms call themselves, and are written so.      *)
(***************************************************************************)
EXTENDS GraphQueries

HasSelfLoop(s) == \E e \in adjacencyList[s] : edge[e].target = s

\* Mutant: a component of one service is never a cycle.
IsLargeComponent(component, root) == Len(component) > 1

IsCycle(component, root) == Len(component) > 1 \/ HasSelfLoop(root)

LowLink(st, v, n) == [st EXCEPT !.lowLink[v] = Min({@, n})]

\* strongConnect of Tarjan's algorithm; onStack is the contents of stack.
RECURSIVE StrongConnect(_, _)
StrongConnect(st, v) ==
  LET at == Cardinality(DOMAIN st.index)
      entered == [st EXCEPT !.index = @ @@ (v :> at), !.lowLink = @ @@ (v :> at),
                            !.stack = Append(@, v)]
      Visit(s, t) ==
        IF t \notin DOMAIN s.index
        THEN LET inner == StrongConnect(s, t) IN LowLink(inner, v, inner.lowLink[t])
        ELSE IF t \in ToSet(s.stack) THEN LowLink(s, v, s.index[t]) ELSE s
      left == FoldLeft(Visit, entered, GetDirectDependencies(v, AnyFilter))
      bottom == CHOOSE i \in DOMAIN left.stack : left.stack[i] = v
      component == Reverse(SubSeq(left.stack, bottom, Len(left.stack)))
  IN  IF left.lowLink[v] # left.index[v] THEN left
      ELSE [left EXCEPT
              !.stack = SubSeq(@, 1, bottom - 1),
              !.cycles = IF IsCycle(component, v) THEN Append(@, component) ELSE @]

DetectCycles ==
  FoldLeft(LAMBDA st, v : IF v \in DOMAIN st.index THEN st ELSE StrongConnect(st, v),
           [index |-> << >>, lowLink |-> << >>, stack |-> << >>, cycles |-> << >>],
           Keys).cycles

TopologicalSort ==
  IF DetectCycles = << >> /\ Len(KahnOrder) = Cardinality(DOMAIN nodes)
  THEN {KahnOrder} ELSE {}

------------------------------------------------------------------------------
\* QueryController

AnswerCycles ==
  Answered([hasCycles |-> Len(DetectCycles) > 0, cycles |-> DetectCycles])

AnswerSort == Answered([success |-> TopologicalSort # {}, data |-> TopologicalSort])

------------------------------------------------------------------------------
\* Properties

\* "Cycle detection using Tarjan's algorithm" (graph.service.ts:164): every
\* largest set of services that depend on each other is told once, and no other.
\* There is an order exactly when there is no cycle (graph.service.ts:222).
CyclesAreComponents ==
  LET cycles == AnswerCycles.data.cycles
      circular == {s \in DOMAIN nodes : s \in Circle(s)}
  IN  /\ {ToSet(cycles[i]) : i \in DOMAIN cycles} = {Circle(s) : s \in circular}
      /\ Len(FlattenSeq(cycles)) = Cardinality(circular)
      /\ AnswerCycles.data.hasCycles <=> circular # {}
      /\ AnswerSort.data.success <=> circular = {}

==============================================================================
