---------------------- MODULE TopologyPersistenceProofs ----------------------
(***************************************************************************)
(* Proofs about TopologyPersistence, for any number of replicas, services, *)
(* dependencies and saves in flight: every graph, in memory, on its way or *)
(* stored, is well formed, and a graph that was exported last is not lost  *)
(* to the late answer of an older save.                                    *)
(***************************************************************************)
EXTENDS TopologyPersistence, ListsProofs

------------------------------------------------------------------------------
\* Graphs

LEMMA GraphMade ==
  ASSUME NEW services \in Seq(ServiceId), NEW dependencies,
         NEW registered, registered = {services[i] : i \in DOMAIN services},
         dependencies \in [registered -> Seq(Dependency)]
  PROVE  GraphOK([services |-> services, dependencies |-> dependencies])
BY DEF GraphOK, Services

LEMMA GraphParts ==
  ASSUME NEW g, GraphOK(g)
  PROVE  /\ g = [services |-> g.services, dependencies |-> g.dependencies]
         /\ g.services \in Seq(ServiceId)
         /\ g.dependencies \in [Services(g) -> Seq(Dependency)]
         /\ Services(g) = {g.services[i] : i \in DOMAIN g.services}
         /\ Services(g) \subseteq ServiceId
<1>1. /\ g = [services |-> g.services, dependencies |-> g.dependencies]
      /\ g.services \in Seq(ServiceId)
      /\ g.dependencies \in [Services(g) -> Seq(Dependency)]
  BY DEF GraphOK
<1>2. Services(g) = {g.services[i] : i \in DOMAIN g.services} BY DEF Services
<1>3. \A i \in DOMAIN g.services : g.services[i] \in ServiceId BY <1>1, ElementOfSeq, LenProperties
<1> QED BY <1>1, <1>2, <1>3

LEMMA EmptyGraph == GraphOK(Empty)
<1>1. << >> \in Seq(ServiceId) /\ {<< >>[i] : i \in DOMAIN << >>} = {} BY EmptySeq
<1>2. [s \in {} |-> << >>] \in [{} -> Seq(Dependency)] OBVIOUS
<1> QED BY <1>1, <1>2, GraphMade DEF Empty

LEMMA RegisteredGraph ==
  ASSUME NEW g, GraphOK(g), NEW id \in ServiceId
  PROVE  GraphOK(Registered(g, id))
<1> DEFINE services == Append(g.services, id)
           n == Len(g.services)
           registered == Services(g) \cup {id}
           dependencies == [s \in registered |->
                              IF s = id THEN << >> ELSE g.dependencies[s]]
<1>1. /\ services \in Seq(ServiceId)
      /\ DOMAIN services = 1 .. n + 1 /\ n \in Nat
      /\ \A i \in 1 .. n : services[i] = g.services[i]
      /\ services[n + 1] = id
  BY GraphParts, AppendProperties, LenProperties
<1>2. registered = {services[i] : i \in DOMAIN services}
  <2>1. Services(g) = {g.services[i] : i \in 1 .. n} BY GraphParts, LenProperties
  <2>2. \A i \in 1 .. n + 1 : i \in 1 .. n \/ i = n + 1 BY <1>1
  <2>3. 1 .. n \subseteq 1 .. n + 1 /\ n + 1 \in 1 .. n + 1 BY <1>1
  <2> HIDE DEF services, n
  <2> QED BY <1>1, <2>1, <2>2, <2>3
<1>3. dependencies \in [registered -> Seq(Dependency)]
  BY GraphParts, EmptySeq
<1> QED BY <1>1, <1>2, <1>3, GraphMade DEF Registered

LEMMA DeregisteredGraph ==
  ASSUME NEW g, GraphOK(g), NEW id \in Services(g)
  PROVE  GraphOK(Deregistered(g, id))
<1> DEFINE list == g.services
           kept == ServiceId \ {id}
           services == Keep(list, kept)
           registered == Services(g) \ {id}
           dependencies == [s \in registered |-> LinksElsewhere(g.dependencies[s], id)]
<1>1. /\ list \in Seq(ServiceId) /\ Services(g) = {list[i] : i \in DOMAIN list}
      /\ Services(g) \subseteq ServiceId
      /\ Len(list) \in Nat /\ DOMAIN list = 1 .. Len(list)
  BY GraphParts, LenProperties
<1>2. /\ services \in Seq(ServiceId)
      /\ \E at \in [1 .. Len(services) -> 1 .. Len(list)] :
           /\ \A i, j \in DOMAIN at : i < j => at[i] < at[j]
           /\ \A i \in DOMAIN at : /\ services[i] = list[at[i]]
                                   /\ list[at[i]] \in kept
           /\ \A j \in 1 .. Len(list) :
                list[j] \in kept => \E i \in DOMAIN at : at[i] = j
  <2>1. list \in Seq(ServiceId) /\ services = Keep(list, kept) BY <1>1
  <2> HIDE DEF list, kept, services
  <2> QED BY <2>1, KeepPositions
<1>3. dependencies \in [registered -> Seq(Dependency)]
  BY GraphParts, KeepPositions DEF LinksElsewhere
<1>4. registered = {services[i] : i \in DOMAIN services}
  <2> HIDE DEF services, list
  <2>1. PICK at \in [1 .. Len(services) -> 1 .. Len(list)] :
           /\ \A i, j \in DOMAIN at : i < j => at[i] < at[j]
           /\ \A i \in DOMAIN at : /\ services[i] = list[at[i]]
                                   /\ list[at[i]] \in kept
           /\ \A j \in 1 .. Len(list) :
                list[j] \in kept => \E i \in DOMAIN at : at[i] = j
    BY <1>2
  <2>2. DOMAIN services = 1 .. Len(services) /\ DOMAIN at = 1 .. Len(services)
    BY <1>2, LenProperties
  <2>3. ASSUME NEW s \in registered PROVE \E i \in DOMAIN services : services[i] = s
    <3>1. PICK j \in 1 .. Len(list) : list[j] = s BY <1>1
    <3>2. list[j] \in kept BY <1>1, <3>1
    <3> QED BY <2>1, <2>2, <3>1, <3>2
  <2>4. ASSUME NEW i \in DOMAIN services PROVE services[i] \in registered
    <3>1. at[i] \in 1 .. Len(list) /\ services[i] = list[at[i]] /\ services[i] \in kept
      BY <2>1, <2>2
    <3> QED BY <1>1, <3>1
  <2> QED BY <2>3, <2>4
<1> QED BY <1>2, <1>3, <1>4, GraphMade DEF Deregistered

LEMMA WithListGraph ==
  ASSUME NEW g, GraphOK(g), NEW s, NEW list \in Seq(Dependency)
  PROVE  GraphOK(WithList(g, s, list))
<1> DEFINE dependencies == [g.dependencies EXCEPT ![s] = list]
<1>1. WithList(g, s, list) = [services |-> g.services, dependencies |-> dependencies]
  <2>1. g = [services |-> g.services, dependencies |-> g.dependencies] BY GraphParts
  <2> QED BY <2>1 DEF WithList
<1>2. dependencies \in [Services(g) -> Seq(Dependency)] BY GraphParts
<1>3. g.services \in Seq(ServiceId) /\ Services(g) = {g.services[i] : i \in DOMAIN g.services}
  BY GraphParts
<1> HIDE DEF dependencies
<1> QED BY <1>1, <1>2, <1>3, GraphMade

LEMMA AcceptedList ==
  ASSUME NEW S, NEW list \in Seq(S)
  PROVE  Accepted(list) \in Seq(S)
<1>1. CASE Repeats(list) = {} BY <1>1 DEF Accepted
<1>2. CASE Repeats(list) # {}
  <2> DEFINE first == CHOOSE i \in Repeats(list) : \A j \in Repeats(list) : i <= j
  <2>1. /\ Len(list) \in Nat /\ DOMAIN list = 1 .. Len(list)
        /\ \A i \in 1 .. Len(list) : list[i] \in S
    BY LenProperties
  <2>2. Repeats(list) \in SUBSET Nat /\ Repeats(list) \subseteq 1 .. Len(list)
    BY <2>1 DEF Repeats
  <2>3. \E m \in Repeats(list) : \A n \in Repeats(list) : ~ (n < m)
    BY <1>2, <2>2, LeastOfSet
  <2>4. \E m \in Repeats(list) : \A n \in Repeats(list) : m <= n
    BY <2>2, <2>3
  <2>5. first \in Repeats(list) BY <2>4
  <2>6. first \in 1 .. Len(list) BY <2>2, <2>5
  <2>7. Accepted(list) = SubSeq(list, 1, first - 1) BY <1>2 DEF Accepted
  <2> HIDE DEF first
  <2>8. 1 \in Int /\ first - 1 \in Int /\ \A i \in 1 .. first - 1 : list[i] \in S
    BY <2>1, <2>6
  <2> QED BY <2>7, <2>8, SubSeqProperties
<1> QED BY <1>1, <1>2

LEMMA ImportedGraph ==
  ASSUME NEW g, GraphOK(g)
  PROVE  GraphOK(Imported(g))
<1> DEFINE position(s) == CHOOSE i \in DOMAIN g.services : g.services[i] = s
           afterThrow(s) == \E i \in 1 .. position(s) - 1 :
                              Repeats(g.dependencies[g.services[i]]) # {}
           dependencies == [s \in Services(g) |->
                              IF afterThrow(s) THEN << >> ELSE Accepted(g.dependencies[s])]
<1>1. Imported(g) = [services |-> g.services, dependencies |-> dependencies]
  <2>1. g = [services |-> g.services, dependencies |-> g.dependencies] BY GraphParts
  <2>2. Imported(g) = [g EXCEPT !.dependencies = dependencies] BY DEF Imported
  <2> HIDE DEF dependencies
  <2> QED BY <2>1, <2>2
<1>2. \A s \in Services(g) : Accepted(g.dependencies[s]) \in Seq(Dependency)
  BY GraphParts, AcceptedList
<1> HIDE DEF afterThrow
<1>3. dependencies \in [Services(g) -> Seq(Dependency)] BY <1>2, EmptySeq
<1>4. g.services \in Seq(ServiceId) /\ Services(g) = {g.services[i] : i \in DOMAIN g.services}
  BY GraphParts
<1> HIDE DEF dependencies
<1> QED BY <1>1, <1>3, <1>4, GraphMade

LEMMA WrittenGraph ==
  ASSUME NEW g, GraphOK(g), NEW h \in Written(g)
  PROVE  GraphOK(h)
<1>1. ASSUME NEW id \in ServiceId \ Services(g), h = Registered(g, id)
      PROVE  GraphOK(h)
  BY <1>1, RegisteredGraph
<1>2. ASSUME NEW id \in Services(g), h = Deregistered(g, id)
      PROVE  GraphOK(h)
  BY <1>2, DeregisteredGraph
<1>3. ASSUME NEW s \in Services(g), NEW target \in Services(g),
             NEW d \in [target : {target}, type : DependencyType],
             h = WithList(g, s, Append(g.dependencies[s], d))
      PROVE  GraphOK(h)
  <2>1. d \in Dependency BY GraphParts DEF Dependency, AnyType
  <2>2. Append(g.dependencies[s], d) \in Seq(Dependency) BY <2>1, GraphParts, AppendProperties
  <2> QED BY <1>3, <2>2, WithListGraph
<1>4. ASSUME NEW s \in Services(g), NEW i \in DOMAIN g.dependencies[s],
             h = WithList(g, s, Without(g.dependencies[s], i))
      PROVE  GraphOK(h)
  <2>1. g.dependencies[s] \in Seq(Dependency) /\ i \in 1 .. Len(g.dependencies[s])
    BY GraphParts, LenProperties
  <2>2. Without(g.dependencies[s], i) \in Seq(Dependency) BY <2>1, WithoutList
  <2> QED BY <1>4, <2>2, WithListGraph
<1>5. ASSUME NEW s \in Services(g), NEW i \in DOMAIN g.dependencies[s], NEW type \in AnyType,
             h = WithList(g, s, Retyped(g.dependencies[s], i, type))
      PROVE  GraphOK(h)
  <2> DEFINE list == g.dependencies[s]
             d == [list[i] EXCEPT !.type = type]
  <2>1. list \in Seq(Dependency) /\ i \in 1 .. Len(list) /\ list[i] \in Dependency
    BY GraphParts, LenProperties
  <2>2. d \in Dependency BY <2>1 DEF Dependency
  <2>3. [list EXCEPT ![i] = d] \in Seq(Dependency) BY <2>1, <2>2, ExceptSeq
  <2>4. Retyped(list, i, type) = [list EXCEPT ![i] = d] BY <2>1 DEF Retyped
  <2> HIDE DEF d
  <2> QED BY <1>5, <2>3, <2>4, WithListGraph
<1>6. ASSUME NEW s \in Services(g), NEW target \in Services(g), h \in Linked(g, s, target)
      PROVE  GraphOK(h)
  <2> DEFINE list == g.dependencies[s]
  <2>1. NewLinks(list, target) \subseteq [target : {target}, type : DependencyType]
    BY DEF NewLinks
  <2>2. FirstLinks(list, target) \subseteq DOMAIN list BY DEF FirstLinks
  <2>3. \/ \E d \in NewLinks(list, target) : h = WithList(g, s, Append(list, d))
        \/ \E i \in FirstLinks(list, target) : h = WithList(g, s, Without(list, i))
        \/ \E i \in FirstLinks(list, target), type \in AnyType :
             h = WithList(g, s, Retyped(list, i, type))
    BY <1>6 DEF Linked
  <2> QED BY <1>3, <1>4, <1>5, <2>1, <2>2, <2>3
<1>7. \/ \E id \in ServiceId \ Services(g) : h = Registered(g, id)
      \/ \E id \in Services(g) : h = Deregistered(g, id)
      \/ \E l \in Link :
           {l[1], l[2]} \subseteq Services(g) /\ h \in Linked(g, l[1], l[2])
  BY DEF Written
<1> QED BY <1>1, <1>2, <1>6, <1>7

------------------------------------------------------------------------------
\* Snapshots on their way

Calls(list) ==
  /\ list \in Seq({list[i] : i \in DOMAIN list})
  /\ \A i \in DOMAIN list : CallOK(list[i])

LEMMA CallsAre ==
  ASSUME NEW list, Calls(list)
  PROVE  /\ Len(list) \in Nat /\ DOMAIN list = 1 .. Len(list)
         /\ \A i \in 1 .. Len(list) : CallOK(list[i])
BY LenProperties DEF Calls

LEMMA CallsMade ==
  ASSUME NEW S, NEW list \in Seq(S), \A i \in 1 .. Len(list) : CallOK(list[i])
  PROVE  Calls(list)
<1>1. Len(list) \in Nat /\ DOMAIN list = 1 .. Len(list) /\ list \in [1 .. Len(list) -> S]
  BY LenProperties
<1> DEFINE T == {list[i] : i \in DOMAIN list}
<1>2. list \in [1 .. Len(list) -> T] BY <1>1
<1> HIDE DEF T
<1>3. list \in Seq(T) BY <1>1, <1>2
<1> QED BY <1>1, <1>3 DEF Calls, T

LEMMA CallParts ==
  ASSUME NEW call, CallOK(call)
  PROVE  /\ call = [awaitedBy |-> call.awaitedBy, graph |-> call.graph,
                    superseded |-> call.superseded]
         /\ call.awaitedBy \in Replica \cup {None}
         /\ GraphOK(call.graph)
         /\ call.superseded \in BOOLEAN
BY DEF CallOK

LEMMA CallMade ==
  ASSUME NEW awaitedBy \in Replica \cup {None}, NEW g, GraphOK(g),
         NEW superseded \in BOOLEAN
  PROVE  CallOK([awaitedBy |-> awaitedBy, graph |-> g, superseded |-> superseded])
BY DEF CallOK

LEMMA AppendedCalls ==
  ASSUME NEW list, Calls(list), NEW call, CallOK(call)
  PROVE  /\ Calls(Append(list, call))
         /\ Len(Append(list, call)) = Len(list) + 1
         /\ \A i \in 1 .. Len(list) : Append(list, call)[i] = list[i]
         /\ Append(list, call)[Len(list) + 1] = call
<1> DEFINE T == {list[i] : i \in DOMAIN list} \cup {call}
           longer == Append(list, call)
<1>1. Len(list) \in Nat /\ \A i \in 1 .. Len(list) : CallOK(list[i]) BY CallsAre
<1>2. list \in Seq(T) /\ call \in T
  <2> DEFINE S == {list[i] : i \in DOMAIN list}
  <2>1. list \in Seq(S) BY DEF Calls
  <2>2. S \subseteq T OBVIOUS
  <2> HIDE DEF S, T
  <2>3. list \in Seq(T) BY <2>1, <2>2, SeqInLarger
  <2> QED BY <2>3 DEF T
<1> HIDE DEF T
<1>3. /\ longer \in Seq(T) /\ Len(longer) = Len(list) + 1
      /\ \A i \in 1 .. Len(list) : longer[i] = list[i]
      /\ longer[Len(list) + 1] = call
  BY <1>2, AppendProperties
<1> HIDE DEF longer
<1>4. \A i \in 1 .. Len(longer) : i \in 1 .. Len(list) \/ i = Len(list) + 1 BY <1>1, <1>3
<1>5. \A i \in 1 .. Len(longer) : CallOK(longer[i]) BY <1>1, <1>3, <1>4
<1>6. Calls(longer) BY <1>3, <1>5, CallsMade
<1> QED BY <1>3, <1>6 DEF longer

LEMMA AnsweredCalls ==
  ASSUME NEW list, Calls(list), NEW i \in 1 .. Len(list)
  PROVE  /\ Calls(Without(list, i))
         /\ Len(Without(list, i)) = Len(list) - 1
         /\ \A j \in 1 .. i - 1 : Without(list, i)[j] = list[j]
         /\ \A j \in i .. Len(list) - 1 : Without(list, i)[j] = list[j + 1]
<1> DEFINE T == {list[j] : j \in DOMAIN list}
           shorter == Without(list, i)
<1>1. Len(list) \in Nat /\ \A j \in 1 .. Len(list) : CallOK(list[j]) BY CallsAre
<1>2. list \in Seq(T) BY DEF Calls
<1> HIDE DEF T
<1>3. /\ shorter \in Seq(T) /\ Len(shorter) = Len(list) - 1
      /\ \A j \in 1 .. i - 1 : shorter[j] = list[j]
      /\ \A j \in i .. Len(list) - 1 : shorter[j] = list[j + 1]
  BY <1>2, WithoutList
<1> HIDE DEF shorter
<1>4. \A j \in 1 .. Len(shorter) :
        \/ j \in 1 .. i - 1 /\ j \in 1 .. Len(list)
        \/ j \in i .. Len(list) - 1 /\ j + 1 \in 1 .. Len(list)
  BY <1>1, <1>3
<1>5. \A j \in 1 .. Len(shorter) : CallOK(shorter[j]) BY <1>1, <1>3, <1>4
<1>6. Calls(shorter) BY <1>3, <1>5, CallsMade
<1> QED BY <1>3, <1>6 DEF shorter

\* The calls before the i-th, once that is in the store.
Older(list, i) ==
  [j \in DOMAIN list |->
     IF j < i THEN [list[j] EXCEPT !.superseded = TRUE] ELSE list[j]]

LEMMA OlderCalls ==
  ASSUME NEW list, Calls(list), NEW i \in 1 .. Len(list)
  PROVE  /\ Calls(Older(list, i))
         /\ Len(Older(list, i)) = Len(list)
         /\ \A j \in 1 .. Len(list) :
              /\ j < i => Older(list, i)[j].superseded
              /\ ~ (j < i) => Older(list, i)[j] = list[j]
<1> DEFINE n == Len(list)
           older == Older(list, i)
           T == {older[j] : j \in 1 .. n}
<1>1. n \in Nat /\ DOMAIN list = 1 .. n /\ \A j \in 1 .. n : CallOK(list[j]) BY CallsAre
<1>2. /\ DOMAIN older = 1 .. n /\ older \in [1 .. n -> T]
      /\ \A j \in 1 .. n : older[j] = IF j < i THEN [list[j] EXCEPT !.superseded = TRUE]
                                      ELSE list[j]
  BY <1>1 DEF Older
<1>3. ASSUME NEW j \in 1 .. n
      PROVE  /\ CallOK(older[j])
             /\ j < i => older[j].superseded
             /\ ~ (j < i) => older[j] = list[j]
  <2>1. /\ list[j] = [awaitedBy |-> list[j].awaitedBy, graph |-> list[j].graph,
                      superseded |-> list[j].superseded]
        /\ list[j].awaitedBy \in Replica \cup {None}
        /\ GraphOK(list[j].graph)
    BY <1>1, CallParts
  <2>2. [list[j] EXCEPT !.superseded = TRUE]
          = [awaitedBy |-> list[j].awaitedBy, graph |-> list[j].graph, superseded |-> TRUE]
    <3> DEFINE awaitedBy == list[j].awaitedBy
               g == list[j].graph
               superseded == list[j].superseded
    <3>1. list[j] = [awaitedBy |-> awaitedBy, graph |-> g, superseded |-> superseded]
      BY <2>1
    <3> HIDE DEF awaitedBy, g, superseded
    <3>2. \A set : [list[j] EXCEPT !.superseded = set]
                   = [awaitedBy |-> awaitedBy, graph |-> g, superseded |-> set]
      BY <3>1
    <3>3. [list[j] EXCEPT !.superseded = TRUE]
            = [awaitedBy |-> awaitedBy, graph |-> g, superseded |-> TRUE]
      BY <3>2, Zenon
    <3> QED BY <3>3 DEF awaitedBy, g
  <2>3. CallOK([awaitedBy |-> list[j].awaitedBy, graph |-> list[j].graph,
                superseded |-> TRUE])
    BY <2>1, CallMade
  <2> HIDE DEF older, n
  <2> QED BY <1>1, <1>2, <2>2, <2>3
<1> HIDE DEF T, older
<1>4. older \in Seq(T) /\ Len(older) = n BY <1>1, <1>2
<1>5. Calls(older) BY <1>3, <1>4, CallsMade
<1> QED BY <1>3, <1>4, <1>5 DEF older

\* The calls, once nobody waits for those of r.
Abandoned(list, r) ==
  [j \in DOMAIN list |->
     IF list[j].awaitedBy = r THEN [list[j] EXCEPT !.awaitedBy = None] ELSE list[j]]

LEMMA AbandonedCalls ==
  ASSUME NEW list, Calls(list), NEW r
  PROVE  /\ Calls(Abandoned(list, r))
         /\ Len(Abandoned(list, r)) = Len(list)
         /\ \A j \in 1 .. Len(list) :
              /\ Abandoned(list, r)[j].graph = list[j].graph
              /\ Abandoned(list, r)[j].superseded = list[j].superseded
              /\ list[j].awaitedBy # r => Abandoned(list, r)[j] = list[j]
<1> DEFINE n == Len(list)
           abandoned == Abandoned(list, r)
           T == {abandoned[j] : j \in 1 .. n}
<1>1. n \in Nat /\ DOMAIN list = 1 .. n /\ \A j \in 1 .. n : CallOK(list[j]) BY CallsAre
<1>2. /\ DOMAIN abandoned = 1 .. n /\ abandoned \in [1 .. n -> T]
      /\ \A j \in 1 .. n :
           abandoned[j] = IF list[j].awaitedBy = r THEN [list[j] EXCEPT !.awaitedBy = None]
                          ELSE list[j]
  BY <1>1 DEF Abandoned
<1>3. ASSUME NEW j \in 1 .. n
      PROVE  /\ CallOK(abandoned[j])
             /\ abandoned[j].graph = list[j].graph
             /\ abandoned[j].superseded = list[j].superseded
             /\ list[j].awaitedBy # r => abandoned[j] = list[j]
  <2>1. /\ list[j] = [awaitedBy |-> list[j].awaitedBy, graph |-> list[j].graph,
                      superseded |-> list[j].superseded]
        /\ list[j].superseded \in BOOLEAN
        /\ GraphOK(list[j].graph)
    BY <1>1, CallParts
  <2>2. [list[j] EXCEPT !.awaitedBy = None]
          = [awaitedBy |-> None, graph |-> list[j].graph, superseded |-> list[j].superseded]
    BY <2>1
  <2>3. CallOK([awaitedBy |-> None, graph |-> list[j].graph,
                superseded |-> list[j].superseded])
    BY <2>1, CallMade
  <2> HIDE DEF abandoned, n
  <2> QED BY <1>1, <1>2, <2>2, <2>3
<1> HIDE DEF T, abandoned
<1>4. abandoned \in Seq(T) /\ Len(abandoned) = n BY <1>1, <1>2
<1>5. Calls(abandoned) BY <1>3, <1>4, CallsMade
<1> QED BY <1>3, <1>4, <1>5 DEF abandoned

------------------------------------------------------------------------------
\* Types

FlagsOK ==
  /\ phase \in [Replica -> {"down", "serving", "stopping", "stopped"}]
  /\ unsaved \in [Replica -> BOOLEAN]

GraphsOK ==
  /\ graph \in [Replica -> {graph[r] : r \in Replica}]
  /\ \A r \in Replica : GraphOK(graph[r])

StoredOK == latest # None => GraphOK(latest)

SavingOK == Calls(saving) /\ Len(saving) <= MaxSaving

LEMMA TypeParts == TypeOK <=> FlagsOK /\ GraphsOK /\ StoredOK /\ SavingOK
BY DEF TypeOK, FlagsOK, GraphsOK, StoredOK, SavingOK, Calls

LEMMA GraphsStep ==
  ASSUME GraphsOK, NEW r \in Replica, NEW g, GraphOK(g),
         graph' = [graph EXCEPT ![r] = g]
  PROVE  GraphsOK' /\ graph'[r] = g
<1>1. DOMAIN graph = Replica BY DEF GraphsOK
<1>2. \A s \in Replica : graph'[s] = IF s = r THEN g ELSE graph[s] BY <1>1
<1>3. DOMAIN graph' = Replica BY <1>1
<1>4. graph' = [s \in Replica |-> IF s = r THEN g ELSE graph[s]] BY <1>1
<1>5. graph' = [s \in Replica |-> graph'[s]] BY <1>2, <1>4
<1>6. graph' \in [Replica -> {graph'[s] : s \in Replica}] BY <1>5
<1>7. \A s \in Replica : GraphOK(graph'[s]) BY <1>2 DEF GraphsOK
<1> QED BY <1>2, <1>6, <1>7 DEF GraphsOK

LEMMA PhaseStep ==
  ASSUME FlagsOK, NEW r \in Replica, NEW p \in {"down", "serving", "stopping", "stopped"},
         phase' = [phase EXCEPT ![r] = p],
         \/ UNCHANGED unsaved
         \/ \E u \in BOOLEAN : unsaved' = [unsaved EXCEPT ![r] = u]
         \/ \E u : unsaved' = [s \in Replica |-> s # u]
  PROVE  FlagsOK'
<1>1. phase' \in [Replica -> {"down", "serving", "stopping", "stopped"}] BY DEF FlagsOK
<1>2. CASE UNCHANGED unsaved BY <1>1, <1>2 DEF FlagsOK
<1>3. CASE \E u \in BOOLEAN : unsaved' = [unsaved EXCEPT ![r] = u]
  <2>1. unsaved' \in [Replica -> BOOLEAN] BY <1>3 DEF FlagsOK
  <2> QED BY <1>1, <2>1 DEF FlagsOK
<1>4. CASE \E u : unsaved' = [s \in Replica |-> s # u]
  <2>1. unsaved' \in [Replica -> BOOLEAN] BY <1>4
  <2> QED BY <1>1, <2>1 DEF FlagsOK
<1> QED BY <1>2, <1>3, <1>4

LEMMA SaveStep ==
  ASSUME TypeOK, NEW r \in Replica, NEW awaitedBy \in Replica \cup {None},
         BeginSave(r, awaitedBy)
  PROVE  /\ SavingOK'
         /\ Len(saving') = Len(saving) + 1
         /\ \A i \in 1 .. Len(saving) : saving'[i] = saving[i]
         /\ saving'[Len(saving')] = [awaitedBy |-> awaitedBy, graph |-> graph[r],
                                     superseded |-> FALSE]
<1> DEFINE call == [awaitedBy |-> awaitedBy, graph |-> graph[r], superseded |-> FALSE]
<1>1. Calls(saving) /\ GraphOK(graph[r]) BY TypeParts DEF GraphsOK, SavingOK
<1>2. CallOK(call)
  <2>1. FALSE \in BOOLEAN OBVIOUS
  <2> QED BY <1>1, <2>1, CallMade, Zenon
<1>3. Len(saving) < MaxSaving /\ saving' = Append(saving, call) BY DEF BeginSave
<1> HIDE DEF call
<1>4. /\ Calls(saving')
      /\ Len(saving') = Len(saving) + 1
      /\ \A i \in 1 .. Len(saving) : saving'[i] = saving[i]
      /\ saving'[Len(saving) + 1] = call
  BY <1>1, <1>2, <1>3, AppendedCalls
<1>5. Len(saving) \in Nat /\ Len(saving') <= MaxSaving
  BY <1>1, <1>3, <1>4, CallsAre, SavingAssumption
<1>6. SavingOK' BY <1>4, <1>5 DEF SavingOK, Calls
<1> QED BY <1>4, <1>6 DEF call

LEMMA StoreStep ==
  ASSUME TypeOK, NEW i \in 1 .. Len(saving), Store(i)
  PROVE  /\ StoredOK' /\ SavingOK'
         /\ Len(saving') = Len(saving) - 1
         /\ \A j \in 1 .. i - 1 : saving'[j].superseded
         /\ \A j \in i .. Len(saving) - 1 : saving'[j] = saving[j + 1]
<1> DEFINE older == Older(saving, i)
<1>1. /\ Calls(saving) /\ Len(saving) \in Nat /\ Len(saving) <= MaxSaving
      /\ \A j \in 1 .. Len(saving) : CallOK(saving[j])
  BY TypeParts, CallsAre DEF SavingOK
<1>2. saving' = Without(older, i) BY DEF Store, Older
<1>3. /\ Calls(older) /\ Len(older) = Len(saving)
      /\ \A j \in 1 .. Len(saving) : /\ j < i => older[j].superseded
                                     /\ ~ (j < i) => older[j] = saving[j]
  BY <1>1, OlderCalls
<1> HIDE DEF older
<1>4. /\ Calls(saving') /\ Len(saving') = Len(saving) - 1
      /\ \A j \in 1 .. i - 1 : saving'[j] = older[j]
      /\ \A j \in i .. Len(saving) - 1 : saving'[j] = older[j + 1]
  BY <1>2, <1>3, AnsweredCalls
<1>5. \A j \in 1 .. i - 1 : saving'[j].superseded BY <1>1, <1>3, <1>4
<1>6. ASSUME NEW j \in i .. Len(saving) - 1 PROVE saving'[j] = saving[j + 1]
  <2>1. j + 1 \in 1 .. Len(saving) /\ ~ (j + 1 < i) BY <1>1
  <2> QED BY <1>3, <1>4, <2>1
<1>7. StoredOK'
  <2>1. GraphOK(saving[i].graph) BY <1>1, CallParts
  <2>2. latest' = latest \/ latest' = saving[i].graph BY DEF Store
  <2> QED BY <2>1, <2>2, TypeParts DEF StoredOK
<1>8. SavingOK'
  <2>1. Len(saving') <= MaxSaving BY <1>1, <1>4, SavingAssumption
  <2> QED BY <1>4, <2>1 DEF SavingOK, Calls
<1> QED BY <1>4, <1>5, <1>6, <1>7, <1>8

LEMMA FailStep ==
  ASSUME TypeOK, NEW i \in 1 .. Len(saving), saving' = Without(saving, i)
  PROVE  /\ SavingOK'
         /\ Len(saving') = Len(saving) - 1
         /\ \A j \in 1 .. i - 1 : saving'[j] = saving[j]
         /\ \A j \in i .. Len(saving) - 1 : saving'[j] = saving[j + 1]
<1>1. Calls(saving) /\ Len(saving) \in Nat /\ Len(saving) <= MaxSaving
  BY TypeParts, CallsAre DEF SavingOK
<1>2. /\ Calls(saving') /\ Len(saving') = Len(saving) - 1
      /\ \A j \in 1 .. i - 1 : saving'[j] = saving[j]
      /\ \A j \in i .. Len(saving) - 1 : saving'[j] = saving[j + 1]
  BY <1>1, AnsweredCalls
<1>3. Len(saving') <= MaxSaving BY <1>1, <1>2, SavingAssumption
<1> QED BY <1>2, <1>3 DEF SavingOK, Calls

LEMMA InitTyped == Init => TypeOK
<1> SUFFICES ASSUME Init PROVE TypeOK OBVIOUS
<1>1. FlagsOK BY DEF Init, FlagsOK
<1>2. GraphsOK
  <2>1. \A r \in Replica : graph[r] = Empty BY DEF Init
  <2>2. graph \in [Replica -> {graph[r] : r \in Replica}] BY <2>1 DEF Init
  <2> QED BY <2>1, <2>2, EmptyGraph DEF GraphsOK
<1>3. StoredOK BY DEF Init, StoredOK
<1>4. SavingOK
  <2>1. << >> \in Seq({}) /\ Len(<< >>) = 0 /\ 1 .. 0 = {} BY EmptySeq
  <2>2. Calls(<< >>) BY <2>1, CallsMade
  <2> QED BY <2>1, <2>2, SavingAssumption DEF Init, SavingOK
<1> QED BY <1>1, <1>2, <1>3, <1>4, TypeParts

LEMMA StepTyped == TypeOK /\ [Next]_vars => TypeOK'
<1> SUFFICES ASSUME TypeOK, [Next]_vars PROVE TypeOK' OBVIOUS
<1> USE TypeParts
<1>1. FlagsOK /\ GraphsOK /\ StoredOK /\ SavingOK /\ Calls(saving) BY DEF SavingOK
<1>2. UNCHANGED saving => SavingOK' BY <1>1 DEF SavingOK, Calls
<1>3. UNCHANGED latest => StoredOK' BY <1>1 DEF StoredOK
<1>4. UNCHANGED graph => GraphsOK' BY <1>1 DEF GraphsOK
<1>5. (FlagsOK /\ GraphsOK /\ StoredOK /\ SavingOK)' => TypeOK' BY PTL
<1>6. ASSUME NEW r \in Replica, Write(r) PROVE TypeOK'
  <2>1. PICK g \in Written(graph[r]) : graph' = [graph EXCEPT ![r] = g] BY <1>6 DEF Write
  <2>2. GraphOK(g) BY <1>1, <2>1, WrittenGraph DEF GraphsOK
  <2>3. GraphsOK' BY <1>1, <2>1, <2>2, GraphsStep
  <2>4. unsaved' \in [Replica -> BOOLEAN] BY <1>1, <1>6 DEF Write, FlagsOK
  <2>5. FlagsOK' BY <1>1, <1>6, <2>4 DEF Write, FlagsOK
  <2> QED BY <1>6, <1>2, <1>3, <1>5, <2>3, <2>5 DEF Write
<1>7. ASSUME NEW r \in Replica, HandlePeriodicSnapshot(r) PROVE TypeOK'
  <2>1. SavingOK' BY <1>7, SaveStep DEF HandlePeriodicSnapshot
  <2>2. unsaved' \in [Replica -> BOOLEAN] BY <1>7 DEF HandlePeriodicSnapshot, BeginSave
  <2>3. FlagsOK' BY <1>1, <1>7, <2>2 DEF HandlePeriodicSnapshot, FlagsOK
  <2> QED BY <1>7, <1>4, <1>3, <1>5, <2>1, <2>3 DEF HandlePeriodicSnapshot
<1>8. ASSUME NEW r \in Replica, OnModuleDestroy(r) PROVE TypeOK'
  <2>1. SavingOK' BY <1>8, SaveStep DEF OnModuleDestroy
  <2>2. FlagsOK' BY <1>1, <1>8, PhaseStep DEF OnModuleDestroy, BeginSave
  <2> QED BY <1>8, <1>4, <1>3, <1>5, <2>1, <2>2 DEF OnModuleDestroy
<1>9. ASSUME NEW r \in Replica, Exit(r) PROVE TypeOK'
  <2>1. FlagsOK' BY <1>1, <1>9, PhaseStep DEF Exit
  <2> QED BY <1>9, <1>4, <1>2, <1>3, <1>5, <2>1 DEF Exit
<1>10. ASSUME NEW r \in Replica, Crash(r) PROVE TypeOK'
  <2>1. saving' = Abandoned(saving, r) BY <1>10 DEF Crash, Abandoned
  <2>2. SavingOK'
    <3>1. Calls(saving') /\ Len(saving') = Len(saving) BY <1>1, <2>1, AbandonedCalls
    <3> QED BY <1>1, <3>1 DEF SavingOK, Calls
  <2>3. GraphsOK' BY <1>1, <1>10, EmptyGraph, GraphsStep DEF Crash
  <2>4. FlagsOK' BY <1>1, <1>10, PhaseStep DEF Crash
  <2> QED BY <1>10, <1>3, <1>5, <2>2, <2>3, <2>4 DEF Crash
<1>11. ASSUME NEW r \in Replica, OnModuleInit(r) PROVE TypeOK'
  <2> DEFINE g == IF latest = None THEN Empty ELSE Imported(latest)
  <2>1. GraphOK(g) BY <1>1, EmptyGraph, ImportedGraph DEF StoredOK
  <2>2. graph' = [graph EXCEPT ![r] = g] BY <1>11 DEF OnModuleInit
  <2> HIDE DEF g
  <2>3. GraphsOK' BY <1>1, <2>1, <2>2, GraphsStep
  <2>4. FlagsOK' BY <1>1, <1>11, PhaseStep DEF OnModuleInit
  <2> QED BY <1>11, <1>2, <1>3, <1>5, <2>3, <2>4 DEF OnModuleInit
<1>12. ASSUME NEW r \in Replica, OnModuleInitFails(r) PROVE TypeOK'
  <2>1. GraphsOK' BY <1>1, <1>12, EmptyGraph, GraphsStep DEF OnModuleInitFails
  <2>2. FlagsOK' BY <1>1, <1>12, PhaseStep DEF OnModuleInitFails
  <2> QED BY <1>12, <1>2, <1>3, <1>5, <2>1, <2>2 DEF OnModuleInitFails
<1>13. ASSUME SaveSucceeds PROVE TypeOK'
  <2>1. PICK i \in 1 .. Len(saving) : Store(i) BY <1>1, <1>13, CallsAre DEF SaveSucceeds
  <2>2. StoredOK' /\ SavingOK' BY <2>1, StoreStep
  <2>3. FlagsOK' BY <1>1, <1>13 DEF SaveSucceeds, FlagsOK
  <2> QED BY <1>13, <1>4, <1>5, <2>2, <2>3 DEF SaveSucceeds
<1>14. ASSUME SaveFails PROVE TypeOK'
  <2>1. PICK i \in 1 .. Len(saving) :
          /\ saving' = Without(saving, i)
          /\ unsaved' = [r \in Replica |-> unsaved[r] \/ i = Len(saving)]
    BY <1>1, <1>14, CallsAre DEF SaveFails
  <2>2. SavingOK' BY <2>1, FailStep
  <2>3. unsaved' \in [Replica -> BOOLEAN] BY <2>1
  <2>4. FlagsOK' BY <1>1, <1>14, <2>3 DEF SaveFails, FlagsOK
  <2> QED BY <1>14, <1>4, <1>3, <1>5, <2>2, <2>4 DEF SaveFails
<1>15. CASE UNCHANGED vars
  <2>1. FlagsOK' BY <1>1, <1>15 DEF vars, FlagsOK
  <2> QED BY <1>15, <1>4, <1>2, <1>3, <1>5, <2>1 DEF vars
<1> QED BY <1>6, <1>7, <1>8, <1>9, <1>10, <1>11, <1>12, <1>13, <1>14, <1>15 DEF Next

\* Every graph, in memory, on its way to the store or in it, has one list of
\* dependencies for each of its services and for nothing else.
THEOREM PersistenceTypeCorrect == Spec => []TypeOK
<1>1. Init => TypeOK BY InitTyped
<1>2. TypeOK /\ [Next]_vars => TypeOK' BY StepTyped
<1> QED BY <1>1, <1>2, PTL DEF Spec

------------------------------------------------------------------------------
\* What was exported last

\* No save that began after the last one in the store is superseded.
SupersededFirst ==
  \A i, j \in 1 .. Len(saving) :
    i < j /\ saving[j].superseded => saving[i].superseded

\* The last save that began, and did not fail, is in the store.
LastIsStored == Len(saving) = 0 \/ saving[Len(saving)].superseded

LastExported == IF LastIsStored THEN latest ELSE saving[Len(saving)].graph

ExportedLast ==
  \A r \in Replica :
    phase[r] # "down" /\ ~ unsaved[r] => LastExported = graph[r]

\* The save that a stopping replica waits for is the last one, or is stored.
StoppingSaves ==
  \A r \in Replica :
    /\ phase[r] = "stopping" /\ ~ unsaved[r] /\ ~ LastIsStored =>
         saving[Len(saving)].awaitedBy = r
    /\ phase[r] = "stopped" /\ ~ unsaved[r] => LastIsStored

PersistenceInv == SupersededFirst /\ ExportedLast /\ StoppingSaves

LEMMA NewestIsLast ==
  ASSUME SavingOK, SupersededFirst
  PROVE  Newest = LastExported
<1> DEFINE n == Len(saving)
           pending == {i \in DOMAIN saving : ~ saving[i].superseded}
<1>1. n \in Nat /\ DOMAIN saving = 1 .. n BY CallsAre DEF SavingOK
<1>2. Newest = IF pending = {} THEN latest
               ELSE saving[CHOOSE i \in pending : \A j \in pending : j <= i].graph
  BY DEF Newest
<1>3. CASE LastIsStored
  <2>1. pending = {}
    <3>1. ASSUME NEW i \in 1 .. n PROVE saving[i].superseded
      <4> HIDE DEF n
      <4>1. n # 0 /\ n \in 1 .. n /\ (i < n \/ i = n) BY <1>1
      <4>2. saving[n].superseded BY <1>3, <4>1 DEF LastIsStored, n
      <4> QED BY <4>1, <4>2 DEF SupersededFirst, n
    <3> QED BY <1>1, <3>1
  <2> QED BY <1>2, <1>3, <2>1 DEF LastExported
<1>4. CASE ~ LastIsStored
  <2>1. n \in pending /\ \A j \in pending : j <= n BY <1>1, <1>4 DEF LastIsStored
  <2>2. ASSUME NEW i \in pending, \A j \in pending : j <= i PROVE i = n
    BY <1>1, <2>1, <2>2
  <2> DEFINE last == CHOOSE i \in pending : \A j \in pending : j <= i
  <2>3. last \in pending /\ \A j \in pending : j <= last BY <2>1
  <2>4. last = n BY <2>2, <2>3
  <2>5. Newest = saving[last].graph BY <1>2, <2>1
  <2> HIDE DEF pending, last
  <2> QED BY <1>4, <2>4, <2>5 DEF LastExported
<1> QED BY <1>3, <1>4

\* What a save leaves of the calls in flight, and what it makes of the newest.
LEMMA SaveExports ==
  ASSUME TypeOK, SupersededFirst, NEW r \in Replica, NEW awaitedBy \in Replica \cup {None},
         BeginSave(r, awaitedBy), UNCHANGED <<graph, latest>>
  PROVE  /\ SupersededFirst' /\ ~ LastIsStored'
         /\ saving'[Len(saving')].awaitedBy = awaitedBy
         /\ LastExported' = graph'[r]
<1> DEFINE n == Len(saving)
<1>1. n \in Nat BY TypeParts, CallsAre DEF SavingOK
<1>2. /\ Len(saving') = n + 1
      /\ \A i \in 1 .. n : saving'[i] = saving[i]
      /\ saving'[n + 1] = [awaitedBy |-> awaitedBy, graph |-> graph[r], superseded |-> FALSE]
  BY SaveStep
<1> HIDE DEF n
<1>3. /\ saving'[n + 1].awaitedBy = awaitedBy /\ saving'[n + 1].graph = graph[r]
      /\ ~ saving'[n + 1].superseded
  BY <1>2
<1>4. ASSUME NEW i \in 1 .. n + 1, NEW j \in 1 .. n + 1, i < j, saving'[j].superseded
      PROVE  saving'[i].superseded
  <2>1. j # n + 1 BY <1>3, <1>4
  <2>2. i \in 1 .. n /\ j \in 1 .. n BY <1>1, <1>4, <2>1
  <2> QED BY <1>2, <1>4, <2>2 DEF SupersededFirst, n
<1>5. SupersededFirst' BY <1>2, <1>4 DEF SupersededFirst
<1>6. ~ LastIsStored' BY <1>1, <1>2, <1>3 DEF LastIsStored
<1> QED BY <1>2, <1>3, <1>5, <1>6 DEF LastExported

LEMMA StoreExports ==
  ASSUME TypeOK, SupersededFirst, NEW i \in 1 .. Len(saving), Store(i)
  PROVE  /\ SupersededFirst'
         /\ LastIsStored => LastIsStored'
         /\ ~ LastIsStored' => saving'[Len(saving')] = saving[Len(saving)]
         /\ LastExported' = LastExported
<1> DEFINE n == Len(saving)
<1>1. n \in Nat /\ i \in 1 .. n BY TypeParts, CallsAre DEF SavingOK
<1>2. /\ Len(saving') = n - 1
      /\ \A j \in 1 .. i - 1 : saving'[j].superseded
      /\ \A j \in i .. n - 1 : saving'[j] = saving[j + 1]
  BY StoreStep
<1>3. latest' = IF saving[i].superseded THEN latest ELSE saving[i].graph BY DEF Store
<1>4. \A j, k \in 1 .. n : j < k /\ saving[k].superseded => saving[j].superseded
  BY DEF SupersededFirst
<1>5. LastIsStored <=> saving[n].superseded BY <1>1 DEF LastIsStored
<1>6. LastIsStored' <=> n - 1 = 0 \/ saving'[n - 1].superseded BY <1>2 DEF LastIsStored
<1> HIDE DEF n
<1>7. ASSUME NEW j \in 1 .. n - 1, NEW k \in 1 .. n - 1, j < k, saving'[k].superseded
      PROVE  saving'[j].superseded
  <2>1. CASE j \in 1 .. i - 1 BY <1>2, <2>1
  <2>2. CASE j \notin 1 .. i - 1
    <3>1. /\ j \in i .. n - 1 /\ k \in i .. n - 1
          /\ j + 1 \in 1 .. n /\ k + 1 \in 1 .. n /\ j + 1 < k + 1
      BY <1>1, <1>7, <2>2
    <3> QED BY <1>2, <1>4, <1>7, <3>1
  <2> QED BY <2>1, <2>2
<1>8. SupersededFirst' BY <1>2, <1>7 DEF SupersededFirst
<1>9. CASE i = n
  <2>1. LastIsStored'
    <3>1. n - 1 = 0 \/ n - 1 \in 1 .. i - 1 BY <1>1, <1>9
    <3> QED BY <1>2, <1>6, <3>1
  <2>2. LastExported' = latest' BY <2>1 DEF LastExported
  <2>3. LastExported = IF saving[i].superseded THEN latest ELSE saving[i].graph
    BY <1>5, <1>9 DEF LastExported, n
  <2> QED BY <1>3, <1>8, <2>1, <2>2, <2>3
<1>10. CASE i # n
  <2>1. n - 1 \in i .. n - 1 /\ n - 1 # 0 /\ (n - 1) + 1 = n /\ i < n /\ n \in 1 .. n
    BY <1>1, <1>10
  <2>2. saving'[n - 1] = saving[n] BY <1>2, <2>1
  <2>3. LastIsStored' <=> LastIsStored BY <1>5, <1>6, <2>1, <2>2
  <2>4. CASE LastIsStored
    <3>1. saving[i].superseded BY <1>1, <1>4, <1>5, <2>1, <2>4
    <3> QED BY <1>3, <1>8, <2>3, <2>4, <3>1 DEF LastExported
  <2>5. CASE ~ LastIsStored
    <3> QED BY <1>2, <1>8, <2>2, <2>3, <2>5 DEF LastExported, n
  <2> QED BY <2>4, <2>5
<1> QED BY <1>9, <1>10

LEMMA FailExports ==
  ASSUME TypeOK, SupersededFirst, NEW i \in 1 .. Len(saving), saving' = Without(saving, i),
         UNCHANGED latest
  PROVE  /\ SupersededFirst'
         /\ i # Len(saving) => /\ LastIsStored' <=> LastIsStored
                               /\ saving'[Len(saving')] = saving[Len(saving)]
                               /\ LastExported' = LastExported
<1> DEFINE n == Len(saving)
<1>1. n \in Nat /\ i \in 1 .. n BY TypeParts, CallsAre DEF SavingOK
<1>2. /\ Len(saving') = n - 1
      /\ \A j \in 1 .. i - 1 : saving'[j] = saving[j]
      /\ \A j \in i .. n - 1 : saving'[j] = saving[j + 1]
  BY FailStep
<1>4. \A j, k \in 1 .. n : j < k /\ saving[k].superseded => saving[j].superseded
  BY DEF SupersededFirst
<1>5. LastIsStored <=> saving[n].superseded BY <1>1 DEF LastIsStored
<1>6. LastIsStored' <=> n - 1 = 0 \/ saving'[n - 1].superseded BY <1>2 DEF LastIsStored
<1> HIDE DEF n
<1>7. ASSUME NEW j \in 1 .. n - 1, NEW k \in 1 .. n - 1, j < k, saving'[k].superseded
      PROVE  saving'[j].superseded
  <2>1. \A m \in 1 .. n - 1 :
          \/ m \in 1 .. i - 1 /\ m \in 1 .. n /\ m < i
          \/ m \in i .. n - 1 /\ m + 1 \in 1 .. n /\ ~ (m < i)
    BY <1>1
  <2>2. PICK at \in 1 .. n : saving'[j] = saving[at] /\ at = IF j < i THEN j ELSE j + 1
    BY <1>2, <2>1
  <2>3. PICK from \in 1 .. n : saving'[k] = saving[from] /\ from = IF k < i THEN k ELSE k + 1
    BY <1>2, <2>1
  <2>4. at < from BY <1>1, <1>7, <2>2, <2>3
  <2> QED BY <1>4, <1>7, <2>2, <2>3, <2>4
<1>8. SupersededFirst' BY <1>2, <1>7 DEF SupersededFirst
<1>9. ASSUME i # n
      PROVE  /\ LastIsStored' <=> LastIsStored
             /\ saving'[Len(saving')] = saving[n]
             /\ LastExported' = LastExported
  <2>1. n - 1 \in i .. n - 1 /\ n - 1 # 0 /\ (n - 1) + 1 = n BY <1>1, <1>9
  <2>2. saving'[n - 1] = saving[n] BY <1>2, <2>1
  <2>3. LastIsStored' <=> LastIsStored BY <1>5, <1>6, <2>1, <2>2
  <2> QED BY <1>2, <2>2, <2>3 DEF LastExported, n
<1> QED BY <1>8, <1>9 DEF n

LEMMA CrashExports ==
  ASSUME TypeOK, SupersededFirst, NEW r \in Replica, Crash(r)
  PROVE  /\ SupersededFirst' /\ (LastIsStored' <=> LastIsStored)
         /\ LastExported' = LastExported
         /\ ~ LastIsStored /\ saving[Len(saving)].awaitedBy # r =>
              saving'[Len(saving')] = saving[Len(saving)]
<1> DEFINE n == Len(saving)
<1>1. Calls(saving) /\ n \in Nat BY TypeParts, CallsAre DEF SavingOK
<1>2. saving' = Abandoned(saving, r) /\ latest' = latest BY DEF Crash, Abandoned
<1>3. /\ Len(saving') = n
      /\ \A j \in 1 .. n : /\ saving'[j].graph = saving[j].graph
                           /\ saving'[j].superseded = saving[j].superseded
                           /\ saving[j].awaitedBy # r => saving'[j] = saving[j]
  BY <1>1, <1>2, AbandonedCalls
<1>4. n = 0 \/ n \in 1 .. n BY <1>1
<1>5. SupersededFirst' BY <1>3 DEF SupersededFirst
<1>6. LastIsStored' <=> LastIsStored BY <1>3, <1>4 DEF LastIsStored
<1>7. ~ LastIsStored => n \in 1 .. n BY <1>4 DEF LastIsStored
<1>8. LastExported' = LastExported BY <1>2, <1>3, <1>6, <1>7 DEF LastExported
<1> QED BY <1>3, <1>5, <1>6, <1>7, <1>8

LEMMA StepExported == TypeOK /\ PersistenceInv /\ [Next]_vars => PersistenceInv'
<1> SUFFICES ASSUME TypeOK, PersistenceInv, [Next]_vars PROVE PersistenceInv' OBVIOUS
<1>1. SupersededFirst /\ ExportedLast /\ StoppingSaves /\ FlagsOK /\ GraphsOK /\ SavingOK
  BY TypeParts DEF PersistenceInv
<1>2. ASSUME UNCHANGED <<saving, latest>>
      PROVE  /\ SupersededFirst' /\ (LastIsStored' <=> LastIsStored)
             /\ LastExported' = LastExported
  BY <1>1, <1>2 DEF SupersededFirst, LastIsStored, LastExported
\* What holds after the step of the replicas that have nothing unsaved.
<1>3. ASSUME SupersededFirst',
             \A s \in Replica : ~ unsaved'[s] =>
               /\ phase'[s] # "down" => LastExported' = graph'[s]
               /\ phase'[s] = "stopping" /\ ~ LastIsStored' =>
                    saving'[Len(saving')].awaitedBy = s
               /\ phase'[s] = "stopped" => LastIsStored'
      PROVE  PersistenceInv'
  BY <1>3 DEF PersistenceInv, ExportedLast, StoppingSaves
<1>4. ASSUME NEW r \in Replica, Write(r) PROVE PersistenceInv'
  <2>1. /\ unsaved' = [unsaved EXCEPT ![r] = TRUE]
        /\ \E g : graph' = [graph EXCEPT ![r] = g]
        /\ UNCHANGED <<phase, saving, latest>>
    BY <1>4 DEF Write
  <2>2. \A s \in Replica : ~ unsaved'[s] => s # r /\ ~ unsaved[s] /\ graph'[s] = graph[s]
    BY <1>1, <2>1 DEF FlagsOK, GraphsOK
  <2> QED BY <1>1, <1>2, <1>3, <2>1, <2>2 DEF ExportedLast, StoppingSaves
<1>5. ASSUME NEW r \in Replica, HandlePeriodicSnapshot(r) PROVE PersistenceInv'
  <2>1. SupersededFirst' /\ ~ LastIsStored' /\ LastExported' = graph'[r]
    BY <1>1, <1>5, SaveExports DEF HandlePeriodicSnapshot
  <2>2. /\ phase[r] = "serving" /\ phase' = phase
        /\ \A s \in Replica : unsaved'[s] <=> s # r
    BY <1>5 DEF HandlePeriodicSnapshot, BeginSave
  <2> QED BY <1>3, <2>1, <2>2
<1>6. ASSUME NEW r \in Replica, OnModuleDestroy(r) PROVE PersistenceInv'
  <2>1. /\ SupersededFirst' /\ ~ LastIsStored' /\ LastExported' = graph'[r]
        /\ saving'[Len(saving')].awaitedBy = r
    BY <1>1, <1>6, SaveExports DEF OnModuleDestroy
  <2>2. /\ phase'[r] = "stopping"
        /\ \A s \in Replica : unsaved'[s] <=> s # r
    BY <1>1, <1>6 DEF OnModuleDestroy, BeginSave, FlagsOK
  <2> QED BY <1>3, <2>1, <2>2
<1>7. ASSUME NEW r \in Replica, Exit(r) PROVE PersistenceInv'
  <2>1. /\ phase[r] = "stopping" /\ phase' = [phase EXCEPT ![r] = "stopped"]
        /\ \A i \in DOMAIN saving : saving[i].awaitedBy # r
        /\ UNCHANGED <<graph, saving, latest, unsaved>>
    BY <1>7 DEF Exit
  <2>2. ~ unsaved[r] => LastIsStored
    <3>1. Len(saving) \in Nat /\ DOMAIN saving = 1 .. Len(saving)
      BY <1>1, CallsAre DEF SavingOK
    <3>2. ~ LastIsStored => Len(saving) \in DOMAIN saving BY <3>1 DEF LastIsStored
    <3> QED BY <1>1, <2>1, <3>2 DEF StoppingSaves
  <2>3. phase'[r] = "stopped" /\ \A s \in Replica : s # r => phase'[s] = phase[s]
    BY <1>1, <2>1 DEF FlagsOK
  <2> QED BY <1>1, <1>2, <1>3, <2>1, <2>2, <2>3 DEF ExportedLast, StoppingSaves
<1>8. ASSUME NEW r \in Replica, Crash(r) PROVE PersistenceInv'
  <2>1. /\ SupersededFirst' /\ (LastIsStored' <=> LastIsStored)
        /\ LastExported' = LastExported
        /\ ~ LastIsStored /\ saving[Len(saving)].awaitedBy # r =>
             saving'[Len(saving')] = saving[Len(saving)]
    BY <1>1, <1>8, CrashExports
  <2>2. /\ phase'[r] = "down"
        /\ \A s \in Replica : s # r => /\ phase'[s] = phase[s] /\ graph'[s] = graph[s]
                                       /\ unsaved'[s] = unsaved[s]
    BY <1>1, <1>8 DEF Crash, FlagsOK, GraphsOK
  <2> QED BY <1>1, <1>3, <2>1, <2>2 DEF ExportedLast, StoppingSaves
<1>9. ASSUME NEW r \in Replica, OnModuleInit(r) PROVE PersistenceInv'
  <2>1. /\ phase' = [phase EXCEPT ![r] = "serving"]
        /\ \E g : graph' = [graph EXCEPT ![r] = g]
        /\ unsaved' = [unsaved EXCEPT ![r] = graph'[r] # Newest]
        /\ UNCHANGED <<saving, latest>>
    BY <1>9 DEF OnModuleInit
  <2>2. Newest = LastExported BY <1>1, NewestIsLast
  <2>3. /\ phase'[r] = "serving" /\ (~ unsaved'[r] => graph'[r] = Newest)
        /\ \A s \in Replica : s # r => /\ phase'[s] = phase[s] /\ graph'[s] = graph[s]
                                       /\ unsaved'[s] = unsaved[s]
    BY <1>1, <2>1 DEF FlagsOK, GraphsOK
  <2> QED BY <1>1, <1>2, <1>3, <2>1, <2>2, <2>3 DEF ExportedLast, StoppingSaves
<1>10. ASSUME NEW r \in Replica, OnModuleInitFails(r) PROVE PersistenceInv'
  <2>1. /\ unsaved'[r] /\ UNCHANGED <<saving, latest>>
        /\ \A s \in Replica : s # r => /\ phase'[s] = phase[s] /\ graph'[s] = graph[s]
                                       /\ unsaved'[s] = unsaved[s]
    BY <1>1, <1>10 DEF OnModuleInitFails, FlagsOK, GraphsOK
  <2> QED BY <1>1, <1>2, <1>3, <2>1 DEF ExportedLast, StoppingSaves
<1>11. ASSUME SaveSucceeds PROVE PersistenceInv'
  <2>1. PICK i \in 1 .. Len(saving) : Store(i) BY <1>1, <1>11, CallsAre DEF SaveSucceeds, SavingOK
  <2>2. /\ SupersededFirst'
        /\ LastIsStored => LastIsStored'
        /\ ~ LastIsStored' => saving'[Len(saving')] = saving[Len(saving)]
        /\ LastExported' = LastExported
    BY <1>1, <2>1, StoreExports
  <2>3. UNCHANGED <<phase, graph, unsaved>> BY <1>11 DEF SaveSucceeds
  <2> QED BY <1>1, <1>3, <2>2, <2>3 DEF ExportedLast, StoppingSaves
<1>12. ASSUME SaveFails PROVE PersistenceInv'
  <2>1. PICK i \in 1 .. Len(saving) :
          /\ saving' = Without(saving, i)
          /\ unsaved' = [r \in Replica |-> unsaved[r] \/ i = Len(saving)]
    BY <1>1, <1>12, CallsAre DEF SaveFails, SavingOK
  <2>2. UNCHANGED <<phase, graph, latest>> BY <1>12 DEF SaveFails
  <2>3. /\ SupersededFirst'
        /\ i # Len(saving) => /\ LastIsStored' <=> LastIsStored
                              /\ saving'[Len(saving')] = saving[Len(saving)]
                              /\ LastExported' = LastExported
    BY <1>1, <2>1, <2>2, FailExports
  <2>4. \A s \in Replica : ~ unsaved'[s] => ~ unsaved[s] /\ i # Len(saving) BY <2>1
  <2> QED BY <1>1, <1>3, <2>2, <2>3, <2>4 DEF ExportedLast, StoppingSaves
<1>13. CASE UNCHANGED vars
  BY <1>1, <1>2, <1>3, <1>13 DEF vars, ExportedLast, StoppingSaves
<1> QED BY <1>4, <1>5, <1>6, <1>7, <1>8, <1>9, <1>10, <1>11, <1>12, <1>13 DEF Next

LEMMA InitExported == Init => PersistenceInv
<1> SUFFICES ASSUME Init PROVE PersistenceInv OBVIOUS
<1>1. Len(saving) = 0 /\ \A r \in Replica : phase[r] = "down" BY EmptySeq DEF Init
<1> QED BY <1>1 DEF PersistenceInv, SupersededFirst, ExportedLast, StoppingSaves

LEMMA ExportedIsNewest ==
  ASSUME TypeOK, PersistenceInv
  PROVE  ExportedGraphIsNewest
<1>1. SupersededFirst /\ ExportedLast /\ StoppingSaves BY DEF PersistenceInv
<1>2. Newest = LastExported BY <1>1, TypeParts, NewestIsLast
<1> QED BY <1>1, <1>2 DEF ExportedGraphIsNewest, ExportedLast, StoppingSaves, LastExported

\* However many replicas share the store, and however late the answers to the
\* saves in flight arrive or fail, a replica whose writes were all exported by
\* the last save any replica began has its graph in the newest snapshot, and
\* after a clean exit in the store (saveSnapshot, onModuleDestroy).
THEOREM ExportsReachTheStore == Spec => []ExportedGraphIsNewest
<1>1. Init => TypeOK /\ PersistenceInv BY InitTyped, InitExported
<1>2. TypeOK /\ PersistenceInv /\ [Next]_vars => TypeOK' /\ PersistenceInv'
  BY StepTyped, StepExported
<1>3. TypeOK /\ PersistenceInv => ExportedGraphIsNewest BY ExportedIsNewest
<1> QED BY <1>1, <1>2, <1>3, PTL DEF Spec

==============================================================================
