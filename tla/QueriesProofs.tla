---------------------------- MODULE QueriesProofs ----------------------------
(***************************************************************************)
(* Proofs about the queries of the topology service, about what the        *)
(* analysis service computes from its exported graph, about the comparison *)
(* of snapshots of it, and about the compatibility of schemas: for every   *)
(* set of services, types and data, every graph the writes can make, every *)
(* limit and every order of the keys of a Map.                             *)
(***************************************************************************)
EXTENDS RegistrySnapshots, Compatibility, TopologyGraphProofs, ListsProofs

------------------------------------------------------------------------------
\* Services by their distance

\* The services in reach of those in from over one link.
Targets(links, from) == {l[2] : l \in {k \in links : k[1] \in from}}

\* The services exactly d links away, when W[d] has those at most d away.
Layer(W, d) == {n \in W[d] : \A j \in 0 .. d - 1 : n \notin W[j]}

\* W[d] has the services at most d links away from s in a graph of the services ids.
Reach(W, ids, links, s) ==
  links \in SUBSET (ids \X ids) /\ s \in ids /\ W = Within(links, s)

LEMMA WithinIsRecursive ==
  ASSUME NEW ids, NEW links, NEW s, NEW U, Reach(U, ids, links, s)
  PROVE  U[0] = {s} /\ \A d \in Nat : U[d + 1] = U[d] \cup Targets(links, U[d])
<1>0. links \in SUBSET (ids \X ids) /\ s \in ids /\ U = Within(links, s) BY DEF Reach
<1> DEFINE step == [d \in Nat |-> [w \in SUBSET ids |-> w \cup Targets(links, w)]]
           Next0(f, d) == IF d = 0 THEN {s} ELSE f[d - 1] \cup Targets(links, f[d - 1])
           W == CHOOSE f : f = [d \in Nat |-> Next0(f, d)]
<1>1. Within(links, s) = W BY DEF Within, Targets
<1>2. \A w : Targets(links, w) \subseteq ids BY <1>0 DEF Targets
<1>3. step \in StepsIn(SUBSET ids) BY <1>2 DEF StepsIn
<1>4. {s} \in SUBSET ids BY <1>0
<1>5. PICK f : Recursion(f, SUBSET ids, {s}, step) BY <1>3, <1>4, NatRecursion
<1>6. f = [d \in Nat |-> Next0(f, d)]
  <2>1. f \in [Nat -> SUBSET ids] /\ f[0] = {s} BY <1>5 DEF Recursion
  <2>2. ASSUME NEW d \in Nat, d # 0 PROVE f[d] = f[d - 1] \cup Targets(links, f[d - 1])
    <3>1. d - 1 \in Nat /\ (d - 1) + 1 = d BY <2>2
    <3>2. f[(d - 1) + 1] = step[d - 1][f[d - 1]] BY <1>5, <3>1 DEF Recursion
    <3> QED BY <2>1, <3>1, <3>2
  <2>3. \A d \in Nat : f[d] = Next0(f, d) BY <2>1, <2>2
  <2> HIDE DEF Next0
  <2> QED BY <2>1, <2>3
<1> HIDE DEF step
<1>7. W = [d \in Nat |-> Next0(W, d)]
  <2> HIDE DEF Next0
  <2> QED BY <1>6
<1> HIDE DEF W
<1>8. W[0] = {s} BY <1>7
<1>9. ASSUME NEW d \in Nat PROVE W[d + 1] = W[d] \cup Targets(links, W[d])
  <2>1. d + 1 \in Nat /\ d + 1 # 0 /\ (d + 1) - 1 = d OBVIOUS
  <2>2. W[d + 1] = Next0(W, d + 1) BY <1>7, <2>1
  <2> QED BY <2>1, <2>2
<1> QED BY <1>0, <1>1, <1>8, <1>9

LEMMA WithinLevels ==
  ASSUME NEW ids, NEW links, NEW s, NEW W, Reach(W, ids, links, s)
  PROVE  /\ W[0] = {s}
         /\ \A d \in Nat : W[d] \subseteq ids /\ s \in W[d]
         /\ \A d, e \in Nat : d <= e => W[d] \subseteq W[e]
         /\ \A d \in Nat : \A n \in W[d + 1] :
              n \in W[d] \/ \E m \in W[d] : <<m, n>> \in links
         /\ \A d \in Nat : \A m \in W[d], n \in ids :
              <<m, n>> \in links => n \in W[d + 1]
<1>0. links \in SUBSET (ids \X ids) /\ s \in ids BY DEF Reach
<1>1. W[0] = {s} /\ \A d \in Nat : W[d + 1] = W[d] \cup Targets(links, W[d])
  BY WithinIsRecursive
<1>2. \A w, n : n \in Targets(links, w) <=> \E m \in w : <<m, n>> \in links
  <2>1. \A l \in links : l = <<l[1], l[2]>> /\ l[2] \in ids BY <1>0
  <2> QED BY <2>1 DEF Targets
<1>3. \A w : Targets(links, w) \subseteq ids BY <1>0 DEF Targets
<1>4. \A d \in Nat : W[d] \subseteq ids /\ s \in W[d]
  <2> DEFINE good == {d \in Nat : W[d] \subseteq ids /\ s \in W[d]}
  <2>1. 0 \in good BY <1>0, <1>1
  <2>2. \A d \in Nat : d \in good => d + 1 \in good BY <1>1, <1>3
  <2> HIDE DEF good
  <2>3. Nat \subseteq good BY <2>1, <2>2, NatBySteps
  <2> QED BY <2>3 DEF good
<1>5. ASSUME NEW d \in Nat PROVE \A e \in Nat : d <= e => W[d] \subseteq W[e]
  <2> DEFINE good == {i \in Nat : W[d] \subseteq W[d + i]}
  <2>1. 0 \in good OBVIOUS
  <2>2. ASSUME NEW i \in Nat, i \in good PROVE i + 1 \in good
    <3>1. d + i \in Nat /\ d + (i + 1) = (d + i) + 1 OBVIOUS
    <3>2. W[d + i] \subseteq W[(d + i) + 1] BY <1>1, <3>1
    <3> QED BY <2>2, <3>1, <3>2
  <2> HIDE DEF good
  <2>3. Nat \subseteq good BY <2>1, <2>2, NatBySteps
  <2> SUFFICES ASSUME NEW e \in Nat, d <= e PROVE W[d] \subseteq W[e] OBVIOUS
  <2>4. e - d \in Nat /\ d + (e - d) = e OBVIOUS
  <2> QED BY <2>3, <2>4 DEF good
<1>6. \A d \in Nat : \A n \in W[d + 1] : n \in W[d] \/ \E m \in W[d] : <<m, n>> \in links
  BY <1>1, <1>2
<1>7. \A d \in Nat : \A m \in W[d], n \in ids : <<m, n>> \in links => n \in W[d + 1]
  BY <1>1, <1>2
<1> QED BY <1>1, <1>4, <1>5, <1>6, <1>7

LEMMA LayersApart ==
  ASSUME NEW W, NEW d \in Nat, NEW e \in Nat, NEW n \in Layer(W, d), n \in Layer(W, e)
  PROVE  d = e
<1>1. ~ (d < e) /\ ~ (e < d) BY DEF Layer
<1> QED BY <1>1

\* A service found at level h + 1 that was not there at level h.
LEMMA NextLayer ==
  ASSUME NEW ids, NEW links, NEW s, NEW W, Reach(W, ids, links, s),
         NEW h \in Nat, NEW n \in W[h + 1], n \notin W[h]
  PROVE  n \in Layer(W, h + 1)
<1> SUFFICES ASSUME NEW j \in 0 .. h PROVE n \notin W[j] BY DEF Layer
<1>1. W[j] \subseteq W[h] BY WithinLevels
<1> QED BY <1>1

\* Every service in reach has one distance.
LEMMA SomeLayer ==
  ASSUME NEW W, NEW d \in Nat, NEW n \in W[d]
  PROVE  \E e \in 0 .. d : n \in Layer(W, e)
<1> DEFINE levels == {j \in 0 .. d : n \in W[j]}
<1>1. levels \in SUBSET Nat /\ d \in levels OBVIOUS
<1>2. PICK e \in levels : \A j \in levels : ~ (j < e) BY <1>1, LeastOfSet
<1>3. \A j \in 0 .. e - 1 : j \in 0 .. d /\ j < e OBVIOUS
<1>4. n \in Layer(W, e) BY <1>2, <1>3 DEF Layer
<1> QED BY <1>4

\* Distances gives each service its layer, and is determined by that.
LEMMA DistancesAreLayers ==
  ASSUME NEW links, NEW s, NEW limit \in Nat, NEW W, W = Within(links, s)
  PROVE  /\ DOMAIN Distances(links, s, limit) = W[limit] \ {s}
         /\ \A n \in W[limit] \ {s} : /\ Distances(links, s, limit)[n] \in 0 .. limit
                                      /\ n \in Layer(W, Distances(links, s, limit)[n])
<1> DEFINE Levels(n) == {d \in 0 .. limit : n \in W[d]}
<1>1. Distances(links, s, limit) = [n \in W[limit] \ {s} |-> Min(Levels(n))]
  <2> DEFINE V == [d \in 0 .. limit |-> W[d]]
  <2>1. \A d \in 0 .. limit : V[d] = W[d] OBVIOUS
  <2>2. Distances(links, s, limit)
          = [n \in V[limit] \ {s} |-> Min({d \in 0 .. limit : n \in V[d]})]
    BY DEF Distances
  <2>3. \A n : {d \in 0 .. limit : n \in V[d]} = Levels(n) BY <2>1
  <2> HIDE DEF V
  <2> QED BY <2>1, <2>2, <2>3
<1>2. ASSUME NEW n \in W[limit] \ {s}
      PROVE  Min(Levels(n)) \in 0 .. limit /\ n \in Layer(W, Min(Levels(n)))
  <2>1. Levels(n) \in SUBSET Nat /\ limit \in Levels(n) OBVIOUS
  <2>2. \E e \in Levels(n) : \A j \in Levels(n) : e <= j
    <3>1. \E e \in Levels(n) : \A j \in Levels(n) : ~ (j < e)
      <4> HIDE DEF Levels
      <4> QED BY <2>1, LeastOfSet
    <3> QED BY <3>1
  <2>3. Min(Levels(n)) \in Levels(n) /\ \A j \in Levels(n) : Min(Levels(n)) <= j
    <3> HIDE DEF Levels
    <3> QED BY <2>2 DEF Min
  <2> DEFINE m == Min(Levels(n))
  <2>4. m \in 0 .. limit /\ n \in W[m] /\ \A j \in 0 .. limit : n \in W[j] => m <= j
    <3> HIDE DEF m
    <3> QED BY <2>3 DEF m
  <2> HIDE DEF m
  <2> QED BY <2>4 DEF Layer, m
<1> HIDE DEF Levels
<1> QED BY <1>1, <1>2

LEMMA LayersAreDistances ==
  ASSUME NEW links, NEW s, NEW limit \in Nat, NEW W, W = Within(links, s),
         NEW answer, answer = [n \in W[limit] \ {s} |-> answer[n]],
         \A n \in W[limit] \ {s} : answer[n] \in Nat /\ n \in Layer(W, answer[n])
  PROVE  answer = Distances(links, s, limit)
<1> DEFINE D == Distances(links, s, limit)
<1>1. /\ DOMAIN D = W[limit] \ {s}
      /\ \A n \in W[limit] \ {s} : D[n] \in 0 .. limit /\ n \in Layer(W, D[n])
  BY DistancesAreLayers
<1>2. D = [n \in DOMAIN D |-> D[n]] BY DEF Distances
<1> HIDE DEF D
<1>3. ASSUME NEW n \in W[limit] \ {s} PROVE answer[n] = D[n]
  <2>1. answer[n] \in Nat /\ n \in Layer(W, answer[n]) OBVIOUS
  <2>2. D[n] \in Nat /\ n \in Layer(W, D[n]) BY <1>1
  <2> QED BY <2>1, <2>2, LayersApart
<1> QED BY <1>1, <1>2, <1>3 DEF D

------------------------------------------------------------------------------
\* A walk that marks a service when it takes it from the queue

\* next gives each service the services it has links to, in some order.
Neighbours(next, ids, links) ==
  /\ next \in [ids -> Seq(ids)]
  /\ \A n \in ids : ToSet(next[n]) = {m \in ids : <<n, m>> \in links}

Ids(items) == {x.id : x \in items}

\* The first k entries of the queue are those of level h that are left, the
\* others are those of the next level.
QueueAt(W, h, k, queue) ==
  /\ k <= Len(queue)
  /\ \A x \in Ahead(queue, k) : x.depth = h /\ x.id \in W[h]
  /\ \A x \in Behind(queue, k) : x.depth = h + 1 /\ x.id \in W[h + 1]

\* What is marked is marked with its distance.
MarkedAt(W, limit, marked, depth) ==
  \A n \in marked : depth[n] \in 0 .. limit /\ n \in Layer(W, depth[n])

\* The levels before h are marked, level h is marked or still in the queue, and so
\* is what the marked services have links to.  The start is never marked: as long
\* as an entry of it is left, its links may still have to be followed.
Covered(W, ids, links, s, h, ahead, behind, visited) ==
  /\ s \notin visited
  /\ h > 0 => W[h - 1] \ {s} \subseteq visited
  /\ \A n \in W[h] \ {s} : n \in visited \/ n \in Ids(ahead)
  /\ \A m \in visited \cup {s}, n \in ids \ {s} :
       <<m, n>> \in links => \/ n \in visited
                             \/ n \in Ids(ahead \cup behind)
                             \/ m = s /\ s \in Ids(ahead)

Walking(W, ids, links, s, limit, h, k, st) ==
  /\ st \in Marking(ids)
  /\ QueueAt(W, h, k, st.queue)
  /\ MarkedAt(W, limit, st.visited, st.depth)
  /\ h <= limit => Covered(W, ids, links, s, h, Ahead(st.queue, k),
                           Behind(st.queue, k), st.visited)
  /\ h > limit => /\ k = Len(st.queue)
                  /\ s \notin st.visited /\ W[limit] \ {s} \subseteq st.visited

LEMMA ItemsList ==
  ASSUME NEW ids, NEW list \in Seq(ids), NEW d \in Nat
  PROVE  /\ Items(list, d) \in Seq(Item(ids))
         /\ \A x \in ToSet(Items(list, d)) : x.depth = d /\ x.id \in ToSet(list)
         /\ Ids(ToSet(Items(list, d))) = ToSet(list)
<1> DEFINE items == Items(list, d)
<1>1. Len(list) \in Nat /\ DOMAIN list = 1 .. Len(list) /\ \A i \in 1 .. Len(list) : list[i] \in ids
  BY LenProperties
<1>2. items \in [1 .. Len(list) -> Item(ids)] BY <1>1 DEF Items, Item
<1>3. items \in Seq(Item(ids)) BY <1>1, <1>2
<1>4. DOMAIN items = 1 .. Len(list) /\ \A i \in 1 .. Len(list) : items[i].id = list[i] /\ items[i].depth = d
  BY <1>1 DEF Items
<1> HIDE DEF items
<1>5. \A x \in ToSet(items) : x.depth = d /\ x.id \in ToSet(list) BY <1>1, <1>4 DEF ToSet
<1>6. ToSet(list) \subseteq Ids(ToSet(items)) BY <1>1, <1>4 DEF ToSet, Ids
<1>7. Ids(ToSet(items)) \subseteq ToSet(list) BY <1>5 DEF Ids
<1> QED BY <1>3, <1>5, <1>6, <1>7 DEF items

LEMMA NoItems == ToSet(<< >>) = {} /\ \A S : << >> \in Seq(S)
BY EmptySeq DEF ToSet

\* What can be put behind a queue that is at level h.
OfNextLevel(W, ids, h, new) ==
  new \in Seq(Item(ids)) /\ \A x \in ToSet(new) : x.depth = h + 1 /\ x.id \in W[h + 1]

\* The queue and what it becomes, rest, when new is put behind it.
TakenTo(W, ids, h, k, queue, new, rest) ==
  /\ queue # << >> /\ Head(queue) \in Item(ids)
  /\ Head(queue).depth = h /\ Head(queue).id \in W[h]
  /\ rest \in Seq(Item(ids)) /\ QueueAt(W, h, k - 1, rest)
  /\ Ahead(queue, k) = {Head(queue)} \cup Ahead(rest, k - 1)
  /\ Behind(rest, k - 1) = Behind(queue, k) \cup ToSet(new)
  /\ new = << >> => rest = Tail(queue)
  /\ k = Len(queue) /\ new = << >> => k - 1 = Len(rest)

\* One entry less of the level is left.
LEMMA QueueAtNext ==
  ASSUME NEW ids, NEW W, NEW h \in Nat, NEW k \in Nat, k > 0,
         NEW queue \in Seq(Item(ids)), QueueAt(W, h, k, queue),
         NEW new, OfNextLevel(W, ids, h, new)
  PROVE  TakenTo(W, ids, h, k, queue, new, Tail(queue) \o new)
<1> DEFINE rest == Tail(queue) \o new
           items == Item(ids)
<1>1. k \in 1 .. Len(queue) BY DEF QueueAt
<1>2. queue \in Seq(items) /\ new \in Seq(items) BY DEF OfNextLevel
<1> HIDE DEF items
<1>3. /\ rest \in Seq(items) /\ queue # << >> /\ Head(queue) \in items
      /\ k - 1 \in 0 .. Len(rest)
      /\ Head(queue) \in Ahead(queue, k)
      /\ Ahead(queue, k) = {Head(queue)} \cup Ahead(rest, k - 1)
      /\ Behind(rest, k - 1) = Behind(queue, k) \cup ToSet(new)
      /\ new = << >> => rest = Tail(queue)
      /\ k = Len(queue) /\ new = << >> => k - 1 = Len(rest)
  BY <1>1, <1>2, QueueRound
<1> HIDE DEF rest
<1>4. QueueAt(W, h, k - 1, rest)
  <2>1. k - 1 <= Len(rest) BY <1>3
  <2>2. \A x \in Ahead(rest, k - 1) : x.depth = h /\ x.id \in W[h] BY <1>3 DEF QueueAt
  <2>3. \A x \in Behind(rest, k - 1) : x.depth = h + 1 /\ x.id \in W[h + 1]
    BY <1>3 DEF QueueAt, OfNextLevel
  <2> QED BY <2>1, <2>2, <2>3 DEF QueueAt
<1>5. Head(queue).depth = h /\ Head(queue).id \in W[h] BY <1>3 DEF QueueAt
<1> QED BY <1>3, <1>4, <1>5 DEF rest, items, TakenTo

\* One round of the walk, for an entry that is dropped.
LEMMA WalkDrops ==
  ASSUME NEW ids, NEW links, NEW s, NEW W, Reach(W, ids, links, s),
         NEW limit \in Nat, NEW h \in Nat, NEW k \in Nat, k > 0,
         NEW st, Walking(W, ids, links, s, limit, h, k, st),
         h > limit \/ Head(st.queue).id \in st.visited
  PROVE  Walking(W, ids, links, s, limit, h, k - 1, [st EXCEPT !.queue = Tail(@)])
<1> DEFINE queue == st.queue
           x == Head(queue).id
           rest == Tail(queue)
           st2 == [st EXCEPT !.queue = Tail(@)]
<1>1. /\ queue \in Seq(Item(ids)) /\ QueueAt(W, h, k, queue)
      /\ st.visited \in SUBSET ids /\ st.depth \in [ids -> Nat]
  BY DEF Walking, Marking
<1> HIDE DEF queue
<1>2. OfNextLevel(W, ids, h, << >>) /\ ToSet(<< >>) = {} BY NoItems DEF OfNextLevel
<1>3. TakenTo(W, ids, h, k, queue, << >>, rest \o << >>) BY <1>1, <1>2, QueueAtNext
<1>4. /\ rest \in Seq(Item(ids)) /\ QueueAt(W, h, k - 1, rest)
      /\ Ahead(queue, k) = {Head(queue)} \cup Ahead(rest, k - 1)
      /\ Behind(rest, k - 1) = Behind(queue, k)
      /\ k = Len(queue) => k - 1 = Len(rest)
  <2>1. rest \o << >> = rest BY <1>3 DEF TakenTo
  <2>2. TakenTo(W, ids, h, k, queue, << >>, rest) BY <1>3, <2>1
  <2> HIDE DEF rest
  <2> QED BY <1>2, <2>2 DEF TakenTo
<1>5. /\ st2 \in Marking(ids)
      /\ st2.queue = rest /\ st2.visited = st.visited /\ st2.depth = st.depth
  <2>1. st \in Marking(ids) BY DEF Walking
  <2>2. Tail(st.queue) \in Seq(Item(ids)) BY <1>4 DEF queue
  <2> HIDE DEF rest
  <2>3. st2 \in Marking(ids) /\ st2.queue = Tail(st.queue)
        /\ st2.visited = st.visited /\ st2.depth = st.depth
    BY <2>1, <2>2 DEF Marking
  <2> HIDE DEF st2
  <2> QED BY <2>3 DEF rest, queue
<1> HIDE DEF rest, st2
<1>7. ASSUME h <= limit
      PROVE  Covered(W, ids, links, s, h, Ahead(rest, k - 1), Behind(rest, k - 1), st.visited)
  <2> DEFINE ahead == Ahead(queue, k)
             left == Ahead(rest, k - 1)
             behind == Behind(queue, k)
  <2>1. Covered(W, ids, links, s, h, ahead, behind, st.visited) BY <1>7 DEF Walking, queue
  <2>2. x \in st.visited BY <1>1, <1>7 DEF queue
  <2>3. Ids(ahead) = {x} \cup Ids(left) /\ Ids(ahead \cup behind) = {x} \cup Ids(left \cup behind)
    BY <1>4 DEF Ids
  <2> HIDE DEF ahead, left, behind, x
  <2>4. x # s BY <2>1, <2>2 DEF Covered
  <2>5. Covered(W, ids, links, s, h, left, behind, st.visited)
    BY <2>1, <2>2, <2>3, <2>4 DEF Covered
  <2> QED BY <1>4, <2>5 DEF left, behind
<1>8. h > limit => k - 1 = Len(rest) /\ s \notin st.visited /\ W[limit] \ {s} \subseteq st.visited
  BY <1>4 DEF Walking, queue
<1>9. MarkedAt(W, limit, st.visited, st.depth) BY DEF Walking
<1>10. Walking(W, ids, links, s, limit, h, k - 1, st2)
  BY <1>4, <1>5, <1>7, <1>8, <1>9 DEF Walking
<1> QED BY <1>10 DEF st2

\* And for one whose links are followed.
LEMMA WalkFollows ==
  ASSUME NEW ids, NEW links, NEW s, NEW W, Reach(W, ids, links, s),
         NEW next, Neighbours(next, ids, links),
         NEW limit \in Nat, NEW h \in Nat, NEW k \in Nat, k > 0, h <= limit,
         NEW st, Walking(W, ids, links, s, limit, h, k, st),
         Head(st.queue).id \notin st.visited
  PROVE  Walking(W, ids, links, s, limit, h, k - 1, Shift(next, s, limit, st))
<1> DEFINE queue == st.queue
           x == Head(queue).id
           seen == st.visited \cup ({x} \ {s})
           found == Keep(next[x], ids \ seen)
           new == Items(found, h + 1)
           rest == Tail(queue) \o new
           depth == Put(st.depth, {x}, h)
           st2 == [queue |-> rest, visited |-> seen, depth |-> depth]
<1>1. /\ queue \in Seq(Item(ids)) /\ QueueAt(W, h, k, queue)
      /\ st.visited \in SUBSET ids /\ st.depth \in [ids -> Nat]
  BY DEF Walking, Marking
<1>2. Head(queue) \in Item(ids) /\ Head(queue).depth = h /\ x \in W[h] /\ x \in ids
  <2>1. OfNextLevel(W, ids, h, << >>) BY NoItems DEF OfNextLevel
  <2> HIDE DEF queue
  <2>2. TakenTo(W, ids, h, k, queue, << >>, Tail(queue) \o << >>) BY <1>1, <2>1, QueueAtNext
  <2> QED BY <2>2 DEF Item, TakenTo
<1>3. DOMAIN next = ids BY DEF Neighbours
<1>4. Shift(next, s, limit, st) = st2
  <2>1. ~ TooDeep(h, limit) BY DEF TooDeep
  <2> QED BY <1>2, <1>3, <2>1 DEF Shift
<1> HIDE DEF queue, x, seen
<1>5. found \in Seq(ids) /\ ToSet(found) = {m \in ids : <<x, m>> \in links} \ seen
  <2>1. next[x] \in Seq(ids) /\ ToSet(next[x]) = {m \in ids : <<x, m>> \in links}
    BY <1>2 DEF Neighbours
  <2>2. found \in Seq(ids) /\ ToSet(found) = ToSet(next[x]) \cap (ids \ seen)
    BY <2>1, KeepElements
  <2> HIDE DEF found
  <2> QED BY <2>1, <2>2
<1> HIDE DEF found
<1>6. h + 1 \in Nat OBVIOUS
<1>7. /\ new \in Seq(Item(ids)) /\ Ids(ToSet(new)) = ToSet(found)
      /\ \A y \in ToSet(new) : y.depth = h + 1 /\ y.id \in W[h + 1]
  <2>1. /\ new \in Seq(Item(ids)) /\ Ids(ToSet(new)) = ToSet(found)
        /\ \A y \in ToSet(new) : y.depth = h + 1 /\ y.id \in ToSet(found)
    BY <1>5, <1>6, ItemsList
  <2>2. ToSet(found) \subseteq W[h + 1] BY <1>2, <1>5, WithinLevels
  <2> QED BY <2>1, <2>2
<1> HIDE DEF new
<1>8. /\ rest \in Seq(Item(ids)) /\ QueueAt(W, h, k - 1, rest)
      /\ Ahead(queue, k) = {Head(queue)} \cup Ahead(rest, k - 1)
      /\ Behind(rest, k - 1) = Behind(queue, k) \cup ToSet(new)
  <2>1. OfNextLevel(W, ids, h, new) BY <1>7 DEF OfNextLevel
  <2>2. TakenTo(W, ids, h, k, queue, new, rest) BY <1>1, <2>1, QueueAtNext
  <2> HIDE DEF rest
  <2> QED BY <2>2 DEF TakenTo
<1> HIDE DEF rest
<1>9. Covered(W, ids, links, s, h, Ahead(queue, k), Behind(queue, k), st.visited)
  BY DEF Walking, queue
<1>10. /\ depth \in [ids -> Nat] /\ depth[x] = h
       /\ \A n \in ids : n # x => depth[n] = st.depth[n]
  BY <1>1, <1>2 DEF Put
<1> HIDE DEF depth
<1>11. seen \in SUBSET ids BY <1>1, <1>2 DEF seen
<1>12. st2 \in Marking(ids) BY <1>8, <1>10, <1>11 DEF Marking
<1>13. MarkedAt(W, limit, seen, depth)
  <2> SUFFICES ASSUME NEW n \in seen PROVE depth[n] \in 0 .. limit /\ n \in Layer(W, depth[n])
    BY DEF MarkedAt
  <2>1. CASE n = x
    <3>1. x # s BY <1>9, <2>1 DEF seen, Covered
    <3>2. \A j \in 0 .. h - 1 : x \notin W[j]
      <4> SUFFICES ASSUME NEW j \in 0 .. h - 1 PROVE x \notin W[j] OBVIOUS
      <4>1. h > 0 /\ h - 1 \in Nat /\ j \in Nat /\ j <= h - 1 OBVIOUS
      <4>2. W[j] \subseteq W[h - 1] BY <4>1, WithinLevels
      <4>3. W[h - 1] \ {s} \subseteq st.visited BY <1>9, <4>1 DEF Covered
      <4> QED BY <3>1, <4>2, <4>3 DEF x, queue
    <3> QED BY <1>2, <1>10, <2>1, <3>2 DEF Layer
  <2>2. CASE n # x
    <3>1. n \in st.visited /\ n \in ids BY <1>1, <2>2 DEF seen
    <3>2. depth[n] = st.depth[n] BY <1>10, <2>2, <3>1
    <3> QED BY <3>1, <3>2 DEF Walking, MarkedAt
  <2> QED BY <2>1, <2>2
<1>14. Covered(W, ids, links, s, h, Ahead(rest, k - 1), Behind(rest, k - 1), seen)
  <2> DEFINE ahead == Ahead(queue, k)
             left == Ahead(rest, k - 1)
             behind == Behind(queue, k)
             more == Behind(rest, k - 1)
  <2>1. /\ Ids(ahead) = {x} \cup Ids(left)
        /\ Ids(ahead \cup behind) \cup ToSet(found) = {x} \cup Ids(left \cup more)
    <3>1. Ids(ToSet(new)) = ToSet(found) BY <1>7
    <3> QED BY <1>8, <3>1 DEF Ids, x
  <2> HIDE DEF ahead, left, behind, more
  <2>2. Covered(W, ids, links, s, h, ahead, behind, st.visited) BY <1>9 DEF ahead, behind
  <2>3. s \notin seen BY <2>2 DEF Covered, seen
  <2>4. x = s \/ x \in seen BY DEF seen
  <2>5. st.visited \subseteq seen /\ seen \subseteq st.visited \cup {x} BY DEF seen
  <2>6. \A n \in W[h] \ {s} : n \in seen \/ n \in Ids(left)
    BY <2>1, <2>2, <2>4, <2>5 DEF Covered
  <2>7. ASSUME NEW m \in seen \cup {s}, NEW n \in ids \ {s}, <<m, n>> \in links
        PROVE  n \in seen \/ n \in Ids(left \cup more) \/ (m = s /\ s \in Ids(left))
    <3>1. CASE m = x
      <4>1. n \in ToSet(found) \/ n \in seen BY <1>5, <2>7, <3>1
      <4>2. x \in Ids(left \cup more) \/ n # x \/ n \in seen BY <2>4, <2>7
      <4>3. n \in ToSet(found) => n \in Ids(left \cup more) \/ n = x BY <2>1
      <4> QED BY <4>1, <4>2, <4>3
    <3>2. CASE m # x
      <4>1. m \in st.visited \cup {s} BY <2>5, <2>7, <3>2
      <4>2. n \in st.visited \/ n \in Ids(ahead \cup behind) \/ (m = s /\ s \in Ids(ahead))
        BY <2>2, <2>7, <4>1 DEF Covered
      <4>3. n = x => n \in seen BY <2>4, <2>7
      <4> QED BY <2>1, <2>5, <3>2, <4>2, <4>3
    <3> QED BY <3>1, <3>2
  <2>8. h > 0 => W[h - 1] \ {s} \subseteq seen BY <2>2, <2>5 DEF Covered
  <2>9. Covered(W, ids, links, s, h, left, more, seen)
    BY <2>3, <2>6, <2>7, <2>8 DEF Covered
  <2> QED BY <2>9 DEF left, more
<1>15. ~ (h > limit) OBVIOUS
<1>16. Walking(W, ids, links, s, limit, h, k - 1, st2)
  BY <1>8, <1>12, <1>13, <1>14, <1>15 DEF Walking
<1> QED BY <1>4, <1>16

LEMMA WalkLevels ==
  ASSUME NEW ids, NEW links, NEW s, NEW W, Reach(W, ids, links, s),
         NEW limit \in Nat, NEW h \in Nat, h <= limit,
         NEW st, Walking(W, ids, links, s, limit, h, 0, st)
  PROVE  Len(st.queue) \in Nat /\ Walking(W, ids, links, s, limit, h + 1, Len(st.queue), st)
<1> DEFINE queue == st.queue
           n0 == Len(queue)
<1>1. queue \in Seq(Item(ids)) /\ QueueAt(W, h, 0, queue) BY DEF Walking, Marking
<1> HIDE DEF queue
<1>2. /\ n0 \in Nat
      /\ Ahead(queue, 0) = {} /\ Behind(queue, n0) = {}
      /\ Ahead(queue, n0) = Behind(queue, 0)
  BY <1>1, QueueLevels
<1> HIDE DEF n0
<1>3. QueueAt(W, h + 1, n0, queue) BY <1>1, <1>2 DEF QueueAt, n0
<1>4. Covered(W, ids, links, s, h, {}, Behind(queue, 0), st.visited)
  BY <1>2 DEF Walking, queue
<1>5. Ids({}) = {} BY DEF Ids
<1>6. W[h] \ {s} \subseteq st.visited BY <1>4, <1>5 DEF Covered
<1>7. ASSUME h + 1 <= limit
      PROVE  Covered(W, ids, links, s, h + 1, Behind(queue, 0), {}, st.visited)
  <2> DEFINE ahead == Behind(queue, 0)
  <2>1. ahead \cup {} = ahead /\ {} \cup ahead = ahead OBVIOUS
  <2> HIDE DEF ahead
  <2>2. \A m \in st.visited \cup {s}, n \in ids \ {s} :
          <<m, n>> \in links => n \in st.visited \/ n \in Ids(ahead)
    BY <1>4, <1>5, <2>1 DEF Covered, ahead
  <2>3. ASSUME NEW n \in W[h + 1] \ {s} PROVE n \in st.visited \/ n \in Ids(ahead)
    <3>1. CASE n \in W[h] BY <1>6, <3>1
    <3>2. ASSUME NEW m \in W[h], <<m, n>> \in links
          PROVE  n \in st.visited \/ n \in Ids(ahead)
      <4>1. m \in st.visited \cup {s} /\ n \in ids \ {s}
        <5>1. W[h + 1] \subseteq ids BY WithinLevels
        <5> QED BY <1>6, <5>1
      <4> QED BY <2>2, <3>2, <4>1
    <3>3. \A d \in Nat : \A i \in W[d + 1] : i \in W[d] \/ \E m \in W[d] : <<m, i>> \in links
      BY WithinLevels
    <3> QED BY <3>1, <3>2, <3>3
  <2>4. (h + 1) - 1 = h /\ s \notin st.visited BY <1>4 DEF Covered
  <2>5. Covered(W, ids, links, s, h + 1, ahead, {}, st.visited)
    BY <1>6, <2>1, <2>2, <2>3, <2>4 DEF Covered
  <2> QED BY <2>5 DEF ahead
<1>8. ASSUME h + 1 > limit PROVE s \notin st.visited /\ W[limit] \ {s} \subseteq st.visited
  <2>1. h = limit BY <1>8
  <2> QED BY <1>4, <1>6, <2>1 DEF Covered
<1>9. st \in Marking(ids) /\ MarkedAt(W, limit, st.visited, st.depth) BY DEF Walking
<1>10. Walking(W, ids, links, s, limit, h + 1, n0, st)
  BY <1>2, <1>3, <1>7, <1>8, <1>9 DEF Walking, n0, queue
<1> QED BY <1>2, <1>10 DEF n0, queue

LEMMA WalkStarts ==
  ASSUME NEW ids, NEW links, NEW s, NEW W, Reach(W, ids, links, s), NEW limit \in Nat
  PROVE  Walking(W, ids, links, s, limit, 0, 1, AtStart(ids, s, {}))
<1> DEFINE start == [id |-> s, depth |-> 0]
           queue == <<start>>
<1>0. s \in ids BY DEF Reach
<1>1. start \in Item(ids) /\ start.id = s /\ start.depth = 0 BY <1>0 DEF Item
<1>2. AtStart(ids, s, {}) = [queue |-> queue, visited |-> {}, depth |-> [n \in ids |-> 0]]
  BY DEF AtStart
<1> HIDE DEF start
<1>3. queue \in Seq(Item(ids)) /\ Len(queue) = 1 /\ queue[1] = start BY <1>1
<1> HIDE DEF queue
<1>4. Ahead(queue, 1) = {start} /\ Behind(queue, 1) = {}
  <2>1. 1 .. 1 = {1} /\ 1 + 1 .. 1 = {} OBVIOUS
  <2> QED BY <1>3, <2>1 DEF Ahead, Behind
<1>5. W[0] = {s} BY WithinLevels
<1>6. QueueAt(W, 0, 1, queue) BY <1>1, <1>3, <1>4, <1>5 DEF QueueAt
<1>7. Ids({start}) = {s} BY <1>1 DEF Ids
<1>8. Covered(W, ids, links, s, 0, {start}, {}, {}) BY <1>5, <1>7 DEF Covered
<1>9. [queue |-> queue, visited |-> {}, depth |-> [n \in ids |-> 0]] \in Marking(ids)
  BY <1>3 DEF Marking
<1>10. MarkedAt(W, limit, {}, [n \in ids |-> 0]) BY DEF MarkedAt
<1>11. 0 <= limit /\ ~ (0 > limit) OBVIOUS
<1> QED BY <1>2, <1>4, <1>6, <1>8, <1>9, <1>10, <1>11 DEF Walking

LEMMA WalkRound ==
  ASSUME NEW ids, NEW links, NEW s, NEW W, Reach(W, ids, links, s),
         NEW next, Neighbours(next, ids, links),
         NEW limit \in Nat, NEW h \in Nat, NEW k \in Nat, k > 0,
         NEW st, Walking(W, ids, links, s, limit, h, k, st)
  PROVE  /\ st.queue # << >>
         /\ Walking(W, ids, links, s, limit, h, k - 1, Shift(next, s, limit, st))
<1>1. st.queue \in Seq(Item(ids)) /\ QueueAt(W, h, k, st.queue) BY DEF Walking, Marking
<1>2. OfNextLevel(W, ids, h, << >>) BY NoItems DEF OfNextLevel
<1>3. st.queue # << >> /\ Head(st.queue).depth = h
  <2>1. TakenTo(W, ids, h, k, st.queue, << >>, Tail(st.queue) \o << >>)
    BY <1>1, <1>2, QueueAtNext
  <2> QED BY <2>1 DEF TakenTo
<1>4. CASE h > limit \/ Head(st.queue).id \in st.visited
  <2>1. Shift(next, s, limit, st) = [st EXCEPT !.queue = Tail(@)]
    BY <1>3, <1>4 DEF Shift, TooDeep
  <2>2. Walking(W, ids, links, s, limit, h, k - 1, [st EXCEPT !.queue = Tail(@)])
    BY <1>4, WalkDrops
  <2> QED BY <1>3, <2>1, <2>2
<1>5. CASE ~ (h > limit \/ Head(st.queue).id \in st.visited)
  <2>1. h <= limit /\ Head(st.queue).id \notin st.visited BY <1>5
  <2> QED BY <1>3, <2>1, WalkFollows
<1> QED BY <1>4, <1>5

\* A round keeps the variables of the walk of their types.
LEMMA ShiftType ==
  ASSUME NEW ids, NEW links, NEW next, Neighbours(next, ids, links),
         NEW s, NEW limit, NEW st \in Marking(ids), st.queue # << >>
  PROVE  Shift(next, s, limit, st) \in Marking(ids)
<1> DEFINE queue == st.queue
           x == Head(queue).id
           d == Head(queue).depth
           seen == st.visited \cup ({x} \ {s})
           new == Items(Keep(next[x], DOMAIN next \ seen), d + 1)
<1>1. queue \in Seq(Item(ids)) /\ st.visited \in SUBSET ids /\ st.depth \in [ids -> Nat]
  BY DEF Marking
<1>2. Tail(queue) \in Seq(Item(ids)) /\ Head(queue) \in Item(ids) BY <1>1, HeadTailProperties
<1>3. x \in ids /\ d \in Nat BY <1>2 DEF Item
<1>4. Shift(next, s, limit, st)
        \in {[st EXCEPT !.queue = Tail(@)],
             [queue |-> Tail(queue) \o new, visited |-> seen, depth |-> Put(st.depth, {x}, d)]}
  BY DEF Shift
<1>5. [st EXCEPT !.queue = Tail(@)] \in Marking(ids) BY <1>2 DEF Marking
<1>6. new \in Seq(Item(ids))
  <2>1. next[x] \in Seq(ids) BY <1>3 DEF Neighbours
  <2>2. Keep(next[x], DOMAIN next \ seen) \in Seq(ids) BY <2>1, KeepElements
  <2>3. d + 1 \in Nat BY <1>3
  <2> QED BY <2>2, <2>3, ItemsList
<1> HIDE DEF new, queue, x, d
<1>7. Tail(queue) \o new \in Seq(Item(ids)) BY <1>2, <1>6, ConcatProperties
<1>8. Put(st.depth, {x}, d) \in [ids -> Nat] BY <1>1, <1>3 DEF Put
<1>9. seen \in SUBSET ids BY <1>1, <1>3
<1>10. [queue |-> Tail(queue) \o new, visited |-> seen, depth |-> Put(st.depth, {x}, d)]
         \in Marking(ids)
  BY <1>7, <1>8, <1>9 DEF Marking
<1> QED BY <1>4, <1>5, <1>10

\* When the queue is empty, the marks are the distances.
LEMMA WalkEnds ==
  ASSUME NEW ids, NEW links, NEW s, NEW W, Reach(W, ids, links, s), NEW limit \in Nat,
         NEW st, Walking(W, ids, links, s, limit, limit + 1, 0, st)
  PROVE  /\ st.queue = << >>
         /\ [n \in st.visited |-> st.depth[n]] = Distances(links, s, limit)
<1> DEFINE answer == [n \in st.visited |-> st.depth[n]]
<1>1. limit + 1 > limit OBVIOUS
<1>2. /\ st.queue \in Seq(Item(ids)) /\ Len(st.queue) = 0
      /\ s \notin st.visited /\ W[limit] \ {s} \subseteq st.visited
      /\ MarkedAt(W, limit, st.visited, st.depth)
  BY <1>1 DEF Walking, Marking
<1>3. st.queue = << >> BY <1>2, EmptySeq
<1>4. ASSUME NEW n \in st.visited PROVE n \in W[limit] \ {s}
  <2>1. st.depth[n] \in 0 .. limit /\ n \in W[st.depth[n]] BY <1>2 DEF MarkedAt, Layer
  <2>2. W[st.depth[n]] \subseteq W[limit] BY <2>1, WithinLevels
  <2> QED BY <1>2, <2>1, <2>2
<1>5. st.visited = W[limit] \ {s} BY <1>2, <1>4
<1>6. \A n \in W[limit] \ {s} : answer[n] \in Nat /\ n \in Layer(W, answer[n])
  BY <1>2, <1>5 DEF MarkedAt
<1>7. answer = [n \in W[limit] \ {s} |-> answer[n]] BY <1>5
<1>8. W = Within(links, s) BY DEF Reach
<1> HIDE DEF answer
<1>9. answer = Distances(links, s, limit) BY <1>6, <1>7, <1>8, LayersAreDistances
<1> QED BY <1>3, <1>9 DEF answer

\* A walk marks the services in reach with their distances, whatever the graph.
LEMMA WalkIsNearest ==
  ASSUME NEW ids, NEW links, NEW s, NEW W, Reach(W, ids, links, s),
         NEW next, Neighbours(next, ids, links), NEW limit \in Nat
  PROVE  WalkFrom(next, s, limit) = Distances(links, s, limit)
<1> DEFINE S == Marking(ids)
           Next0(f, st) == IF st.queue = << >> THEN [n \in st.visited |-> st.depth[n]]
                           ELSE f[Shift(next, s, limit, st)]
           loop == CHOOSE f : f = [st \in S |-> Next0(f, st)]
           done == {st \in S : st.queue = << >>}
           out == [st \in S |-> [n \in st.visited |-> st.depth[n]]]
           step == [st \in S |-> IF st \in done THEN st ELSE Shift(next, s, limit, st)]
<1>1. DOMAIN next = ids BY DEF Neighbours
<1>2. WalkFrom(next, s, limit) = loop[AtStart(ids, s, {})] BY <1>1 DEF WalkFrom
<1>3. step \in [S -> S]
  <2>1. \A st \in S : st \notin done => Shift(next, s, limit, st) \in S BY ShiftType
  <2> HIDE DEF S, done
  <2> QED BY <2>1
<1>4. \A st \in S : st \in done => out[st] = [n \in st.visited |-> st.depth[n]] OBVIOUS
<1>5. \A st \in S : st \notin done => step[st] = Shift(next, s, limit, st) OBVIOUS
<1>6. \A st \in S : st \in done <=> st.queue = << >> OBVIOUS
<1> HIDE DEF S, out, step, done
<1>7. \A f : f = [st \in S |-> Next0(f, st)] <=> IsLoop(f, S, step, done, out)
  <2> SUFFICES ASSUME NEW f
               PROVE  f = [st \in S |-> Next0(f, st)] <=> IsLoop(f, S, step, done, out)
    OBVIOUS
  <2>1. \A st \in S : Next0(f, st) = IF st \in done THEN out[st] ELSE f[step[st]]
    BY <1>4, <1>5, <1>6
  <2> HIDE DEF Next0
  <2>2. [st \in S |-> Next0(f, st)] = [st \in S |-> IF st \in done THEN out[st] ELSE f[step[st]]]
    BY <2>1
  <2> QED BY <1>3, <2>2 DEF IsLoop
<1>8. IsLoop(loop, S, step, done, out)
  <2>1. \E f : IsLoop(f, S, step, done, out) BY <1>3, LoopIsFunction
  <2>2. \E f : f = [st \in S |-> Next0(f, st)] BY <1>7, <2>1
  <2> HIDE DEF Next0
  <2>3. loop = [st \in S |-> Next0(loop, st)] BY <2>2
  <2> HIDE DEF loop
  <2> QED BY <1>7, <2>3
<1> HIDE DEF loop
<1> DEFINE Inv(h, k, st) == Walking(W, ids, links, s, limit, h, k, st)
           J == {t \in Nat \X Nat \X S : Inv(t[1], t[2], t[3])}
           answers == {Distances(links, s, limit)}
           last == limit + 1
<1>9. \A h, k \in Nat, st \in S : <<h, k, st>> \in J <=> Inv(h, k, st)
  <2> HIDE DEF Inv
  <2> QED OBVIOUS
<1>10. last \in Nat /\ \A h \in 0 .. last : h \in Nat /\ (h < last <=> h <= limit) /\ h + 1 \in Nat
  OBVIOUS
<1> HIDE DEF J, last
<1>11. ASSUME NEW h \in 0 .. last, NEW k \in Nat, NEW st \in S, <<h, k, st>> \in J, k > 0
       PROVE  st \notin done /\ <<h, k - 1, step[st]>> \in J
  <2>1. k - 1 \in Nat BY <1>11
  <2>2. Inv(h, k, st) BY <1>9, <1>10, <1>11
  <2>3. st.queue # << >> /\ Inv(h, k - 1, Shift(next, s, limit, st))
    BY <1>10, <1>11, <2>2, WalkRound
  <2>4. st \notin done /\ step[st] = Shift(next, s, limit, st) /\ step[st] \in S
    BY <1>3, <1>5, <1>6, <2>3
  <2> HIDE DEF Inv
  <2> QED BY <1>9, <1>10, <2>1, <2>3, <2>4
<1>12. ASSUME NEW h \in 0 .. last, NEW st \in S, <<h, 0, st>> \in J, h < last
       PROVE  \E k \in Nat : <<h + 1, k, st>> \in J
  <2>1. Inv(h, 0, st) BY <1>9, <1>10, <1>12
  <2>2. Len(st.queue) \in Nat /\ Inv(h + 1, Len(st.queue), st)
    BY <1>10, <1>12, <2>1, WalkLevels
  <2> HIDE DEF Inv
  <2> QED BY <1>9, <1>10, <2>2
<1>13. ASSUME NEW st \in S, <<last, 0, st>> \in J PROVE st \in done /\ out[st] \in answers
  <2>1. Inv(last, 0, st) BY <1>9, <1>10, <1>13
  <2>2. /\ st.queue = << >>
        /\ [n \in st.visited |-> st.depth[n]] = Distances(links, s, limit)
    BY <2>1, WalkEnds DEF last
  <2> QED BY <1>4, <1>6, <2>2
<1>14. \A h \in 0 .. last, k \in Nat, st \in S : <<h, k, st>> \in J => loop[st] \in answers
  <2> HIDE DEF answers, Inv
  <2>1. TakesLevels(S, step, done, out, last, J, answers)
    BY <1>11, <1>12, <1>13 DEF TakesLevels
  <2> QED BY <1>8, <1>10, <2>1, LoopByLevels
<1>15. Inv(0, 1, AtStart(ids, s, {})) BY WalkStarts
<1>16. AtStart(ids, s, {}) \in S BY <1>15 DEF Walking, S
<1>17. loop[AtStart(ids, s, {})] \in answers
  <2>1. 0 \in 0 .. last /\ 0 \in Nat /\ 1 \in Nat BY <1>10
  <2> HIDE DEF answers, Inv
  <2> QED BY <1>9, <1>14, <1>15, <1>16, <2>1
<1> QED BY <1>2, <1>17

------------------------------------------------------------------------------
\* The lists of the graph

LEMMA EdgesElements ==
  ASSUME NEW list \in SUBSET EdgeId
  PROVE  /\ Edges(list) \in Seq(EdgeId)
         /\ ToSet(Edges(list)) = list
         /\ IsInjective(Edges(list))
<1> DEFINE all == [e \in EdgeId |-> e]
<1>1. all \in Seq(EdgeId) BY MaxEdgeAssumption DEF EdgeId
<1>2. ToSet(all) = EdgeId BY DEF ToSet
<1>3. IsInjective(all) BY DEF IsInjective
<1> HIDE DEF all
<1>4. /\ Keep(all, list) \in Seq(EdgeId)
      /\ ToSet(Keep(all, list)) = ToSet(all) \cap list
      /\ IsInjective(all) => IsInjective(Keep(all, list))
  BY <1>1, KeepElements
<1> QED BY <1>2, <1>3, <1>4 DEF all, Edges

LEMMA MappedList ==
  ASSUME NEW S, NEW list \in Seq(S), NEW T, NEW f, \A x \in ToSet(list) : f[x] \in T
  PROVE  /\ [i \in DOMAIN list |-> f[list[i]]] \in Seq(T)
         /\ Len([i \in DOMAIN list |-> f[list[i]]]) = Len(list)
         /\ ToSet([i \in DOMAIN list |-> f[list[i]]]) = {f[x] : x \in ToSet(list)}
<1> DEFINE mapped == [i \in DOMAIN list |-> f[list[i]]]
<1>1. Len(list) \in Nat /\ DOMAIN list = 1 .. Len(list) BY LenProperties
<1>2. \A i \in 1 .. Len(list) : list[i] \in ToSet(list) BY <1>1 DEF ToSet
<1>3. mapped \in [1 .. Len(list) -> T] BY <1>1, <1>2
<1>4. mapped \in Seq(T) BY <1>1, <1>3
<1>5. ToSet(mapped) = {f[x] : x \in ToSet(list)} BY <1>1 DEF ToSet
<1> QED BY <1>1, <1>3, <1>4, <1>5

\* The neighbours of every service, as the lists give them.
Following(filter) == [n \in DOMAIN nodes |-> GetDirectDependencies(n, filter)]

Preceding(filter) == [n \in DOMAIN nodes |-> GetReverseDependencies(n, filter)]

Among(links, ids) == links \in SUBSET (ids \X ids)

\* They are those of the recorded dependencies.
LEMMA ListsAreNeighbours ==
  ASSUME IInv, NEW filter
  PROVE  /\ Among(Links(filter), DOMAIN nodes)
         /\ Among(Converse(Links(filter)), DOMAIN nodes)
         /\ Neighbours(Following(filter), DOMAIN nodes, Links(filter))
         /\ Neighbours(Preceding(filter), DOMAIN nodes, Converse(Links(filter)))
<1> DEFINE ids == DOMAIN nodes
           some == {d \in DOMAIN edge : filter \in {AnyFilter, edge[d].type}}
           source == [e \in DOMAIN edge |-> edge[e].source]
           target == [e \in DOMAIN edge |-> edge[e].target]
<1>1. /\ DOMAIN edge \subseteq EdgeId
      /\ \A e \in DOMAIN edge : source[e] \in ids /\ target[e] \in ids
      /\ \A n \in ids : /\ adjacencyList[n] = {e \in DOMAIN edge : source[e] = n}
                        /\ reverseAdjacencyList[n] = {e \in DOMAIN edge : target[e] = n}
  BY Typing DEF IInv, TypeOK, ListsMirror, NoDanglingEdge
<1>2. Links(filter) = {<<source[e], target[e]>> : e \in some} BY DEF Links
<1>3. some \subseteq DOMAIN edge OBVIOUS
<1>4. \A n \in ids : /\ {e \in adjacencyList[n] : filter \in {AnyFilter, edge[e].type}}
                          = {e \in some : source[e] = n}
                     /\ {e \in reverseAdjacencyList[n] : filter \in {AnyFilter, edge[e].type}}
                          = {e \in some : target[e] = n}
  BY <1>1
<1>5. ASSUME NEW list \in SUBSET DOMAIN edge
      PROVE  LET l == Edges(list)
             IN  /\ [i \in DOMAIN l |-> edge[l[i]].target] \in Seq(ids)
                 /\ ToSet([i \in DOMAIN l |-> edge[l[i]].target]) = {target[e] : e \in list}
                 /\ [i \in DOMAIN l |-> edge[l[i]].source] \in Seq(ids)
                 /\ ToSet([i \in DOMAIN l |-> edge[l[i]].source]) = {source[e] : e \in list}
  <2> DEFINE l == Edges(list)
  <2>1. l \in Seq(EdgeId) /\ ToSet(l) = list BY <1>1, EdgesElements
  <2> HIDE DEF l
  <2>2. \A i \in DOMAIN l : l[i] \in DOMAIN edge BY <2>1 DEF ToSet
  <2>3. /\ [i \in DOMAIN l |-> edge[l[i]].target] = [i \in DOMAIN l |-> target[l[i]]]
        /\ [i \in DOMAIN l |-> edge[l[i]].source] = [i \in DOMAIN l |-> source[l[i]]]
    BY <2>2
  <2>4. \A e \in ToSet(l) : source[e] \in ids /\ target[e] \in ids BY <1>1, <2>1
  <2> HIDE DEF ids, source, target
  <2>5. /\ [i \in DOMAIN l |-> target[l[i]]] \in Seq(ids)
        /\ ToSet([i \in DOMAIN l |-> target[l[i]]]) = {target[x] : x \in ToSet(l)}
    BY <2>1, <2>4, MappedList
  <2>6. /\ [i \in DOMAIN l |-> source[l[i]]] \in Seq(ids)
        /\ ToSet([i \in DOMAIN l |-> source[l[i]]]) = {source[x] : x \in ToSet(l)}
    BY <2>1, <2>4, MappedList
  <2> QED BY <2>1, <2>3, <2>5, <2>6 DEF l
<1>6. ASSUME NEW n \in ids
      PROVE  /\ GetDirectDependencies(n, filter) \in Seq(ids)
             /\ ToSet(GetDirectDependencies(n, filter))
                  = {target[e] : e \in {d \in some : source[d] = n}}
  <2> DEFINE list == {d \in some : source[d] = n}
  <2>1. Passing(adjacencyList[n], filter) = Edges(list) BY <1>4 DEF Passing
  <2>2. list \in SUBSET DOMAIN edge OBVIOUS
  <2> HIDE DEF list, source, target, some
  <2> QED BY <1>5, <2>1, <2>2 DEF GetDirectDependencies, list
<1>7. ASSUME NEW n \in ids
      PROVE  /\ GetReverseDependencies(n, filter) \in Seq(ids)
             /\ ToSet(GetReverseDependencies(n, filter))
                  = {source[e] : e \in {d \in some : target[d] = n}}
  <2> DEFINE list == {d \in some : target[d] = n}
  <2>1. Passing(reverseAdjacencyList[n], filter) = Edges(list) BY <1>4 DEF Passing
  <2>2. list \in SUBSET DOMAIN edge OBVIOUS
  <2> HIDE DEF list, source, target, some
  <2> QED BY <1>5, <2>1, <2>2 DEF GetReverseDependencies, list
<1> HIDE DEF source, target, some
<1>8. Among(Links(filter), ids) BY <1>1, <1>2, <1>3 DEF Among
<1>9. Converse(Links(filter)) = {<<target[e], source[e]>> : e \in some}
  <2> DEFINE links == Links(filter)
             back == {<<l[2], l[1]>> : l \in links}
             pairs == {<<target[e], source[e]>> : e \in some}
  <2>1. \A l : l \in links <=> \E e \in some : l = <<source[e], target[e]>> BY <1>2
  <2> HIDE DEF links
  <2>2. \A x \in back : x \in pairs
    <3> SUFFICES ASSUME NEW l \in links PROVE <<l[2], l[1]>> \in pairs OBVIOUS
    <3>1. PICK e \in some : l = <<source[e], target[e]>> BY <2>1
    <3>2. l[2] = target[e] /\ l[1] = source[e] BY <3>1
    <3> QED BY <3>2
  <2>3. \A x \in pairs : x \in back
    <3> SUFFICES ASSUME NEW e \in some PROVE <<target[e], source[e]>> \in back OBVIOUS
    <3> DEFINE l == <<source[e], target[e]>>
    <3>1. l \in links /\ l[2] = target[e] /\ l[1] = source[e] BY <2>1
    <3> HIDE DEF l
    <3> QED BY <3>1
  <2> HIDE DEF back, pairs
  <2>4. back = pairs BY <2>2, <2>3
  <2> QED BY <2>4 DEF Converse, back, pairs, links
<1>10. Among(Converse(Links(filter)), ids) BY <1>1, <1>3, <1>9 DEF Among
<1>11. \A n \in ids : {target[e] : e \in {d \in some : source[d] = n}}
                        = {m \in ids : <<n, m>> \in Links(filter)}
  BY <1>1, <1>2, <1>3
<1>12. \A n \in ids : {source[e] : e \in {d \in some : target[d] = n}}
                        = {m \in ids : <<n, m>> \in Converse(Links(filter))}
  BY <1>1, <1>3, <1>9
<1>13. Neighbours(Following(filter), ids, Links(filter))
  BY <1>6, <1>11 DEF Neighbours, Following
<1>14. Neighbours(Preceding(filter), ids, Converse(Links(filter)))
  BY <1>7, <1>12 DEF Neighbours, Preceding
<1> QED BY <1>8, <1>10, <1>13, <1>14

\* Both transitive queries give the distances.
LEMMA QueriesAreDistances ==
  ASSUME IInv, NEW s \in DOMAIN nodes, NEW maxDepth \in Nat, NEW filter
  PROVE  /\ GetTransitiveDependencies(s, maxDepth, filter)
               = Distances(Links(filter), s, maxDepth)
         /\ GetTransitiveReverseDependencies(s, maxDepth, filter)
               = Distances(Converse(Links(filter)), s, maxDepth)
<1> DEFINE ids == DOMAIN nodes
           links == Links(filter)
           back == Converse(Links(filter))
           next == Following(filter)
           previous == Preceding(filter)
<1>1. /\ Among(links, ids) /\ Among(back, ids)
      /\ Neighbours(next, ids, links) /\ Neighbours(previous, ids, back)
  BY ListsAreNeighbours
<1>2. s \in ids OBVIOUS
<1>3. /\ GetTransitiveDependencies(s, maxDepth, filter) = WalkFrom(next, s, maxDepth)
      /\ GetTransitiveReverseDependencies(s, maxDepth, filter) = WalkFrom(previous, s, maxDepth)
  BY DEF GetTransitiveDependencies, GetTransitiveReverseDependencies, Following, Preceding
<1> HIDE DEF ids, links, back, next, previous
<1>4. WalkFrom(next, s, maxDepth) = Distances(links, s, maxDepth)
  <2>1. Reach(Within(links, s), ids, links, s) BY <1>1, <1>2 DEF Reach, Among
  <2> QED BY <1>1, <2>1, WalkIsNearest
<1>5. WalkFrom(previous, s, maxDepth) = Distances(back, s, maxDepth)
  <2>1. Reach(Within(back, s), ids, back, s) BY <1>1, <1>2 DEF Reach, Among
  <2> QED BY <1>1, <2>1, WalkIsNearest
<1> QED BY <1>3, <1>4, <1>5 DEF links, back

\* The transitive queries answer the distance of every service in reach, in every
\* graph the writes can make and for every limit: though a service is marked only
\* when it is taken from the queue, and the start never is.
THEOREM QueriesAreNearest == Spec => []TransitiveIsNearest
<1>1. IInv => TransitiveIsNearest
  <2> SUFFICES ASSUME IInv,
                      NEW s \in ServiceId, NEW maxDepth \in 0 .. Far, NEW filter \in Filters
               PROVE  LET depth == OrDefault(maxDepth, DefaultDepth)
                      IN  /\ AnswerTransitive(s, maxDepth, filter)
                               = IF s \in DOMAIN nodes
                                 THEN Answered(Distances(Links(filter), s, depth))
                                 ELSE NotFound
                          /\ AnswerReverseTransitive(s, maxDepth, filter)
                               = IF s \in DOMAIN nodes
                                 THEN Answered(Distances(Converse(Links(filter)), s, depth))
                                 ELSE NotFound
    BY DEF TransitiveIsNearest
  <2> DEFINE depth == OrDefault(maxDepth, DefaultDepth)
  <2>1. Known({s}) <=> s \in DOMAIN nodes BY DEF Known
  <2>2. depth \in Nat BY QueriesAssumption DEF OrDefault
  <2> HIDE DEF depth
  <2>3. CASE s \notin DOMAIN nodes
    BY <2>1, <2>3 DEF AnswerTransitive, AnswerReverseTransitive
  <2>4. CASE s \in DOMAIN nodes
    <3>1. /\ GetTransitiveDependencies(s, depth, filter) = Distances(Links(filter), s, depth)
          /\ GetTransitiveReverseDependencies(s, depth, filter)
               = Distances(Converse(Links(filter)), s, depth)
      BY <2>2, <2>4, QueriesAreDistances
    <3> QED BY <2>1, <2>4, <3>1 DEF AnswerTransitive, AnswerReverseTransitive, depth
  <2> QED BY <2>3, <2>4 DEF depth
<1> QED BY <1>1, InitInv, NextInv, PTL DEF Spec

------------------------------------------------------------------------------
\* The search for a shortest path

LEMMA FarIsNatural == Far \in Nat
BY QueriesAssumption, FS_CardinalityType DEF Far

\* The services in reach are all found after as many links as there are services.
LEMMA ReachIsComplete ==
  ASSUME NEW ids, IsFiniteSet(ids), NEW links, NEW s, NEW W, Reach(W, ids, links, s),
         NEW n \in Nat, Cardinality(ids) <= n
  PROVE  W[n + 1] = W[n]
<1> DEFINE size == [d \in Nat |-> Cardinality(W[d])]
           good == {d \in Nat : W[d + 1] = W[d] \/ size[d] >= d + 1}
<1>1. W[0] = {s} /\ \A d \in Nat : W[d + 1] = W[d] \cup Targets(links, W[d])
  BY WithinIsRecursive
<1>2. \A d \in Nat : W[d] \subseteq ids BY WithinLevels
<1>3. \A d \in Nat : IsFiniteSet(W[d]) /\ Cardinality(W[d]) <= Cardinality(ids)
  BY <1>2, FS_Subset
<1>4. \A d \in Nat : size[d] \in Nat BY <1>3, FS_CardinalityType
<1>5. ASSUME NEW d \in Nat, W[d + 1] # W[d] PROVE size[d + 1] > size[d]
  <2>1. d + 1 \in Nat /\ W[d] \subseteq W[d + 1] BY <1>1
  <2>2. /\ Cardinality(W[d]) <= Cardinality(W[d + 1])
        /\ Cardinality(W[d + 1]) = Cardinality(W[d]) => W[d + 1] = W[d]
    BY <1>3, <2>1, FS_Subset
  <2>3. size[d] <= size[d + 1] /\ size[d + 1] # size[d] BY <1>5, <2>1, <2>2
  <2> HIDE DEF size
  <2> QED BY <1>4, <2>1, <2>3
<1>6. 0 \in good
  <2>1. size[0] = 1 BY <1>1, FS_Singleton
  <2> HIDE DEF size
  <2> QED BY <2>1
<1>7. n \in Nat /\ size[n] <= n
  <2> DEFINE all == Cardinality(ids)
  <2>1. all \in Nat /\ size[n] <= all /\ all <= n BY <1>3, FS_CardinalityType
  <2> HIDE DEF all, size
  <2> QED BY <1>4, <2>1
<1> HIDE DEF size
<1>8. ASSUME NEW d \in Nat, d \in good PROVE d + 1 \in good
  <2>1. d + 1 \in Nat OBVIOUS
  <2>2. CASE W[d + 1] = W[d]
    <3>1. W[(d + 1) + 1] = W[d + 1] BY <1>1, <2>1, <2>2
    <3> QED BY <2>1, <3>1
  <2>3. CASE W[d + 1] # W[d]
    <3>1. size[d] >= d + 1 /\ size[d + 1] > size[d] BY <1>5, <1>8, <2>3
    <3>2. size[d + 1] >= (d + 1) + 1 BY <1>4, <2>1, <3>1
    <3> QED BY <2>1, <3>2
  <2> QED BY <2>2, <2>3
<1> HIDE DEF good
<1>9. Nat \subseteq good BY <1>6, <1>8, NatBySteps
<1>10. W[n + 1] = W[n] \/ size[n] >= n + 1 BY <1>9 DEF good
<1> QED BY <1>4, <1>7, <1>10

\* p leads from s to n over e links.
Chain(ids, links, s, n, e, p) ==
  /\ p \in Seq(ids) /\ Len(p) = e + 1
  /\ p[1] = s /\ p[e + 1] = n
  /\ \A i \in 1 .. e : <<p[i], p[i + 1]>> \in links

LEMMA ChainLonger ==
  ASSUME NEW ids, NEW links, NEW s, NEW m, NEW n \in ids, <<m, n>> \in links,
         NEW e \in Nat, NEW p, Chain(ids, links, s, m, e, p)
  PROVE  Chain(ids, links, s, n, e + 1, p \o <<n>>)
<1> DEFINE one == <<n>>
           longer == p \o one
<1>1. /\ p \in Seq(ids) /\ Len(p) = e + 1 /\ p[1] = s /\ p[e + 1] = m
      /\ \A i \in 1 .. e : <<p[i], p[i + 1]>> \in links
  BY DEF Chain
<1>2. one \in Seq(ids) /\ Len(one) = 1 /\ one[1] = n OBVIOUS
<1> HIDE DEF one
<1>3. /\ longer \in Seq(ids) /\ Len(longer) = Len(p) + Len(one)
      /\ \A i \in 1 .. Len(p) : longer[i] = p[i]
      /\ \A i \in 1 .. Len(one) : longer[Len(p) + i] = one[i]
  <2>1. ASSUME NEW a \in Seq(ids), NEW b \in Seq(ids)
        PROVE  /\ a \o b \in Seq(ids) /\ Len(a \o b) = Len(a) + Len(b)
               /\ \A i \in 1 .. Len(a) : (a \o b)[i] = a[i]
               /\ \A i \in 1 .. Len(b) : (a \o b)[Len(a) + i] = b[i]
    BY ConcatLists, ConcatProperties
  <2> QED BY <1>1, <1>2, <2>1
<1> HIDE DEF longer
<1>4. /\ Len(longer) = (e + 1) + 1 /\ longer[(e + 1) + 1] = n
      /\ \A i \in 1 .. e + 1 : longer[i] = p[i]
  BY <1>1, <1>2, <1>3
<1>5. ASSUME NEW i \in 1 .. e + 1 PROVE <<longer[i], longer[i + 1]>> \in links
  <2>1. CASE i = e + 1 BY <1>1, <1>4, <2>1
  <2>2. CASE i # e + 1
    <3>1. i \in 1 .. e /\ i + 1 \in 1 .. e + 1 BY <2>2
    <3> QED BY <1>1, <1>4, <3>1
  <2> QED BY <2>1, <2>2
<1>6. longer[1] = s BY <1>1, <1>4
<1>7. Chain(ids, links, s, n, e + 1, longer) BY <1>3, <1>4, <1>5, <1>6 DEF Chain
<1> QED BY <1>7 DEF longer, one

\* The parent of a marked service is marked, and one link nearer to s.
Parents(W, links, s, visited, parent) ==
  \A n \in visited \ {s} :
    /\ parent[n] \in visited /\ <<parent[n], n>> \in links
    /\ \E e \in Nat : n \in Layer(W, e + 1) /\ parent[n] \in Layer(W, e)

\* Along the parents, a path is rebuilt that is as long as the distance.
LEMMA AncestryIsChain ==
  ASSUME NEW ids, NEW links, NEW s, NEW W, Reach(W, ids, links, s),
         NEW visited \in SUBSET ids, NEW parent \in [ids -> ids],
         Parents(W, links, s, visited, parent),
         NEW e \in Nat, NEW n \in visited, n \in Layer(W, e)
  PROVE  Chain(ids, links, s, n, e, Rebuilt(s, Ancestry(parent, s, n)))
<1> DEFINE S == [node : ids, path : Seq(ids)]
           Next0(f, st) == IF st.node = s THEN st.path
                           ELSE f[[node |-> parent[st.node], path |-> <<st.node>> \o st.path]]
           loop == CHOOSE f : f = [st \in S |-> Next0(f, st)]
           done == {st \in S : st.node = s}
           out == [st \in S |-> st.path]
           step == [st \in S |-> [node |-> parent[st.node], path |-> <<st.node>> \o st.path]]
<1>0. s \in ids /\ \A m \in ids : <<m>> \in Seq(ids) BY DEF Reach
<1>1. Ancestry(parent, s, n) = loop[[node |-> n, path |-> << >>]]
  <2>1. DOMAIN parent = ids OBVIOUS
  <2> QED BY <2>1 DEF Ancestry
<1>2. step \in [S -> S]
  <2> SUFFICES ASSUME NEW st \in S
               PROVE  [node |-> parent[st.node], path |-> <<st.node>> \o st.path] \in S
    OBVIOUS
  <2>1. st.node \in ids /\ st.path \in Seq(ids) OBVIOUS
  <2>2. <<st.node>> \o st.path \in Seq(ids) BY <1>0, <2>1, ConcatProperties
  <2>3. parent[st.node] \in ids BY <2>1
  <2> QED BY <2>2, <2>3
<1>3. \A st \in S : st \in done <=> st.node = s OBVIOUS
<1>4. \A st \in S : /\ out[st] = st.path
                    /\ step[st] = [node |-> parent[st.node], path |-> <<st.node>> \o st.path]
  OBVIOUS
<1>5. \A m \in ids, path \in Seq(ids) : [node |-> m, path |-> path] \in S OBVIOUS
<1> HIDE DEF S, done, out, step
<1>6. \A f : f = [st \in S |-> Next0(f, st)] <=> IsLoop(f, S, step, done, out)
  <2> SUFFICES ASSUME NEW f
               PROVE  f = [st \in S |-> Next0(f, st)] <=> IsLoop(f, S, step, done, out)
    OBVIOUS
  <2>1. \A st \in S : Next0(f, st) = IF st \in done THEN out[st] ELSE f[step[st]]
    BY <1>3, <1>4
  <2> HIDE DEF Next0
  <2>2. [st \in S |-> Next0(f, st)] = [st \in S |-> IF st \in done THEN out[st] ELSE f[step[st]]]
    BY <2>1
  <2> QED BY <1>2, <2>2 DEF IsLoop
<1>7. loop = [st \in S |-> Next0(loop, st)]
  <2>1. \E f : IsLoop(f, S, step, done, out) BY <1>2, LoopIsFunction
  <2>2. \E f : f = [st \in S |-> Next0(f, st)] BY <1>6, <2>1
  <2> HIDE DEF Next0
  <2> QED BY <2>2
<1> HIDE DEF loop
<1>8. \A m \in ids, path \in Seq(ids) :
        loop[[node |-> m, path |-> path]]
          = IF m = s THEN path ELSE loop[[node |-> parent[m], path |-> <<m>> \o path]]
  <2> SUFFICES ASSUME NEW m \in ids, NEW path \in Seq(ids)
               PROVE  loop[[node |-> m, path |-> path]]
                        = IF m = s THEN path
                          ELSE loop[[node |-> parent[m], path |-> <<m>> \o path]]
    OBVIOUS
  <2> DEFINE st == [node |-> m, path |-> path]
  <2>1. st \in S /\ st.node = m /\ st.path = path BY <1>5
  <2> HIDE DEF st
  <2>2. loop[st] = Next0(loop, st) BY <1>7, <2>1
  <2> QED BY <2>1, <2>2 DEF st
<1> DEFINE Rest(m, path) == loop[[node |-> m, path |-> path]]
           Holds(d) == \A m \in visited, path \in Seq(ids) :
                         m \in Layer(W, d)
                           => \E p : /\ Chain(ids, links, s, m, d, p)
                                     /\ <<s>> \o Rest(m, path) = p \o path
           good == {d \in Nat : Holds(d)}
<1>9. W[0] = {s} BY WithinLevels
<1>10. \A m \in visited, path \in Seq(ids) :
         Rest(m, path) = IF m = s THEN path ELSE Rest(parent[m], <<m>> \o path)
  BY <1>8
<1> HIDE DEF Rest
<1>11. Holds(0)
  <2> SUFFICES ASSUME NEW m \in visited, NEW path \in Seq(ids), m \in Layer(W, 0)
               PROVE  \E p : /\ Chain(ids, links, s, m, 0, p)
                             /\ <<s>> \o Rest(m, path) = p \o path
    OBVIOUS
  <2>1. m = s BY <1>9 DEF Layer
  <2>2. Rest(m, path) = path BY <1>10, <2>1
  <2> DEFINE p == <<s>>
  <2>3. p \in Seq(ids) /\ Len(p) = 1 /\ p[1] = s BY <1>0
  <2> HIDE DEF p
  <2>4. 1 .. 0 = {} /\ 0 + 1 = 1 OBVIOUS
  <2>5. Chain(ids, links, s, m, 0, p) BY <2>1, <2>3, <2>4 DEF Chain
  <2> QED BY <2>2, <2>5 DEF p
<1>12. ASSUME NEW d \in Nat, Holds(d) PROVE Holds(d + 1)
  <2> SUFFICES ASSUME NEW m \in visited, NEW path \in Seq(ids), m \in Layer(W, d + 1)
               PROVE  \E p : /\ Chain(ids, links, s, m, d + 1, p)
                             /\ <<s>> \o Rest(m, path) = p \o path
    OBVIOUS
  <2>1. m # s
    <3>1. 0 \in 0 .. (d + 1) - 1 OBVIOUS
    <3> QED BY <1>9, <3>1 DEF Layer
  <2>2. /\ parent[m] \in visited /\ <<parent[m], m>> \in links
        /\ parent[m] \in Layer(W, d)
    <3>1. PICK i \in Nat : m \in Layer(W, i + 1) /\ parent[m] \in Layer(W, i)
      BY <2>1 DEF Parents
    <3> DEFINE above == i + 1
               here == d + 1
    <3>2. above \in Nat /\ here \in Nat /\ (above = here => i = d) OBVIOUS
    <3>3. m \in Layer(W, above) /\ m \in Layer(W, here) BY <3>1
    <3> HIDE DEF above, here
    <3>4. above = here BY <3>2, <3>3, LayersApart
    <3> QED BY <2>1, <3>1, <3>2, <3>4 DEF Parents
  <2> DEFINE one == <<m>>
             more == one \o path
  <2>3. one \in Seq(ids) BY <1>0
  <2> HIDE DEF one
  <2>4. more \in Seq(ids) BY <2>3, ConcatProperties
  <2>5. Rest(m, path) = Rest(parent[m], more) BY <1>10, <2>1 DEF one
  <2> HIDE DEF more
  <2>6. PICK q : Chain(ids, links, s, parent[m], d, q) /\ <<s>> \o Rest(parent[m], more) = q \o more
    BY <1>12, <2>2, <2>4
  <2>7. q \in Seq(ids) BY <2>6 DEF Chain
  <2>8. q \o more = (q \o one) \o path BY <2>3, <2>7, ConcatAssociative, SMTT(30) DEF more
  <2>9. Chain(ids, links, s, m, d + 1, q \o one) BY <2>2, <2>6, ChainLonger DEF one
  <2> QED BY <2>5, <2>6, <2>8, <2>9
<1> HIDE DEF Holds
<1>13. 0 \in good BY <1>11
<1>14. \A d \in Nat : d \in good => d + 1 \in good BY <1>12
<1> HIDE DEF good
<1>15. Nat \subseteq good BY <1>13, <1>14, NatBySteps
<1>16. Holds(e) BY <1>15 DEF good
<1>17. << >> \in Seq(ids) BY NoItems
<1>18. PICK p : Chain(ids, links, s, n, e, p) /\ <<s>> \o Rest(n, << >>) = p \o << >>
  BY <1>16, <1>17 DEF Holds
<1>19. p \o << >> = p
  <2>1. p \in Seq(ids) BY <1>18 DEF Chain
  <2> QED BY <2>1, ConcatEmptySeq
<1>20. Rebuilt(s, Ancestry(parent, s, n)) = p BY <1>1, <1>18, <1>19 DEF Rebuilt, Rest
<1> QED BY <1>18, <1>20

\* Level h is marked, what is marked beyond it is in the queue, and the links of
\* level h are followed or still ahead.
Searched(W, ids, links, h, ahead, behind, visited) ==
  /\ W[h] \subseteq visited
  /\ \A n \in visited : n \in W[h] \/ n \in behind
  /\ \A m \in W[h], n \in ids : <<m, n>> \in links => n \in visited \/ m \in ahead

\* The queue is in the order of the distances, and t is not passed by.
Seeking(W, ids, links, s, t, h, k, st) ==
  /\ st \in Searching(ids)
  /\ k <= Len(st.queue)
  /\ Ahead(st.queue, k) \subseteq Layer(W, h)
  /\ Behind(st.queue, k) \subseteq Layer(W, h + 1)
  /\ Searched(W, ids, links, h, Ahead(st.queue, k), Behind(st.queue, k), st.visited)
  /\ t \in W[h] => t \in Ahead(st.queue, k)
  /\ Parents(W, links, s, st.visited, st.parent)

\* A round of the loop that pushes the services fresh.
Seeks(ids, links, st, fresh, st2) ==
  /\ fresh \in Seq(ids)
  /\ ToSet(fresh) = {n \in ids : <<Head(st.queue), n>> \in links} \ st.visited
  /\ st2 \in Searching(ids)
  /\ st2.queue = Tail(st.queue) \o fresh
  /\ st2.visited = st.visited \cup ToSet(fresh)
  /\ \A n \in ids : st2.parent[n] = IF n \in ToSet(fresh) THEN Head(st.queue) ELSE st.parent[n]

LEMMA SeekRound ==
  ASSUME NEW ids, NEW links, NEW s, NEW W, Reach(W, ids, links, s), NEW t,
         NEW h \in Nat, NEW k \in Nat, k > 0,
         NEW st, Seeking(W, ids, links, s, t, h, k, st)
  PROVE  /\ st.queue # << >> /\ Head(st.queue) \in Layer(W, h)
         /\ Head(st.queue) \in st.visited
         /\ \A fresh, st2 :
              Seeks(ids, links, st, fresh, st2) /\ Head(st.queue) # t
                => Seeking(W, ids, links, s, t, h, k - 1, st2)
<1> DEFINE queue == st.queue
           x == Head(queue)
           ahead == Ahead(queue, k)
           behind == Behind(queue, k)
           visited == st.visited
<1>1. /\ queue \in Seq(ids) /\ visited \in SUBSET ids /\ st.parent \in [ids -> ids]
      /\ k \in 1 .. Len(queue)
  <2>1. Len(queue) \in Nat BY LenProperties DEF Seeking, Searching
  <2> QED BY <2>1 DEF Seeking, Searching
<1>2. /\ ahead \subseteq Layer(W, h) /\ behind \subseteq Layer(W, h + 1)
      /\ Searched(W, ids, links, h, ahead, behind, visited)
      /\ t \in W[h] => t \in ahead
      /\ Parents(W, links, s, visited, st.parent)
  BY DEF Seeking
<1>3. << >> \in Seq(ids) BY NoItems
<1>4. queue # << >> /\ x \in ahead /\ x \in ids
  <2> HIDE DEF queue, ahead, x
  <2>1. queue # << >> /\ Head(queue) \in ids /\ Head(queue) \in Ahead(queue, k)
    BY <1>1, <1>3, QueueRound
  <2> QED BY <2>1 DEF ahead, x
<1> HIDE DEF queue, ahead, behind, visited, x
<1>5. x \in Layer(W, h) /\ x \in W[h] /\ x \in visited
  BY <1>2, <1>4 DEF Layer, Searched
<1>6. ASSUME NEW fresh, NEW st2, Seeks(ids, links, st, fresh, st2), x # t
      PROVE  Seeking(W, ids, links, s, t, h, k - 1, st2)
  <2> DEFINE rest == Tail(queue) \o fresh
             new == ToSet(fresh)
             left == Ahead(rest, k - 1)
             more == Behind(rest, k - 1)
  <2>1. /\ fresh \in Seq(ids) /\ new = {n \in ids : <<x, n>> \in links} \ visited
        /\ st2 \in Searching(ids) /\ st2.queue = rest /\ st2.visited = visited \cup new
        /\ \A n \in ids : st2.parent[n] = IF n \in new THEN x ELSE st.parent[n]
    BY <1>6 DEF Seeks, queue, x, visited
  <2>2. k - 1 \in 0 .. Len(rest) /\ ahead = {x} \cup left /\ more = behind \cup new
    <3> HIDE DEF rest
    <3>1. /\ k - 1 \in 0 .. Len(rest)
          /\ Ahead(queue, k) = {Head(queue)} \cup Ahead(rest, k - 1)
          /\ Behind(rest, k - 1) = Behind(queue, k) \cup ToSet(fresh)
      BY <1>1, <2>1, QueueRound DEF rest
    <3> QED BY <3>1 DEF ahead, behind, x
  <2> HIDE DEF rest, new, left, more
  <2>3. new \subseteq Layer(W, h + 1)
    <3> SUFFICES ASSUME NEW n \in new PROVE n \in Layer(W, h + 1) OBVIOUS
    <3>1. n \in ids /\ <<x, n>> \in links /\ n \notin visited BY <2>1
    <3>2. n \in W[h + 1]
      <4>1. \A d \in Nat : \A m \in W[d], i \in ids : <<m, i>> \in links => i \in W[d + 1]
        BY WithinLevels
      <4> QED BY <1>5, <3>1, <4>1
    <3>3. n \notin W[h] BY <1>2, <3>1 DEF Searched
    <3> QED BY <3>2, <3>3, NextLayer
  <2>4. left \subseteq Layer(W, h) /\ more \subseteq Layer(W, h + 1) BY <1>2, <2>2, <2>3
  <2>5. Searched(W, ids, links, h, left, more, visited \cup new)
    <3>1. W[h] \subseteq visited \cup new BY <1>2 DEF Searched
    <3>2. \A n \in visited \cup new : n \in W[h] \/ n \in more
      BY <1>2, <2>2 DEF Searched
    <3>3. \A m \in W[h], n \in ids :
            <<m, n>> \in links => n \in visited \cup new \/ m \in left
      BY <1>2, <2>1, <2>2 DEF Searched
    <3> QED BY <3>1, <3>2, <3>3 DEF Searched
  <2>6. t \in W[h] => t \in left BY <1>2, <1>6, <2>2
  <2>7. Parents(W, links, s, visited \cup new, st2.parent)
    <3> SUFFICES ASSUME NEW n \in (visited \cup new) \ {s}
                 PROVE  /\ st2.parent[n] \in visited \cup new
                        /\ <<st2.parent[n], n>> \in links
                        /\ \E e \in Nat : n \in Layer(W, e + 1) /\ st2.parent[n] \in Layer(W, e)
      BY DEF Parents
    <3>1. CASE n \in new
      <4>1. st2.parent[n] = x /\ <<x, n>> \in links BY <2>1, <3>1
      <4> QED BY <1>5, <2>3, <3>1, <4>1
    <3>2. CASE n \notin new
      <4>1. n \in visited \ {s} /\ n \in ids BY <1>1, <3>2 DEF visited
      <4>2. st2.parent[n] = st.parent[n] BY <2>1, <3>2, <4>1
      <4> QED BY <1>2, <4>1, <4>2 DEF Parents
    <3> QED BY <3>1, <3>2
  <2>8. k - 1 <= Len(rest) BY <2>2
  <2> QED BY <2>1, <2>4, <2>5, <2>6, <2>7, <2>8 DEF Seeking, left, more
<1> QED BY <1>4, <1>5, <1>6 DEF queue, x, visited

LEMMA SeekLevels ==
  ASSUME NEW ids, NEW links, NEW s, NEW W, Reach(W, ids, links, s), NEW t,
         NEW h \in Nat, NEW st, Seeking(W, ids, links, s, t, h, 0, st)
  PROVE  Len(st.queue) \in Nat /\ Seeking(W, ids, links, s, t, h + 1, Len(st.queue), st)
<1> DEFINE queue == st.queue
           n0 == Len(queue)
           behind == Behind(queue, 0)
           visited == st.visited
           d == h + 1
<1>1. queue \in Seq(ids) /\ visited \in SUBSET ids BY DEF Seeking, Searching
<1>2. /\ n0 \in Nat /\ Ahead(queue, 0) = {} /\ Behind(queue, n0) = {}
      /\ Ahead(queue, n0) = behind
  <2> HIDE DEF queue
  <2> QED BY <1>1, QueueLevels
<1>3. /\ behind \subseteq Layer(W, h + 1)
      /\ Searched(W, ids, links, h, {}, behind, visited)
      /\ t \notin W[h]
      /\ Parents(W, links, s, visited, st.parent)
  BY <1>2 DEF Seeking
<1> HIDE DEF queue, n0, behind, visited
<1>4. d \in Nat /\ h <= d /\ d = h + 1 OBVIOUS
<1> HIDE DEF d
<1>5. /\ \A i \in Nat : W[i] \subseteq ids
      /\ \A i, j \in Nat : i <= j => W[i] \subseteq W[j]
      /\ \A i \in Nat : \A n \in W[i + 1] : n \in W[i] \/ \E m \in W[i] : <<m, n>> \in links
  BY WithinLevels
<1>6. W[d] \subseteq visited
  <2> SUFFICES ASSUME NEW n \in W[d] PROVE n \in visited OBVIOUS
  <2>1. n \in ids /\ (n \in W[h] \/ \E m \in W[h] : <<m, n>> \in links) BY <1>4, <1>5
  <2> QED BY <1>3, <2>1 DEF Searched
<1>7. behind \subseteq W[d] BY <1>3, <1>4 DEF Layer
<1>8. \A n \in visited : n \in W[d]
  <2>1. W[h] \subseteq W[d] BY <1>4, <1>5
  <2> QED BY <1>3, <1>7, <2>1 DEF Searched
<1>9. ASSUME NEW m \in W[d], NEW n \in ids, <<m, n>> \in links
      PROVE  n \in visited \/ m \in behind
  <2>1. m \in W[h] \/ m \in behind BY <1>3, <1>6 DEF Searched
  <2> QED BY <1>3, <1>9, <2>1 DEF Searched
<1>10. Searched(W, ids, links, d, behind, {}, visited)
  BY <1>6, <1>8, <1>9 DEF Searched
<1>11. t \in W[d] => t \in behind BY <1>3, <1>6 DEF Searched
<1>12. st \in Searching(ids) /\ n0 <= n0 BY <1>2 DEF Seeking
<1>13. Seeking(W, ids, links, s, t, d, n0, st)
  <2>1. Ahead(st.queue, n0) = behind /\ Behind(st.queue, n0) = {} BY <1>2 DEF queue
  <2>2. behind \subseteq Layer(W, d) /\ {} \subseteq Layer(W, d + 1) BY <1>3, <1>4
  <2>3. n0 <= Len(st.queue) BY <1>12 DEF n0, queue
  <2>4. Parents(W, links, s, st.visited, st.parent) BY <1>3 DEF visited
  <2>5. Searched(W, ids, links, d, behind, {}, st.visited) BY <1>10 DEF visited
  <2> QED BY <1>11, <1>12, <2>1, <2>2, <2>3, <2>4, <2>5 DEF Seeking
<1> QED BY <1>2, <1>13 DEF n0, queue, d

\* When no service is one link further, the queue is empty and t is out of reach.
LEMMA SeekEnds ==
  ASSUME NEW ids, NEW links, NEW s, NEW W, Reach(W, ids, links, s), NEW t,
         NEW last \in Nat, W[last + 1] = W[last],
         NEW st, Seeking(W, ids, links, s, t, last, 0, st)
  PROVE  st.queue = << >> /\ t \notin W[last]
<1>1. st.queue \in Seq(ids) BY DEF Seeking, Searching
<1>2. /\ Ahead(st.queue, 0) = {}
      /\ Behind(st.queue, 0) = {} => st.queue = << >>
  BY <1>1, QueueLevels
<1>3. Layer(W, last + 1) = {}
  <2>1. last \in 0 .. (last + 1) - 1 OBVIOUS
  <2> QED BY <2>1 DEF Layer
<1> QED BY <1>2, <1>3 DEF Seeking

LEMMA SeekStarts ==
  ASSUME NEW ids, NEW links, NEW s, NEW W, Reach(W, ids, links, s), NEW t,
         NEW st, st \in Searching(ids), st.queue = <<s>>, st.visited = {s}
  PROVE  Seeking(W, ids, links, s, t, 0, 1, st)
<1> DEFINE queue == <<s>>
<1>1. s \in ids BY DEF Reach
<1>2. queue \in Seq(ids) /\ Len(queue) = 1 /\ queue[1] = s BY <1>1
<1> HIDE DEF queue
<1>3. Ahead(queue, 1) = {s} /\ Behind(queue, 1) = {}
  <2>1. 1 .. 1 = {1} /\ 1 + 1 .. 1 = {} OBVIOUS
  <2> QED BY <1>2, <2>1 DEF Ahead, Behind
<1>4. W[0] = {s} BY WithinLevels
<1>5. {s} \subseteq Layer(W, 0) BY <1>4 DEF Layer
<1>6. Searched(W, ids, links, 0, {s}, {}, {s}) BY <1>4 DEF Searched
<1>7. Parents(W, links, s, {s}, st.parent) BY DEF Parents
<1>8. st.queue = queue /\ 1 <= Len(queue) /\ {} \subseteq Layer(W, 0 + 1) BY <1>2 DEF queue
<1> QED BY <1>3, <1>4, <1>5, <1>6, <1>7, <1>8 DEF Seeking

LEMMA SearchRoundSeeks ==
  ASSUME IInv, NEW st, st \in Searching(DOMAIN nodes), st.queue # << >>
  PROVE  /\ SearchRound(st) \in Searching(DOMAIN nodes)
         /\ \E fresh : Seeks(DOMAIN nodes, Links(AnyFilter), st, fresh, SearchRound(st))
<1> DEFINE ids == DOMAIN nodes
           links == Links(AnyFilter)
           x == Head(st.queue)
           found == GetDirectDependencies(x, AnyFilter)
           fresh == Fresh(found, st.visited)
           rest == Tail(st.queue) \o fresh
           seen == st.visited \cup ToSet(fresh)
           parent == Put(st.parent, ToSet(fresh), x)
           st2 == SearchRound(st)
<1>1. st.queue \in Seq(ids) /\ st.visited \in SUBSET ids /\ st.parent \in [ids -> ids]
  BY DEF Searching
<1>2. x \in ids /\ Tail(st.queue) \in Seq(ids) BY <1>1, HeadTailProperties
<1>3. found \in Seq(ids) /\ ToSet(found) = {n \in ids : <<x, n>> \in links}
  <2>1. Neighbours(Following(AnyFilter), ids, links) BY ListsAreNeighbours
  <2> HIDE DEF links, x
  <2>2. Following(AnyFilter)[x] = found BY <1>2 DEF Following
  <2> HIDE DEF found, ids
  <2> QED BY <1>2, <2>1, <2>2 DEF Neighbours
<1> HIDE DEF ids, links, found
<1>4. fresh \in Seq(ids) /\ ToSet(fresh) = ToSet(found) \ st.visited
  BY <1>3, FreshElements
<1> HIDE DEF fresh
<1>5. ToSet(fresh) \subseteq ids BY <1>3, <1>4
<1>6. rest \in Seq(ids) BY <1>2, <1>4, ConcatProperties
<1>7. seen \in SUBSET ids BY <1>1, <1>5
<1>8. /\ parent \in [ids -> ids]
      /\ \A n \in ids : parent[n] = IF n \in ToSet(fresh) THEN x ELSE st.parent[n]
  BY <1>1, <1>2 DEF Put
<1>9. st2 = [queue |-> rest, visited |-> seen, parent |-> parent]
  BY DEF SearchRound, fresh, found
<1> HIDE DEF st2, rest, seen, parent
<1>10. st2 \in Searching(ids) BY <1>6, <1>7, <1>8, <1>9 DEF Searching
<1>11. st2.queue = rest /\ st2.visited = seen /\ st2.parent = parent BY <1>9
<1>12. Seeks(ids, links, st, fresh, st2)
  BY <1>3, <1>4, <1>8, <1>10, <1>11 DEF Seeks, rest, seen, x
<1> QED BY <1>10, <1>12 DEF st2, ids, links

\* What a right answer is: nothing, or the one path found.
RightPath(ids, links, W, s, t, last, answer) ==
  \/ answer = {} /\ t \notin W[last]
  \/ \E e \in 0 .. last : \E p :
       /\ answer = {p} /\ t \in Layer(W, e)
       /\ Chain(ids, links, s, t, e, p)

LEMMA PathIsRight ==
  ASSUME IInv, NEW s \in DOMAIN nodes, NEW t \in DOMAIN nodes
  PROVE  RightPath(DOMAIN nodes, Links(AnyFilter), Within(Links(AnyFilter), s), s, t, Far,
                   FindShortestPath(s, t))
<1> DEFINE ids == DOMAIN nodes
           links == Links(AnyFilter)
           W == Within(links, s)
           last == Far
           S == Searching(ids)
           Found(st) == {Rebuilt(s, Ancestry(st.parent, s, t))}
           Next0(f, st) == IF st.queue = << >> THEN {}
                           ELSE IF Head(st.queue) = t THEN Found(st)
                           ELSE f[SearchRound(st)]
           loop == CHOOSE f : f = [st \in S |-> Next0(f, st)]
           done == {st \in S : st.queue = << >> \/ Head(st.queue) = t}
           out == [st \in S |-> IF st.queue = << >> THEN {} ELSE Found(st)]
           step == [st \in S |-> IF st \in done THEN st ELSE SearchRound(st)]
           start == [queue |-> <<s>>, visited |-> {s}, parent |-> [n \in ids |-> s]]
<1>1. FindShortestPath(s, t) = loop[start] BY DEF FindShortestPath
<1>2. Reach(W, ids, links, s)
  <2>1. Among(links, ids) BY ListsAreNeighbours
  <2> QED BY <2>1 DEF Reach, Among
<1>3. last \in Nat /\ W[last + 1] = W[last]
  <2>1. ids \subseteq ServiceId BY Typing DEF IInv, TypeOK
  <2>2. IsFiniteSet(ids) /\ Cardinality(ids) <= last
    BY <2>1, QueriesAssumption, FS_Subset DEF Far
  <2>3. last \in Nat BY FarIsNatural
  <2> HIDE DEF ids, last, links, W
  <2> QED BY <1>2, <2>2, <2>3, ReachIsComplete
<1>4. \A st \in S : st.queue # << >> => /\ SearchRound(st) \in S
                                        /\ \E fresh : Seeks(ids, links, st, fresh, SearchRound(st))
  BY SearchRoundSeeks
<1>5. start \in S /\ start.queue = <<s>> /\ start.visited = {s}
  <2>1. <<s>> \in Seq(ids) /\ {s} \in SUBSET ids /\ [n \in ids |-> s] \in [ids -> ids] OBVIOUS
  <2> QED BY <2>1 DEF Searching
<1> HIDE DEF start
<1>6. \A st \in S : st \in done <=> (st.queue = << >> \/ Head(st.queue) = t) OBVIOUS
<1>7. \A st \in S : out[st] = IF st.queue = << >> THEN {} ELSE Found(st) OBVIOUS
<1>8. step \in [S -> S] /\ \A st \in S : st \notin done => step[st] = SearchRound(st)
  <2>1. \A st \in S : st \notin done => SearchRound(st) \in S BY <1>4
  <2> HIDE DEF S, done
  <2> QED BY <2>1
<1>9. \A st \in S : /\ st.visited \in SUBSET ids /\ st.parent \in [ids -> ids]
  BY DEF Searching
<1> HIDE DEF ids, links, W, last, S, out, step, done, Found
<1>10. \A f : f = [st \in S |-> Next0(f, st)] <=> IsLoop(f, S, step, done, out)
  <2> SUFFICES ASSUME NEW f
               PROVE  f = [st \in S |-> Next0(f, st)] <=> IsLoop(f, S, step, done, out)
    OBVIOUS
  <2>1. \A st \in S : Next0(f, st) = IF st \in done THEN out[st] ELSE f[step[st]]
    BY <1>6, <1>7, <1>8
  <2> HIDE DEF Next0
  <2>2. [st \in S |-> Next0(f, st)] = [st \in S |-> IF st \in done THEN out[st] ELSE f[step[st]]]
    BY <2>1
  <2> QED BY <1>8, <2>2 DEF IsLoop
<1>11. IsLoop(loop, S, step, done, out)
  <2>1. \E f : IsLoop(f, S, step, done, out) BY <1>8, LoopIsFunction
  <2>2. \E f : f = [st \in S |-> Next0(f, st)] BY <1>10, <2>1
  <2> HIDE DEF Next0
  <2>3. loop = [st \in S |-> Next0(loop, st)] BY <2>2
  <2> HIDE DEF loop
  <2> QED BY <1>10, <2>3
<1> HIDE DEF loop
<1> DEFINE Inv(h, k, st) == Seeking(W, ids, links, s, t, h, k, st)
           J == {r \in Nat \X Nat \X S : Inv(r[1], r[2], r[3])}
           Right(answer) == RightPath(ids, links, W, s, t, last, answer)
           One(st) == Rebuilt(s, Ancestry(st.parent, s, t))
           answers == {{}} \cup {Found(st) : st \in S}
           right == {answer \in answers : Right(answer)}
<1>12. \A h, k \in Nat, st \in S : <<h, k, st>> \in J <=> Inv(h, k, st)
  <2> HIDE DEF Inv
  <2> QED OBVIOUS
<1>13. \A st \in S : out[st] \in answers BY <1>7
<1> HIDE DEF J, answers
<1>14. ASSUME NEW h \in 0 .. last, NEW k \in Nat, NEW st \in S, <<h, k, st>> \in J, k > 0
       PROVE  \/ st \in done /\ out[st] \in right
              \/ st \notin done /\ <<h, k - 1, step[st]>> \in J
  <2>1. h \in Nat /\ k - 1 \in Nat BY <1>14
  <2>2. Inv(h, k, st) BY <1>12, <1>14, <2>1
  <2>3. /\ st.queue # << >> /\ Head(st.queue) \in Layer(W, h)
        /\ Head(st.queue) \in st.visited
        /\ \A fresh, st2 :
             Seeks(ids, links, st, fresh, st2) /\ Head(st.queue) # t
               => Inv(h, k - 1, st2)
    BY <1>2, <1>14, <2>1, <2>2, SeekRound
  <2>4. CASE Head(st.queue) = t
    <3>1. Parents(W, links, s, st.visited, st.parent) BY <2>2 DEF Seeking
    <3>2. t \in st.visited /\ t \in Layer(W, h) BY <2>3, <2>4
    <3> DEFINE visited == st.visited
               parent == st.parent
    <3>3. visited \in SUBSET ids /\ parent \in [ids -> ids] BY <1>9
    <3>4. Parents(W, links, s, visited, parent) /\ t \in visited BY <3>1, <3>2
    <3>5. One(st) = Rebuilt(s, Ancestry(parent, s, t)) OBVIOUS
    <3> HIDE DEF visited, parent, One
    <3>6. Chain(ids, links, s, t, h, One(st))
      BY <1>2, <2>1, <3>2, <3>3, <3>4, <3>5, AncestryIsChain
    <3>7. out[st] = {One(st)} BY <1>7, <2>3 DEF Found, One
    <3>8. Right(out[st]) BY <1>14, <3>2, <3>6, <3>7 DEF RightPath
    <3> QED BY <1>6, <1>13, <2>4, <3>8
  <2>5. CASE Head(st.queue) # t
    <3>1. st \notin done /\ step[st] = SearchRound(st) /\ step[st] \in S
      BY <1>6, <1>8, <2>3, <2>5
    <3>2. PICK fresh : Seeks(ids, links, st, fresh, SearchRound(st)) BY <1>4, <2>3
    <3>3. Inv(h, k - 1, step[st]) BY <2>3, <2>5, <3>1, <3>2
    <3> HIDE DEF Inv
    <3> QED BY <1>12, <2>1, <3>1, <3>3
  <2> QED BY <2>4, <2>5
<1>15. ASSUME NEW h \in 0 .. last, NEW st \in S, <<h, 0, st>> \in J
       PROVE  \E k \in Nat : <<h + 1, k, st>> \in J
  <2>1. h \in Nat /\ h + 1 \in Nat /\ 0 \in Nat OBVIOUS
  <2>2. Inv(h, 0, st) BY <1>12, <1>15, <2>1
  <2>3. Len(st.queue) \in Nat /\ Inv(h + 1, Len(st.queue), st)
    BY <1>2, <2>1, <2>2, SeekLevels
  <2> HIDE DEF Inv
  <2> QED BY <1>12, <2>1, <2>3
<1>16. ASSUME NEW st \in S, <<last, 0, st>> \in J PROVE st \in done /\ out[st] \in right
  <2>1. Inv(last, 0, st) BY <1>3, <1>12, <1>16
  <2>2. st.queue = << >> /\ t \notin W[last] BY <1>2, <1>3, <2>1, SeekEnds
  <2>3. out[st] = {} BY <1>7, <2>2
  <2>4. Right(out[st]) BY <2>2, <2>3 DEF RightPath
  <2> QED BY <1>6, <1>13, <2>2, <2>4
<1>17. \A h \in 0 .. last, k \in Nat, st \in S : <<h, k, st>> \in J => loop[st] \in right
  <2> HIDE DEF right, Inv
  <2>1. TakesLevels(S, step, done, out, last, J, right)
    BY <1>14, <1>15, <1>16 DEF TakesLevels
  <2> QED BY <1>3, <1>11, <2>1, LoopByLevels
<1>18. Inv(0, 1, start)
  <2>1. start \in Searching(ids) BY <1>5 DEF S
  <2> QED BY <1>2, <1>5, <2>1, SeekStarts
<1>19. loop[start] \in right
  <2>1. 0 \in 0 .. last /\ 0 \in Nat /\ 1 \in Nat BY <1>3
  <2> HIDE DEF right, Inv
  <2> QED BY <1>5, <1>12, <1>17, <1>18, <2>1
<1>20. Right(FindShortestPath(s, t)) BY <1>1, <1>19
<1> QED BY <1>20 DEF ids, links, W, last

\* The search finds a path of recorded dependencies exactly when there is one, and
\* none is shorter (graph.service.ts:384): in every graph the writes can make,
\* though a service is marked, and its parent fixed, when it enters the queue.
THEOREM PathsAreShortest == Spec => []ShortestPathIsShortest
<1>1. ASSUME IInv, NEW s \in DOMAIN nodes, NEW t \in DOMAIN nodes
      PROVE  LET answer == AnswerPath(s, t).data
                 distance == Distances(Links(AnyFilter), s, Far)
             IN  /\ answer.found <=> t = s \/ t \in DOMAIN distance
                 /\ answer.found => answer.length = IF t = s THEN 1 ELSE distance[t] + 1
                 /\ \A path \in answer.path :
                      /\ Len(path) = answer.length
                      /\ path[1] = s /\ path[Len(path)] = t
                      /\ \A i \in 1 .. Len(path) - 1 :
                           <<path[i], path[i + 1]>> \in Links(AnyFilter)
  <2> DEFINE ids == DOMAIN nodes
             links == Links(AnyFilter)
             W == Within(links, s)
             answer == AnswerPath(s, t).data
             distance == Distances(links, s, Far)
             found == FindShortestPath(s, t)
             size == IF found = {} THEN 0 ELSE Len(CHOOSE p \in found : TRUE)
  <2>1. RightPath(ids, links, W, s, t, Far, found) BY <1>1, PathIsRight
  <2>2. answer.found = (found # {}) /\ answer.path = found /\ answer.length = size
    <3>1. Known({s, t}) BY DEF Known
    <3> HIDE DEF found
    <3> QED BY <3>1 DEF AnswerPath, Answered, found
  <2>3. Far \in Nat BY FarIsNatural
  <2>4. Reach(W, ids, links, s)
    <3>1. Among(links, ids) BY <1>1, ListsAreNeighbours
    <3> QED BY <3>1 DEF Reach, Among
  <2> HIDE DEF answer, found, links
  <2>5. /\ W[0] = {s} /\ s \in W[Far]
        /\ \A d, e \in Nat : d <= e => W[d] \subseteq W[e]
    <3> HIDE DEF W, ids
    <3> QED BY <2>3, <2>4, WithinLevels
  <2>6. /\ DOMAIN distance = W[Far] \ {s}
        /\ \A n \in W[Far] \ {s} : distance[n] \in 0 .. Far /\ n \in Layer(W, distance[n])
    BY <2>3, DistancesAreLayers
  <2>7. s \in Layer(W, 0) BY <2>5 DEF Layer
  <2> HIDE DEF W, distance, ids
  <2>8. CASE found = {} /\ t \notin W[Far]
    <3>1. t # s /\ ~ answer.found BY <2>2, <2>5, <2>8
    <3> HIDE DEF size
    <3> QED BY <2>2, <2>6, <2>8, <3>1 DEF distance, links, answer
  <2>9. ASSUME NEW e \in 0 .. Far, NEW p, found = {p}, t \in Layer(W, e),
               Chain(ids, links, s, t, e, p)
        PROVE  /\ answer.found <=> t = s \/ t \in DOMAIN distance
               /\ answer.found => answer.length = IF t = s THEN 1 ELSE distance[t] + 1
               /\ \A path \in answer.path :
                    /\ Len(path) = answer.length
                    /\ path[1] = s /\ path[Len(path)] = t
                    /\ \A i \in 1 .. Len(path) - 1 : <<path[i], path[i + 1]>> \in links
    <3>0. e \in Nat /\ e <= Far BY <2>3
    <3>1. size = Len(p) /\ found # {} BY <2>9
    <3> HIDE DEF size
    <3>2. answer.length = e + 1 /\ answer.found /\ answer.path = {p}
      BY <2>2, <2>9, <3>1 DEF Chain
    <3>3. t \in W[Far]
      <4>1. W[e] \subseteq W[Far] BY <2>3, <2>5, <3>0
      <4> QED BY <2>9, <4>1 DEF Layer
    <3>4. e = IF t = s THEN 0 ELSE distance[t]
      <4>1. CASE t = s
        <5>1. 0 \in Nat /\ t \in Layer(W, 0) BY <2>7, <4>1
        <5> QED BY <2>9, <3>0, <4>1, <5>1, LayersApart
      <4>2. CASE t # s
        <5> DEFINE d == distance[t]
        <5>1. d \in Nat /\ t \in Layer(W, d) BY <2>3, <2>6, <3>3, <4>2
        <5> HIDE DEF d
        <5>2. d = e BY <2>9, <3>0, <5>1, LayersApart
        <5> QED BY <4>2, <5>2 DEF d
      <4> QED BY <4>1, <4>2
    <3>5. answer.length = IF t = s THEN 1 ELSE distance[t] + 1 BY <3>2, <3>4
    <3>6. answer.found <=> t = s \/ t \in DOMAIN distance BY <2>6, <3>2, <3>3
    <3>7. /\ Len(p) = e + 1 /\ p[1] = s /\ p[e + 1] = t
          /\ \A i \in 1 .. e : <<p[i], p[i + 1]>> \in links
      BY <2>9 DEF Chain
    <3>8. Len(p) - 1 = e BY <3>0, <3>7
    <3> QED BY <3>2, <3>5, <3>6, <3>7, <3>8
  <2>10. (found = {} /\ t \notin W[Far])
           \/ \E e \in 0 .. Far : \E p :
                /\ found = {p} /\ t \in Layer(W, e)
                /\ Chain(ids, links, s, t, e, p)
    BY <2>1 DEF RightPath
  <2> QED BY <2>8, <2>9, <2>10 DEF answer, distance, links
<1>2. IInv => ShortestPathIsShortest BY <1>1 DEF ShortestPathIsShortest
<1> QED BY <1>2, InitInv, NextInv, PTL DEF Spec

------------------------------------------------------------------------------
\* Reach in both directions

\* U[a][d] has the services at most d links away from a.
FromAll(U, ids, links) ==
  /\ \A a \in ids : U[a][0] = {a}
  /\ \A a \in ids, d \in Nat : U[a][d] \subseteq ids
  /\ \A a, b \in ids, d \in Nat :
       b \in U[a][d + 1] <=> (b \in U[a][d] \/ \E c \in U[a][d] : <<c, b>> \in links)

LEMMA WithinFromAll ==
  ASSUME NEW ids, NEW links, Among(links, ids)
  PROVE  FromAll([a \in ids |-> Within(links, a)], ids, links)
<1> DEFINE U == [a \in ids |-> Within(links, a)]
<1>1. ASSUME NEW a \in ids
      PROVE  /\ U[a][0] = {a}
             /\ \A d \in Nat : U[a][d] \subseteq ids
             /\ \A b \in ids, d \in Nat :
                  b \in U[a][d + 1] <=> (b \in U[a][d] \/ \E c \in U[a][d] : <<c, b>> \in links)
  <2> DEFINE W == Within(links, a)
  <2>1. Reach(W, ids, links, a) BY DEF Reach, Among
  <2>2. U[a] = W OBVIOUS
  <2> HIDE DEF W, U
  <2>3. /\ W[0] = {a}
        /\ \A d \in Nat : W[d] \subseteq ids
        /\ \A d, e \in Nat : d <= e => W[d] \subseteq W[e]
        /\ \A d \in Nat : \A n \in W[d + 1] :
             n \in W[d] \/ \E m \in W[d] : <<m, n>> \in links
        /\ \A d \in Nat : \A m \in W[d], n \in ids :
             <<m, n>> \in links => n \in W[d + 1]
    BY <2>1, WithinLevels
  <2>4. \A d \in Nat : d + 1 \in Nat /\ d <= d + 1 OBVIOUS
  <2>5. \A b \in ids, d \in Nat :
          b \in W[d + 1] <=> (b \in W[d] \/ \E c \in W[d] : <<c, b>> \in links)
    BY <2>3, <2>4
  <2> QED BY <2>2, <2>3, <2>5
<1> HIDE DEF U
<1>2. FromAll(U, ids, links) BY <1>1 DEF FromAll
<1> QED BY <1>2 DEF U

\* A path can be taken apart at its first link as well as at its last.
LEMMA FirstLink ==
  ASSUME NEW ids, NEW links, NEW U, FromAll(U, ids, links), NEW d \in Nat
  PROVE  \A a, b \in ids :
           b \in U[a][d + 1] <=> (b \in U[a][d] \/ \E m \in ids : <<a, m>> \in links /\ b \in U[m][d])
<1> DEFINE First(e) ==
             \A a, b \in ids :
               b \in U[a][e + 1]
                 <=> (b \in U[a][e] \/ \E m \in ids : <<a, m>> \in links /\ b \in U[m][e])
           good == {e \in Nat : First(e)}
<1>0. /\ \A a \in ids : U[a][0] = {a}
      /\ \A a \in ids, e \in Nat : U[a][e] \subseteq ids
      /\ \A a, b \in ids, e \in Nat :
           b \in U[a][e + 1] <=> (b \in U[a][e] \/ \E c \in U[a][e] : <<c, b>> \in links)
  BY DEF FromAll
<1>1. First(0)
  <2>1. \A a, b \in ids : b \in U[a][0] <=> a = b BY <1>0
  <2>2. \A a, b \in ids : (\E c \in U[a][0] : <<c, b>> \in links) <=> <<a, b>> \in links
    BY <1>0
  <2>3. \A a, b \in ids :
          (\E m \in ids : <<a, m>> \in links /\ b \in U[m][0]) <=> <<a, b>> \in links
    BY <2>1
  <2>4. 0 \in Nat OBVIOUS
  <2> QED BY <1>0, <2>2, <2>3, <2>4
<1>2. ASSUME NEW e \in Nat, First(e) PROVE First(e + 1)
  <2>0. e + 1 \in Nat OBVIOUS
  <2>1. ASSUME NEW a \in ids, NEW b \in ids, b \in U[a][(e + 1) + 1]
        PROVE  b \in U[a][e + 1] \/ \E m \in ids : <<a, m>> \in links /\ b \in U[m][e + 1]
    <3>1. CASE b \in U[a][e + 1] BY <3>1
    <3>2. ASSUME NEW c \in U[a][e + 1], <<c, b>> \in links
          PROVE  b \in U[a][e + 1] \/ \E m \in ids : <<a, m>> \in links /\ b \in U[m][e + 1]
      <4>1. c \in ids BY <1>0, <2>0, <3>2
      <4>2. c \in U[a][e] \/ \E m \in ids : <<a, m>> \in links /\ c \in U[m][e]
        BY <1>2, <3>2, <4>1
      <4> QED BY <1>0, <3>2, <4>2
    <3>3. b \in U[a][e + 1] \/ \E c \in U[a][e + 1] : <<c, b>> \in links
      BY <1>0, <2>0, <2>1
    <3> QED BY <3>1, <3>2, <3>3
  <2>2. ASSUME NEW a \in ids, NEW b \in ids,
               b \in U[a][e + 1] \/ \E m \in ids : <<a, m>> \in links /\ b \in U[m][e + 1]
        PROVE  b \in U[a][(e + 1) + 1]
    <3>1. CASE b \in U[a][e + 1] BY <1>0, <2>0, <3>1
    <3>2. ASSUME NEW m \in ids, <<a, m>> \in links, b \in U[m][e + 1]
          PROVE  b \in U[a][(e + 1) + 1]
      <4>1. b \in U[m][e] \/ \E c \in U[m][e] : <<c, b>> \in links BY <1>0, <3>2
      <4>2. \A c \in ids : c \in U[m][e] => c \in U[a][e + 1] BY <1>2, <3>2
      <4>3. \A c \in U[m][e] : c \in ids BY <1>0
      <4>4. b \in U[a][e + 1] \/ \E c \in U[a][e + 1] : <<c, b>> \in links
        BY <4>1, <4>2, <4>3
      <4> QED BY <1>0, <2>0, <4>4
    <3> QED BY <2>2, <3>1, <3>2
  <2> QED BY <2>1, <2>2
<1> HIDE DEF First
<1>3. 0 \in good BY <1>1
<1>4. \A e \in Nat : e \in good => e + 1 \in good BY <1>2
<1> HIDE DEF good
<1>5. Nat \subseteq good BY <1>3, <1>4, NatBySteps
<1>6. First(d) BY <1>5 DEF good
<1> QED BY <1>6 DEF First

\* One service reaches another exactly when this one is reached from it.
LEMMA ReachIsMutual ==
  ASSUME NEW ids, NEW links, Among(links, ids), Among(Converse(links), ids), NEW d \in Nat
  PROVE  \A a, b \in ids : b \in Within(links, a)[d] <=> a \in Within(Converse(links), b)[d]
<1> DEFINE U == [a \in ids |-> Within(links, a)]
           V == [a \in ids |-> Within(Converse(links), a)]
           Mutual(e) == \A a, b \in ids : b \in U[a][e] <=> a \in V[b][e]
           good == {e \in Nat : Mutual(e)}
<1>1. FromAll(U, ids, links) /\ FromAll(V, ids, Converse(links)) BY WithinFromAll
<1>2. \A a, b \in ids : <<a, b>> \in links <=> <<b, a>> \in Converse(links)
  <2>1. \A l \in links : l = <<l[1], l[2]>> BY DEF Among
  <2> QED BY <2>1 DEF Converse
<1>3. \A a \in ids : U[a] = Within(links, a) /\ V[a] = Within(Converse(links), a) OBVIOUS
<1> HIDE DEF U, V
<1>4. Mutual(0) BY <1>1 DEF FromAll
<1>5. ASSUME NEW e \in Nat, Mutual(e) PROVE Mutual(e + 1)
  <2>1. \A a, b \in ids :
          a \in V[b][e + 1]
            <=> (a \in V[b][e] \/ \E m \in ids : <<b, m>> \in Converse(links) /\ a \in V[m][e])
    BY <1>1, FirstLink
  <2>2. \A a, b \in ids :
          b \in U[a][e + 1] <=> (b \in U[a][e] \/ \E m \in U[a][e] : <<m, b>> \in links)
    BY <1>1 DEF FromAll
  <2>3. \A a \in ids : U[a][e] \subseteq ids BY <1>1 DEF FromAll
  <2>4. \A a, b \in ids :
          (\E m \in U[a][e] : <<m, b>> \in links)
            <=> (\E m \in ids : <<b, m>> \in Converse(links) /\ a \in V[m][e])
    BY <1>2, <1>5, <2>3
  <2>5. \A a, b \in ids : b \in U[a][e + 1] <=> a \in V[b][e + 1]
    BY <1>5, <2>1, <2>2, <2>4
  <2> QED BY <2>5
<1> HIDE DEF Mutual
<1>6. 0 \in good BY <1>4
<1>7. \A e \in Nat : e \in good => e + 1 \in good BY <1>5
<1> HIDE DEF good
<1>8. Nat \subseteq good BY <1>6, <1>7, NatBySteps
<1>9. Mutual(d) BY <1>8 DEF good
<1> QED BY <1>3, <1>9 DEF Mutual

\* How often a service stands in an answer is the number of recorded dependencies.
LEMMA AnswersCountEdges ==
  ASSUME IInv, NEW s \in DOMAIN nodes, NEW t \in DOMAIN nodes, NEW filter
  PROVE  Times(GetDirectDependencies(s, filter), t)
           = Times(GetReverseDependencies(t, filter), s)
<1> DEFINE some == {d \in DOMAIN edge : filter \in {AnyFilter, edge[d].type}}
           source == [e \in DOMAIN edge |-> edge[e].source]
           target == [e \in DOMAIN edge |-> edge[e].target]
           from == {e \in some : source[e] = s}
           to == {e \in some : target[e] = t}
<1>1. /\ DOMAIN edge \subseteq EdgeId
      /\ adjacencyList[s] = {e \in DOMAIN edge : source[e] = s}
      /\ reverseAdjacencyList[t] = {e \in DOMAIN edge : target[e] = t}
  BY Typing DEF IInv, TypeOK, ListsMirror
<1>2. /\ Passing(adjacencyList[s], filter) = Edges(from)
      /\ Passing(reverseAdjacencyList[t], filter) = Edges(to)
  <2>1. /\ {e \in adjacencyList[s] : filter \in {AnyFilter, edge[e].type}} = from
        /\ {e \in reverseAdjacencyList[t] : filter \in {AnyFilter, edge[e].type}} = to
    BY <1>1
  <2> QED BY <2>1 DEF Passing
<1>3. from \in SUBSET DOMAIN edge /\ to \in SUBSET DOMAIN edge OBVIOUS
<1>4. {e \in from : target[e] = t} = {e \in to : source[e] = s} OBVIOUS
<1> HIDE DEF from, to, some
<1>5. ASSUME NEW list \in SUBSET DOMAIN edge
      PROVE  LET l == Edges(list)
             IN  /\ Times([i \in DOMAIN l |-> edge[l[i]].target], t)
                      = Cardinality({e \in list : target[e] = t})
                 /\ Times([i \in DOMAIN l |-> edge[l[i]].source], s)
                      = Cardinality({e \in list : source[e] = s})
  <2> DEFINE l == Edges(list)
  <2>1. l \in Seq(EdgeId) /\ ToSet(l) = list /\ IsInjective(l) BY <1>1, EdgesElements
  <2> HIDE DEF l
  <2>2. \A i \in DOMAIN l : l[i] \in DOMAIN edge BY <2>1 DEF ToSet
  <2>3. /\ [i \in DOMAIN l |-> edge[l[i]].target] = [i \in DOMAIN l |-> target[l[i]]]
        /\ [i \in DOMAIN l |-> edge[l[i]].source] = [i \in DOMAIN l |-> source[l[i]]]
    BY <2>2
  <2> HIDE DEF source, target
  <2>4. Times([i \in DOMAIN l |-> target[l[i]]], t) = Cardinality({e \in ToSet(l) : target[e] = t})
    BY <2>1, TimesCount
  <2>5. Times([i \in DOMAIN l |-> source[l[i]]], s) = Cardinality({e \in ToSet(l) : source[e] = s})
    BY <2>1, TimesCount
  <2> QED BY <2>1, <2>3, <2>4, <2>5 DEF l
<1> HIDE DEF source, target
<1>6. Times(GetDirectDependencies(s, filter), t) = Cardinality({e \in from : target[e] = t})
  BY <1>2, <1>3, <1>5 DEF GetDirectDependencies
<1>7. Times(GetReverseDependencies(t, filter), s) = Cardinality({e \in to : source[e] = s})
  BY <1>2, <1>3, <1>5 DEF GetReverseDependencies
<1> QED BY <1>4, <1>6, <1>7

\* A service is in the blast radius of another exactly when it is affected by it,
\* for every graph and limit, and the two lists count the same dependencies.
THEOREM BlastRadiusIsSymmetric == Spec => []BlastRadiusIsMutual
<1>1. ASSUME IInv, NEW s \in DOMAIN nodes, NEW t \in DOMAIN nodes, NEW maxDepth \in {0, 1}
      PROVE  t \in AnswerBlastRadius(s, maxDepth).data.affected
               <=> s \in AnswerBlastRadius(t, maxDepth).data.affectedBy
  <2> DEFINE depth == OrDefault(maxDepth, DefaultRadius)
             links == Links(AnyFilter)
             W == Within(links, s)
             V == Within(Converse(links), t)
  <2>1. depth \in Nat BY QueriesAssumption DEF OrDefault
  <2>2. Known({s}) /\ Known({t}) BY DEF Known
  <2>3. /\ AnswerBlastRadius(s, maxDepth).data.affected
             = DOMAIN GetTransitiveDependencies(s, depth, AnyFilter)
        /\ AnswerBlastRadius(t, maxDepth).data.affectedBy
             = DOMAIN GetTransitiveReverseDependencies(t, depth, AnyFilter)
    <3> HIDE DEF depth
    <3> QED BY <2>2 DEF AnswerBlastRadius, Answered, CalculateBlastRadius, depth
  <2> HIDE DEF depth
  <2>4. /\ GetTransitiveDependencies(s, depth, AnyFilter) = Distances(links, s, depth)
        /\ GetTransitiveReverseDependencies(t, depth, AnyFilter)
             = Distances(Converse(links), t, depth)
    BY <1>1, <2>1, QueriesAreDistances
  <2>5. Among(links, DOMAIN nodes) /\ Among(Converse(links), DOMAIN nodes)
    BY <1>1, ListsAreNeighbours
  <2> HIDE DEF links
  <2>6. t \in W[depth] <=> s \in V[depth] BY <1>1, <2>1, <2>5, ReachIsMutual
  <2>7. DOMAIN Distances(links, s, depth) = W[depth] \ {s} BY <2>1, DistancesAreLayers
  <2>8. DOMAIN Distances(Converse(links), t, depth) = V[depth] \ {t}
    BY <2>1, DistancesAreLayers
  <2> HIDE DEF W, V
  <2> QED BY <2>3, <2>4, <2>6, <2>7, <2>8
<1>2. ASSUME IInv, NEW s \in DOMAIN nodes, NEW t \in DOMAIN nodes, NEW filter \in Filters
      PROVE  Times(AnswerDirect(s, filter).data, t) = Times(AnswerReverse(t, filter).data, s)
  <2>1. Known({s}) /\ Known({t}) BY DEF Known
  <2>2. /\ AnswerDirect(s, filter).data = GetDirectDependencies(s, filter)
        /\ AnswerReverse(t, filter).data = GetReverseDependencies(t, filter)
    BY <2>1 DEF AnswerDirect, AnswerReverse, Answered
  <2> QED BY <1>2, <2>2, AnswersCountEdges
<1>3. IInv => BlastRadiusIsMutual BY <1>1, <1>2 DEF BlastRadiusIsMutual
<1> QED BY <1>3, InitInv, NextInv, PTL DEF Spec

------------------------------------------------------------------------------
\* A walk that marks a service when it puts it into the queue

\* adjacency gives each service that has links the services these lead to.
Adjacent(adjacency, ids, links) ==
  /\ DOMAIN adjacency \subseteq ids
  /\ \A n \in DOMAIN adjacency : /\ adjacency[n] \in Seq(ids)
                                 /\ ToSet(adjacency[n]) = {m \in ids : <<n, m>> \in links}
  /\ \A n \in ids : n \notin DOMAIN adjacency => \A m \in ids : <<n, m>> \notin links

\* Level h is marked, what is marked beyond it is in the queue, and up to the limit
\* the links of level h are followed or still ahead.
Spread(W, ids, links, limit, h, ahead, behind, visited) ==
  /\ W[h] \subseteq visited
  /\ \A n \in visited : n \in W[h] \/ n \in Ids(behind)
  /\ h < limit => \A m \in W[h], n \in ids :
       <<m, n>> \in links => n \in visited \/ m \in Ids(ahead)

Spreading(W, ids, links, s, limit, h, k, st) ==
  /\ st \in Marking(ids)
  /\ QueueAt(W, h, k, st.queue)
  /\ MarkedAt(W, limit, st.visited \ {s}, st.depth)
  /\ Spread(W, ids, links, limit, h, Ahead(st.queue, k), Behind(st.queue, k), st.visited)
  /\ h = limit => k = Len(st.queue)

\* A round of the loop that pushes the services fresh.
Spreads(ids, st, h, fresh, st2) ==
  /\ fresh \in Seq(ids)
  /\ st2 \in Marking(ids)
  /\ st2.queue = Tail(st.queue) \o Items(fresh, h + 1)
  /\ st2.visited = st.visited \cup ToSet(fresh)
  /\ \A n \in ids : st2.depth[n] = IF n \in ToSet(fresh) THEN h + 1 ELSE st.depth[n]

\* Those it has to push.
Pushed(ids, links, limit, h, st, fresh) ==
  /\ h < limit => ToSet(fresh) = {n \in ids : <<Head(st.queue).id, n>> \in links} \ st.visited
  /\ h = limit => fresh = << >>

LEMMA SpreadRound ==
  ASSUME NEW ids, NEW links, NEW s, NEW W, Reach(W, ids, links, s),
         NEW limit \in Nat, NEW h \in Nat, h <= limit, NEW k \in Nat, k > 0,
         NEW st, Spreading(W, ids, links, s, limit, h, k, st),
         NEW fresh, Pushed(ids, links, limit, h, st, fresh),
         NEW st2, Spreads(ids, st, h, fresh, st2)
  PROVE  Spreading(W, ids, links, s, limit, h, k - 1, st2)
<1> DEFINE queue == st.queue
           x == Head(queue).id
           new == Items(fresh, h + 1)
           rest == Tail(queue) \o new
<1>1. /\ queue \in Seq(Item(ids)) /\ QueueAt(W, h, k, queue)
      /\ st.visited \in SUBSET ids /\ st.depth \in [ids -> Nat]
  BY DEF Spreading, Marking
<1>2. fresh \in Seq(ids) /\ st2 \in Marking(ids) /\ st2.queue = rest BY DEF Spreads
<1> HIDE DEF queue
<1>3. /\ new \in Seq(Item(ids))
      /\ \A y \in ToSet(new) : y.depth = h + 1 /\ y.id \in ToSet(fresh)
      /\ Ids(ToSet(new)) = ToSet(fresh)
  <2> DEFINE d == h + 1
  <2>1. d \in Nat OBVIOUS
  <2> HIDE DEF d
  <2>2. /\ Items(fresh, d) \in Seq(Item(ids))
        /\ \A y \in ToSet(Items(fresh, d)) : y.depth = d /\ y.id \in ToSet(fresh)
        /\ Ids(ToSet(Items(fresh, d))) = ToSet(fresh)
    BY <1>2, <2>1, ItemsList
  <2> QED BY <2>2 DEF d
<1>4. x \in W[h]
  <2>1. OfNextLevel(W, ids, h, << >>) BY NoItems DEF OfNextLevel
  <2>2. TakenTo(W, ids, h, k, queue, << >>, Tail(queue) \o << >>)
    BY <1>1, <2>1, QueueAtNext
  <2> QED BY <2>2 DEF TakenTo
<1>5. ASSUME NEW n \in ToSet(fresh)
      PROVE  h < limit /\ n \in W[h + 1] /\ n \in Layer(W, h + 1) /\ n \in ids
  <2>1. h < limit
    <3>1. h # limit BY <1>5, NoItems DEF Pushed
    <3> QED BY <3>1
  <2>2. n \in ids /\ <<x, n>> \in links /\ n \notin st.visited BY <1>5, <2>1 DEF Pushed, x, queue
  <2>3. \A d \in Nat : \A m \in W[d], i \in ids : <<m, i>> \in links => i \in W[d + 1]
    BY WithinLevels
  <2>4. n \in W[h + 1] BY <1>4, <2>2, <2>3
  <2>5. n \notin W[h] BY <2>2 DEF Spreading, Spread
  <2> QED BY <2>1, <2>2, <2>4, <2>5, NextLayer
<1>6. OfNextLevel(W, ids, h, new) BY <1>3, <1>5 DEF OfNextLevel
<1> HIDE DEF new
<1>7. TakenTo(W, ids, h, k, queue, new, rest) BY <1>1, <1>6, QueueAtNext
<1>8. /\ QueueAt(W, h, k - 1, rest)
      /\ Ahead(queue, k) = {Head(queue)} \cup Ahead(rest, k - 1)
      /\ Behind(rest, k - 1) = Behind(queue, k) \cup ToSet(new)
      /\ k = Len(queue) /\ new = << >> => k - 1 = Len(rest)
  <2> HIDE DEF rest
  <2> QED BY <1>7 DEF TakenTo
<1> HIDE DEF rest
<1>9. ASSUME h = limit PROVE k - 1 = Len(rest)
  <2>1. fresh = << >> BY <1>9 DEF Pushed
  <2>2. Len(new) = 0 /\ new \in Seq(Item(ids))
    <3>1. DOMAIN << >> = {} OBVIOUS
    <3>2. Items(fresh, h + 1) = << >> BY <2>1, <3>1 DEF Items
    <3> QED BY <1>3, <3>2 DEF new
  <2>3. new = << >> BY <2>2, EmptySeq
  <2>4. k = Len(queue) BY <1>9 DEF Spreading, queue
  <2> QED BY <1>8, <2>3, <2>4
<1>10. MarkedAt(W, limit, st2.visited \ {s}, st2.depth)
  <2> SUFFICES ASSUME NEW n \in st2.visited \ {s}
               PROVE  st2.depth[n] \in 0 .. limit /\ n \in Layer(W, st2.depth[n])
    BY DEF MarkedAt
  <2>1. CASE n \in ToSet(fresh)
    <3>1. st2.depth[n] = h + 1 BY <1>5, <2>1 DEF Spreads
    <3> QED BY <1>5, <2>1, <3>1
  <2>2. CASE n \notin ToSet(fresh)
    <3>1. n \in st.visited \ {s} BY <2>2 DEF Spreads
    <3>2. st2.depth[n] = st.depth[n] BY <1>1, <2>2, <3>1 DEF Spreads
    <3> QED BY <3>1, <3>2 DEF Spreading, MarkedAt
  <2> QED BY <2>1, <2>2
<1>11. Spread(W, ids, links, limit, h, Ahead(rest, k - 1), Behind(rest, k - 1), st2.visited)
  <2> DEFINE ahead == Ahead(queue, k)
             left == Ahead(rest, k - 1)
             behind == Behind(queue, k)
             more == Behind(rest, k - 1)
  <2>1. /\ Ids(ahead) = {x} \cup Ids(left)
        /\ Ids(behind) \cup ToSet(fresh) = Ids(more)
    <3>1. Ids(ToSet(new)) = ToSet(fresh) BY <1>3 DEF new
    <3> QED BY <1>8, <3>1 DEF Ids, x
  <2> HIDE DEF ahead, left, behind, more
  <2>2. Spread(W, ids, links, limit, h, ahead, behind, st.visited)
    BY DEF Spreading, ahead, behind, queue
  <2>3. st2.visited = st.visited \cup ToSet(fresh) BY DEF Spreads
  <2>4. h < limit => \A n \in ids : <<x, n>> \in links => n \in st2.visited
    BY <2>3 DEF Pushed, x, queue
  <2> HIDE DEF x
  <2>5. Spread(W, ids, links, limit, h, left, more, st2.visited)
    BY <2>1, <2>2, <2>3, <2>4 DEF Spread
  <2> QED BY <2>5 DEF left, more
<1> QED BY <1>2, <1>8, <1>9, <1>10, <1>11 DEF Spreading

LEMMA SpreadLevels ==
  ASSUME NEW ids, NEW links, NEW s, NEW W, Reach(W, ids, links, s),
         NEW limit \in Nat, NEW h \in Nat, h < limit,
         NEW st, Spreading(W, ids, links, s, limit, h, 0, st)
  PROVE  Len(st.queue) \in Nat /\ Spreading(W, ids, links, s, limit, h + 1, Len(st.queue), st)
<1> DEFINE queue == st.queue
           n0 == Len(queue)
<1>1. queue \in Seq(Item(ids)) /\ QueueAt(W, h, 0, queue) BY DEF Spreading, Marking
<1> HIDE DEF queue
<1>2. /\ n0 \in Nat
      /\ Ahead(queue, 0) = {} /\ Behind(queue, n0) = {}
      /\ Ahead(queue, n0) = Behind(queue, 0)
  BY <1>1, QueueLevels
<1> HIDE DEF n0
<1>3. QueueAt(W, h + 1, n0, queue) BY <1>1, <1>2 DEF QueueAt, n0
<1> DEFINE level == Behind(queue, 0)
<1>4. Spread(W, ids, links, limit, h, {}, level, st.visited) BY <1>2 DEF Spreading, queue
<1>5. Ids({}) = {} BY DEF Ids
<1>6. \A y \in level : y.id \in W[h + 1] BY <1>1 DEF QueueAt
<1> HIDE DEF level
<1>7. /\ W[h] \subseteq st.visited
      /\ \A n \in st.visited : n \in W[h] \/ n \in Ids(level)
      /\ \A m \in W[h], n \in ids : <<m, n>> \in links => n \in st.visited
  BY <1>4, <1>5 DEF Spread
<1>8. /\ W[h + 1] \subseteq ids /\ W[h] \subseteq W[h + 1]
      /\ \A n \in W[h + 1] : n \in W[h] \/ \E m \in W[h] : <<m, n>> \in links
  <2>1. h + 1 \in Nat /\ h <= h + 1 OBVIOUS
  <2>2. /\ \A d \in Nat : W[d] \subseteq ids
        /\ \A d, e \in Nat : d <= e => W[d] \subseteq W[e]
        /\ \A d \in Nat : \A n \in W[d + 1] : n \in W[d] \/ \E m \in W[d] : <<m, n>> \in links
    BY WithinLevels
  <2> QED BY <2>1, <2>2
<1>9. W[h + 1] \subseteq st.visited BY <1>7, <1>8
<1>10. \A n \in Ids(level) : n \in W[h + 1] BY <1>6 DEF Ids
<1>11. \A n \in st.visited : n \in W[h + 1] BY <1>7, <1>8, <1>10
<1>12. \A m \in W[h + 1], n \in ids :
         <<m, n>> \in links => n \in st.visited \/ m \in Ids(level)
  BY <1>7, <1>9
<1>13. Spread(W, ids, links, limit, h + 1, Ahead(queue, n0), Behind(queue, n0), st.visited)
  BY <1>2, <1>9, <1>11, <1>12 DEF Spread, level
<1>14. st \in Marking(ids) /\ MarkedAt(W, limit, st.visited \ {s}, st.depth) BY DEF Spreading
<1>15. Spreading(W, ids, links, s, limit, h + 1, n0, st)
  BY <1>3, <1>13, <1>14 DEF Spreading, n0, queue
<1> QED BY <1>2, <1>15 DEF n0, queue

LEMMA SpreadStarts ==
  ASSUME NEW ids, NEW links, NEW s, NEW W, Reach(W, ids, links, s), NEW limit \in Nat
  PROVE  Spreading(W, ids, links, s, limit, 0, 1, AtStart(ids, s, {s}))
<1> DEFINE start == [id |-> s, depth |-> 0]
           queue == <<start>>
<1>0. s \in ids BY DEF Reach
<1>1. start \in Item(ids) /\ start.id = s /\ start.depth = 0 BY <1>0 DEF Item
<1>2. AtStart(ids, s, {s}) = [queue |-> queue, visited |-> {s}, depth |-> [n \in ids |-> 0]]
  BY DEF AtStart
<1> HIDE DEF start
<1>3. queue \in Seq(Item(ids)) /\ Len(queue) = 1 /\ queue[1] = start BY <1>1
<1> HIDE DEF queue
<1>4. Ahead(queue, 1) = {start} /\ Behind(queue, 1) = {}
  <2>1. 1 .. 1 = {1} /\ 1 + 1 .. 1 = {} OBVIOUS
  <2> QED BY <1>3, <2>1 DEF Ahead, Behind
<1>5. W[0] = {s} BY WithinLevels
<1>6. QueueAt(W, 0, 1, queue) BY <1>1, <1>3, <1>4, <1>5 DEF QueueAt
<1>7. Ids({start}) = {s} BY <1>1 DEF Ids
<1>8. Spread(W, ids, links, limit, 0, {start}, {}, {s}) BY <1>5, <1>7 DEF Spread
<1>9. [queue |-> queue, visited |-> {s}, depth |-> [n \in ids |-> 0]] \in Marking(ids)
  BY <1>0, <1>3 DEF Marking
<1>10. MarkedAt(W, limit, {s} \ {s}, [n \in ids |-> 0]) BY DEF MarkedAt
<1> DEFINE st == AtStart(ids, s, {s})
<1>11. /\ st \in Marking(ids) /\ st.queue = queue
       /\ st.visited = {s} /\ st.depth = [n \in ids |-> 0]
  BY <1>2, <1>9
<1> HIDE DEF st
<1>12. MarkedAt(W, limit, st.visited \ {s}, st.depth) BY <1>10, <1>11
<1>13. Spread(W, ids, links, limit, 0, Ahead(st.queue, 1), Behind(st.queue, 1), st.visited)
  BY <1>4, <1>8, <1>11
<1>14. 0 = limit => 1 = Len(st.queue) BY <1>3, <1>11
<1>15. QueueAt(W, 0, 1, st.queue) BY <1>6, <1>11
<1>16. Spreading(W, ids, links, s, limit, 0, 1, st)
  BY <1>11, <1>12, <1>13, <1>14, <1>15 DEF Spreading
<1> QED BY <1>16 DEF st

\* What the loop answers.
MarkedOthers(st, s) == [n \in st.visited \ {s} |-> st.depth[n]]

LEMMA SpreadEnds ==
  ASSUME NEW ids, NEW links, NEW s, NEW W, Reach(W, ids, links, s), NEW limit \in Nat,
         NEW st, Spreading(W, ids, links, s, limit, limit, 0, st)
  PROVE  st.queue = << >> /\ MarkedOthers(st, s) = Distances(links, s, limit)
<1> DEFINE others == st.visited \ {s}
           answer == [n \in others |-> st.depth[n]]
<1>1. /\ st.queue \in Seq(Item(ids)) /\ Len(st.queue) = 0
      /\ W[limit] \subseteq st.visited /\ MarkedAt(W, limit, others, st.depth)
  BY DEF Spreading, Spread, Marking
<1>2. st.queue = << >> BY <1>1, EmptySeq
<1>3. ASSUME NEW n \in others PROVE n \in W[limit]
  <2>1. st.depth[n] \in 0 .. limit /\ n \in W[st.depth[n]] BY <1>1 DEF MarkedAt, Layer
  <2>2. W[st.depth[n]] \subseteq W[limit] BY <2>1, WithinLevels
  <2> QED BY <2>1, <2>2
<1>4. others = W[limit] \ {s} BY <1>1, <1>3
<1>5. \A n \in W[limit] \ {s} : answer[n] \in Nat /\ n \in Layer(W, answer[n])
  BY <1>1, <1>4 DEF MarkedAt
<1>6. answer = [n \in W[limit] \ {s} |-> answer[n]] BY <1>4
<1>7. W = Within(links, s) BY DEF Reach
<1> HIDE DEF answer
<1>8. answer = Distances(links, s, limit) BY <1>5, <1>6, <1>7, LayersAreDistances
<1> QED BY <1>2, <1>8 DEF answer, MarkedOthers

\* What a round of traverse_dependencies does.
LEMMA ExpandRound ==
  ASSUME NEW ids, NEW links, NEW s, NEW W, Reach(W, ids, links, s),
         NEW adjacency, Adjacent(adjacency, ids, links),
         NEW limit \in Nat, NEW h \in Nat, h <= limit, NEW k \in Nat, k > 0,
         NEW st, Spreading(W, ids, links, s, limit, h, k, st)
  PROVE  /\ st.queue # << >>
         /\ Spreading(W, ids, links, s, limit, h, k - 1, Expand(adjacency, limit, st))
<1> DEFINE queue == st.queue
           x == Head(queue).id
<1>1. /\ queue \in Seq(Item(ids)) /\ QueueAt(W, h, k, queue)
      /\ st.visited \in SUBSET ids /\ st.depth \in [ids -> Nat]
  BY DEF Spreading, Marking
<1> HIDE DEF queue
<1>2. queue # << >> /\ Head(queue) \in Item(ids) /\ Head(queue).depth = h
  <2>1. OfNextLevel(W, ids, h, << >>) BY NoItems DEF OfNextLevel
  <2>2. TakenTo(W, ids, h, k, queue, << >>, Tail(queue) \o << >>)
    BY <1>1, <2>1, QueueAtNext
  <2> QED BY <2>2 DEF TakenTo
<1>3. x \in ids BY <1>2 DEF Item
<1>4. Tail(queue) \in Seq(Item(ids)) BY <1>1, <1>2, HeadTailProperties
<1>5. CASE h >= limit \/ x \notin DOMAIN adjacency
  <2> DEFINE st2 == [st EXCEPT !.queue = Tail(@)]
  <2>1. Expand(adjacency, limit, st) = st2 BY <1>2, <1>5 DEF Expand, Spent, queue, x
  <2>2. st2 \in Marking(ids) /\ st2.queue = Tail(queue)
        /\ st2.visited = st.visited /\ st2.depth = st.depth
    <3>1. st \in Marking(ids) BY DEF Spreading
    <3>2. Tail(st.queue) \in Seq(Item(ids)) BY <1>4 DEF queue
    <3> QED BY <3>1, <3>2 DEF Marking, queue
  <2> HIDE DEF st2
  <2>3. Pushed(ids, links, limit, h, st, << >>)
    <3>1. ASSUME h < limit PROVE \A n \in ids : <<x, n>> \notin links
      <4>1. x \notin DOMAIN adjacency BY <1>5, <3>1
      <4> QED BY <1>3, <4>1 DEF Adjacent
    <3> QED BY <3>1, NoItems DEF Pushed, x, queue
  <2>4. Spreads(ids, st, h, << >>, st2)
    <3>1. Items(<< >>, h + 1) = << >>
      <4>1. DOMAIN << >> = {} OBVIOUS
      <4>2. Items(<< >>, h + 1) \in Seq({}) /\ Len(Items(<< >>, h + 1)) = 0
        BY <4>1 DEF Items
      <4> QED BY <4>2, EmptySeq
    <3>2. Tail(queue) \o << >> = Tail(queue) BY <1>4, ConcatEmptySeq
    <3>3. << >> \in Seq(ids) /\ ToSet(<< >>) = {} BY NoItems
    <3>4. st2.queue = Tail(st.queue) \o Items(<< >>, h + 1) BY <2>2, <3>1, <3>2 DEF queue
    <3> QED BY <2>2, <3>3, <3>4 DEF Spreads
  <2>5. Spreading(W, ids, links, s, limit, h, k - 1, st2) BY <2>3, <2>4, SpreadRound
  <2> QED BY <1>2, <2>1, <2>5 DEF queue
<1>6. CASE ~ (h >= limit \/ x \notin DOMAIN adjacency)
  <2> DEFINE fresh == Fresh(adjacency[x], st.visited)
             new == Items(fresh, h + 1)
             st2 == [queue |-> Tail(queue) \o new,
                     visited |-> st.visited \cup ToSet(fresh),
                     depth |-> Put(st.depth, ToSet(fresh), h + 1)]
  <2>1. Expand(adjacency, limit, st) = st2 BY <1>2, <1>6 DEF Expand, Spent, queue, x
  <2>2. fresh \in Seq(ids) /\ ToSet(fresh) = {n \in ids : <<x, n>> \in links} \ st.visited
    <3>1. adjacency[x] \in Seq(ids) /\ ToSet(adjacency[x]) = {n \in ids : <<x, n>> \in links}
      BY <1>6 DEF Adjacent
    <3> QED BY <3>1, FreshElements
  <2> HIDE DEF fresh
  <2>3. ToSet(fresh) \subseteq ids BY <2>2
  <2>4. new \in Seq(Item(ids))
    <3>1. h + 1 \in Nat OBVIOUS
    <3> QED BY <2>2, <3>1, ItemsList
  <2> HIDE DEF new
  <2>5. Tail(queue) \o new \in Seq(Item(ids)) BY <1>4, <2>4, ConcatProperties
  <2>6. /\ Put(st.depth, ToSet(fresh), h + 1) \in [ids -> Nat]
        /\ \A n \in ids : Put(st.depth, ToSet(fresh), h + 1)[n]
                            = IF n \in ToSet(fresh) THEN h + 1 ELSE st.depth[n]
    BY <1>1 DEF Put
  <2>7. st2 \in Marking(ids) BY <1>1, <2>3, <2>5, <2>6 DEF Marking
  <2>8. /\ st2.queue = Tail(st.queue) \o Items(fresh, h + 1)
        /\ st2.visited = st.visited \cup ToSet(fresh)
        /\ st2.depth = Put(st.depth, ToSet(fresh), h + 1)
    BY DEF queue, new
  <2> HIDE DEF st2
  <2>9. Spreads(ids, st, h, fresh, st2) BY <2>2, <2>6, <2>7, <2>8 DEF Spreads
  <2>10. Pushed(ids, links, limit, h, st, fresh) BY <1>6, <2>2 DEF Pushed, x, queue
  <2>11. Spreading(W, ids, links, s, limit, h, k - 1, st2) BY <2>9, <2>10, SpreadRound
  <2> QED BY <1>2, <2>1, <2>11 DEF queue
<1> QED BY <1>5, <1>6

\* It keeps the variables of their types.
LEMMA ExpandType ==
  ASSUME NEW ids, NEW links, NEW adjacency, Adjacent(adjacency, ids, links),
         NEW limit, NEW st \in Marking(ids), st.queue # << >>
  PROVE  Expand(adjacency, limit, st) \in Marking(ids)
<1> DEFINE queue == st.queue
           x == Head(queue).id
           d == Head(queue).depth
           fresh == Fresh(adjacency[x], st.visited)
           new == Items(fresh, d + 1)
           st2 == [queue |-> Tail(queue) \o new,
                   visited |-> st.visited \cup ToSet(fresh),
                   depth |-> Put(st.depth, ToSet(fresh), d + 1)]
<1>1. queue \in Seq(Item(ids)) /\ st.visited \in SUBSET ids /\ st.depth \in [ids -> Nat]
  BY DEF Marking
<1>2. Tail(queue) \in Seq(Item(ids)) /\ Head(queue) \in Item(ids) BY <1>1, HeadTailProperties
<1>3. x \in ids /\ d \in Nat BY <1>2 DEF Item
<1>4. [st EXCEPT !.queue = Tail(@)] \in Marking(ids) BY <1>2 DEF Marking
<1>5. \/ Expand(adjacency, limit, st) = st2 /\ x \in DOMAIN adjacency
      \/ Expand(adjacency, limit, st) = [st EXCEPT !.queue = Tail(@)]
  BY DEF Expand
<1>6. ASSUME x \in DOMAIN adjacency PROVE st2 \in Marking(ids)
  <2>1. adjacency[x] \in Seq(ids) BY <1>6 DEF Adjacent
  <2>2. fresh \in Seq(ids) BY <2>1, FreshElements
  <2> HIDE DEF fresh
  <2>3. ToSet(fresh) \subseteq ids BY <2>2 DEF ToSet
  <2>4. d + 1 \in Nat BY <1>3
  <2>5. new \in Seq(Item(ids)) BY <2>2, <2>4, ItemsList
  <2> HIDE DEF new, queue, x, d
  <2>6. Tail(queue) \o new \in Seq(Item(ids)) BY <1>2, <2>5, ConcatProperties
  <2>7. Put(st.depth, ToSet(fresh), d + 1) \in [ids -> Nat] BY <1>1, <2>4 DEF Put
  <2> QED BY <1>1, <2>3, <2>6, <2>7 DEF Marking
<1> HIDE DEF st2
<1> QED BY <1>4, <1>5, <1>6

\* From a service without links there is no distance.
LEMMA NoDistance ==
  ASSUME NEW ids, NEW links, NEW s, NEW W, Reach(W, ids, links, s), NEW limit \in Nat,
         \A m \in ids : <<s, m>> \notin links
  PROVE  EmptyMap = Distances(links, s, limit)
<1> DEFINE good == {d \in Nat : W[d] = {s}}
<1>1. /\ W[0] = {s}
      /\ \A d \in Nat : W[d] \subseteq ids /\ s \in W[d]
      /\ \A d, e \in Nat : d <= e => W[d] \subseteq W[e]
      /\ \A d \in Nat : \A n \in W[d + 1] :
           n \in W[d] \/ \E m \in W[d] : <<m, n>> \in links
      /\ \A d \in Nat : \A m \in W[d], n \in ids :
           <<m, n>> \in links => n \in W[d + 1]
  BY WithinLevels
<1>2. 0 \in good BY <1>1
<1>3. ASSUME NEW d \in Nat, d \in good PROVE d + 1 \in good
  <2>1. d + 1 \in Nat OBVIOUS
  <2>2. W[d + 1] \subseteq ids /\ s \in W[d + 1] BY <1>1, <2>1
  <2>3. \A n \in W[d + 1] : n = s BY <1>1, <1>3, <2>2
  <2> QED BY <2>1, <2>2, <2>3
<1> HIDE DEF good
<1>4. Nat \subseteq good BY <1>2, <1>3, NatBySteps
<1>5. W[limit] \ {s} = {} BY <1>4 DEF good
<1>6. EmptyMap = [n \in W[limit] \ {s} |-> EmptyMap[n]] BY <1>5 DEF EmptyMap
<1>7. \A n \in W[limit] \ {s} : EmptyMap[n] \in Nat /\ n \in Layer(W, EmptyMap[n]) BY <1>5
<1>8. W = Within(links, s) BY DEF Reach
<1> QED BY <1>6, <1>7, <1>8, LayersAreDistances

\* traverse_dependencies marks the services in reach with their distances.
LEMMA TraverseIsNearest ==
  ASSUME NEW links, NEW s, NEW W, Reach(W, ServiceId, links, s),
         NEW adjacency, Adjacent(adjacency, ServiceId, links), NEW limit \in Nat
  PROVE  TraverseDependencies(adjacency, s, limit) = Distances(links, s, limit)
<1> DEFINE S == Marking(ServiceId)
           Next0(f, st) == IF st.queue = << >> THEN MarkedOthers(st, s) ELSE f[Expand(adjacency, limit, st)]
           loop == CHOOSE f : f = [st \in S |-> Next0(f, st)]
           done == {st \in S : st.queue = << >>}
           out == [st \in S |-> MarkedOthers(st, s)]
           step == [st \in S |-> IF st \in done THEN st ELSE Expand(adjacency, limit, st)]
<1>1. s \notin DOMAIN adjacency => TraverseDependencies(adjacency, s, limit) = EmptyMap
  BY DEF TraverseDependencies
<1>2. s \in DOMAIN adjacency
        => TraverseDependencies(adjacency, s, limit) = loop[AtStart(ServiceId, s, {s})]
  BY DEF TraverseDependencies, MarkedOthers
<1>3. step \in [S -> S]
  <2>1. \A st \in S : st \notin done => Expand(adjacency, limit, st) \in S BY ExpandType
  <2> HIDE DEF S, done
  <2> QED BY <2>1
<1>4. \A st \in S : st \in done => out[st] = MarkedOthers(st, s) OBVIOUS
<1>5. \A st \in S : st \notin done => step[st] = Expand(adjacency, limit, st) OBVIOUS
<1>6. \A st \in S : st \in done <=> st.queue = << >> OBVIOUS
<1> HIDE DEF S, out, step, done
<1>7. \A f : f = [st \in S |-> Next0(f, st)] <=> IsLoop(f, S, step, done, out)
  <2> SUFFICES ASSUME NEW f
               PROVE  f = [st \in S |-> Next0(f, st)] <=> IsLoop(f, S, step, done, out)
    OBVIOUS
  <2>1. \A st \in S : Next0(f, st) = IF st \in done THEN out[st] ELSE f[step[st]]
    BY <1>4, <1>5, <1>6
  <2> HIDE DEF Next0
  <2>2. [st \in S |-> Next0(f, st)] = [st \in S |-> IF st \in done THEN out[st] ELSE f[step[st]]]
    BY <2>1
  <2> QED BY <1>3, <2>2 DEF IsLoop
<1>8. IsLoop(loop, S, step, done, out)
  <2>1. \E f : IsLoop(f, S, step, done, out) BY <1>3, LoopIsFunction
  <2>2. \E f : f = [st \in S |-> Next0(f, st)] BY <1>7, <2>1
  <2> HIDE DEF Next0
  <2>3. loop = [st \in S |-> Next0(loop, st)] BY <2>2
  <2> HIDE DEF loop
  <2> QED BY <1>7, <2>3
<1> HIDE DEF loop
<1> DEFINE Inv(h, k, st) == Spreading(W, ServiceId, links, s, limit, h, k, st)
           J == {t \in Nat \X Nat \X S : Inv(t[1], t[2], t[3])}
           answers == {Distances(links, s, limit)}
<1>9. \A h, k \in Nat, st \in S : <<h, k, st>> \in J <=> Inv(h, k, st)
  <2> HIDE DEF Inv
  <2> QED OBVIOUS
<1>10. \A h \in 0 .. limit : h \in Nat /\ h <= limit /\ h + 1 \in Nat OBVIOUS
<1> HIDE DEF J
<1>11. ASSUME NEW h \in 0 .. limit, NEW k \in Nat, NEW st \in S, <<h, k, st>> \in J, k > 0
       PROVE  st \notin done /\ <<h, k - 1, step[st]>> \in J
  <2>1. k - 1 \in Nat BY <1>11
  <2>2. Inv(h, k, st) BY <1>9, <1>10, <1>11
  <2>3. st.queue # << >> /\ Inv(h, k - 1, Expand(adjacency, limit, st))
    BY <1>10, <1>11, <2>2, ExpandRound
  <2>4. st \notin done /\ step[st] = Expand(adjacency, limit, st) /\ step[st] \in S
    BY <1>3, <1>5, <1>6, <2>3
  <2> HIDE DEF Inv
  <2> QED BY <1>9, <1>10, <2>1, <2>3, <2>4
<1>12. ASSUME NEW h \in 0 .. limit, NEW st \in S, <<h, 0, st>> \in J, h < limit
       PROVE  \E k \in Nat : <<h + 1, k, st>> \in J
  <2>1. Inv(h, 0, st) BY <1>9, <1>10, <1>12
  <2>2. Len(st.queue) \in Nat /\ Inv(h + 1, Len(st.queue), st)
    BY <1>10, <1>12, <2>1, SpreadLevels
  <2> HIDE DEF Inv
  <2> QED BY <1>9, <1>10, <2>2
<1>13. ASSUME NEW st \in S, <<limit, 0, st>> \in J PROVE st \in done /\ out[st] \in answers
  <2>1. Inv(limit, 0, st) BY <1>9, <1>13
  <2>2. st.queue = << >> /\ MarkedOthers(st, s) = Distances(links, s, limit)
    BY <2>1, SpreadEnds
  <2> QED BY <1>4, <1>6, <2>2
<1>14. \A h \in 0 .. limit, k \in Nat, st \in S : <<h, k, st>> \in J => loop[st] \in answers
  <2> HIDE DEF answers, Inv
  <2>1. TakesLevels(S, step, done, out, limit, J, answers)
    BY <1>11, <1>12, <1>13 DEF TakesLevels
  <2> QED BY <1>8, <2>1, LoopByLevels
<1>15. Inv(0, 1, AtStart(ServiceId, s, {s})) BY SpreadStarts
<1>16. AtStart(ServiceId, s, {s}) \in S BY <1>15 DEF Spreading, S
<1>17. loop[AtStart(ServiceId, s, {s})] \in answers
  <2>1. 0 \in 0 .. limit /\ 0 \in Nat /\ 1 \in Nat OBVIOUS
  <2> HIDE DEF answers, Inv
  <2> QED BY <1>9, <1>14, <1>15, <1>16, <2>1
<1>18. s \notin DOMAIN adjacency => EmptyMap = Distances(links, s, limit)
  <2> SUFFICES ASSUME s \notin DOMAIN adjacency PROVE EmptyMap = Distances(links, s, limit)
    OBVIOUS
  <2>1. s \in ServiceId BY DEF Reach
  <2>2. \A m \in ServiceId : <<s, m>> \notin links BY <2>1 DEF Adjacent
  <2> QED BY <2>2, NoDistance
<1> QED BY <1>1, <1>2, <1>17, <1>18

------------------------------------------------------------------------------
\* The exported graph

Flattened(keys, lists) == FlattenSeq([i \in DOMAIN keys |-> Edges(lists[keys[i]])])

\* The edges of several services, one list after another.
LEMMA FlattenedEdges ==
  ASSUME NEW K, NEW keys \in Seq(K), IsInjective(keys), NEW lists,
         \A a \in ToSet(keys) : lists[a] \in SUBSET EdgeId,
         \A a, b \in ToSet(keys) : a # b => lists[a] \cap lists[b] = {}
  PROVE  /\ Flattened(keys, lists) \in Seq(EdgeId)
         /\ ToSet(Flattened(keys, lists)) = UNION {lists[a] : a \in ToSet(keys)}
         /\ IsInjective(Flattened(keys, lists))
<1> DEFINE seqs == [i \in DOMAIN keys |-> Edges(lists[keys[i]])]
<1>1. /\ Len(keys) \in Nat /\ DOMAIN keys = 1 .. Len(keys)
      /\ \A i \in 1 .. Len(keys) : keys[i] \in ToSet(keys)
      /\ \A i, j \in 1 .. Len(keys) : keys[i] = keys[j] => i = j
      /\ \A a \in ToSet(keys) : \E i \in 1 .. Len(keys) : keys[i] = a
  BY LenProperties DEF ToSet, IsInjective
<1>2. ASSUME NEW i \in 1 .. Len(keys)
      PROVE  /\ seqs[i] \in Seq(EdgeId)
             /\ ToSet(seqs[i]) = lists[keys[i]]
             /\ IsInjective(seqs[i])
  <2> DEFINE list == lists[keys[i]]
  <2>1. seqs[i] = Edges(list) BY <1>1
  <2>2. list \in SUBSET EdgeId BY <1>1
  <2> HIDE DEF list, seqs
  <2>3. Edges(list) \in Seq(EdgeId) /\ ToSet(Edges(list)) = list /\ IsInjective(Edges(list))
    BY <2>2, EdgesElements
  <2> QED BY <2>1, <2>3 DEF list
<1>3. seqs \in Seq(Seq(EdgeId)) /\ Len(seqs) = Len(keys)
  <2>1. DOMAIN seqs = 1 .. Len(keys) /\ seqs = [i \in DOMAIN seqs |-> seqs[i]] BY <1>1
  <2> HIDE DEF seqs
  <2>2. seqs \in [1 .. Len(keys) -> Seq(EdgeId)] BY <1>2, <2>1
  <2> QED BY <1>1, <2>2
<1>4. Flattened(keys, lists) = FlattenSeq(seqs) BY DEF Flattened
<1> HIDE DEF seqs
<1>5. \A i, j \in 1 .. Len(seqs) : i # j => ToSet(seqs[i]) \cap ToSet(seqs[j]) = {}
  <2> SUFFICES ASSUME NEW i \in 1 .. Len(keys), NEW j \in 1 .. Len(keys), i # j
               PROVE  ToSet(seqs[i]) \cap ToSet(seqs[j]) = {}
    BY <1>3
  <2>1. keys[i] # keys[j] /\ keys[i] \in ToSet(keys) /\ keys[j] \in ToSet(keys) BY <1>1
  <2>2. lists[keys[i]] \cap lists[keys[j]] = {} BY <2>1
  <2> QED BY <1>2, <2>2
<1>6. \A i \in 1 .. Len(seqs) : IsInjective(seqs[i]) BY <1>2, <1>3
<1>7. /\ FlattenSeq(seqs) \in Seq(EdgeId)
      /\ ToSet(FlattenSeq(seqs)) = UNION {ToSet(seqs[i]) : i \in 1 .. Len(seqs)}
      /\ IsInjective(FlattenSeq(seqs))
  BY <1>3, <1>5, <1>6, FlattenElements
<1>8. UNION {ToSet(seqs[i]) : i \in 1 .. Len(seqs)} = UNION {lists[a] : a \in ToSet(keys)}
  <2>1. \A i \in 1 .. Len(seqs) : ToSet(seqs[i]) = lists[keys[i]] /\ keys[i] \in ToSet(keys)
    BY <1>1, <1>2, <1>3
  <2>2. ASSUME NEW a \in ToSet(keys) PROVE \E i \in 1 .. Len(seqs) : ToSet(seqs[i]) = lists[a]
    <3>1. PICK i \in 1 .. Len(keys) : keys[i] = a BY <1>1
    <3>2. ToSet(seqs[i]) = lists[keys[i]] BY <1>2
    <3> QED BY <1>3, <3>1, <3>2
  <2> QED BY <2>1, <2>2
<1> QED BY <1>4, <1>7, <1>8

\* The outgoing lists, and what of them leads to a service in into.
OutgoingInto(into) ==
  [n \in DOMAIN nodes |-> {e \in adjacencyList[n] : edge[e].target \in into}]

LEMMA OutgoingEdges ==
  ASSUME IInv, NEW into, NEW from \in SUBSET DOMAIN nodes,
         NEW keys \in Seq(from), IsInjective(keys), ToSet(keys) = from
  PROVE  /\ Flattened(keys, OutgoingInto(into)) \in Seq(EdgeId)
         /\ ToSet(Flattened(keys, OutgoingInto(into)))
              = {e \in DOMAIN edge : edge[e].source \in from /\ edge[e].target \in into}
         /\ IsInjective(Flattened(keys, OutgoingInto(into)))
<1> DEFINE lists == OutgoingInto(into)
<1>1. /\ DOMAIN edge \subseteq EdgeId
      /\ \A n \in DOMAIN nodes : adjacencyList[n] = {e \in DOMAIN edge : edge[e].source = n}
  BY Typing DEF IInv, TypeOK, ListsMirror
<1>2. \A n \in DOMAIN nodes :
        lists[n] = {e \in DOMAIN edge : edge[e].source = n /\ edge[e].target \in into}
  BY <1>1 DEF OutgoingInto
<1> HIDE DEF lists
<1>3. \A a \in ToSet(keys) : lists[a] \in SUBSET EdgeId BY <1>1, <1>2
<1>4. \A a, b \in ToSet(keys) : a # b => lists[a] \cap lists[b] = {} BY <1>2
<1>5. /\ Flattened(keys, lists) \in Seq(EdgeId)
      /\ ToSet(Flattened(keys, lists)) = UNION {lists[a] : a \in ToSet(keys)}
      /\ IsInjective(Flattened(keys, lists))
  BY <1>3, <1>4, FlattenedEdges
<1>6. UNION {lists[a] : a \in ToSet(keys)}
        = {e \in DOMAIN edge : edge[e].source \in from /\ edge[e].target \in into}
  BY <1>2
<1> QED BY <1>5, <1>6 DEF lists

\* Keys names every registered service once.
LEMMA KeysAreNodes ==
  ASSUME IInv
  PROVE  /\ Keys \in Seq(DOMAIN nodes) /\ IsInjective(Keys) /\ ToSet(Keys) = DOMAIN nodes
         /\ IsFiniteSet(DOMAIN nodes) /\ Len(Keys) = Cardinality(DOMAIN nodes)
<1>1. IsFiniteSet(DOMAIN nodes)
  <2>1. DOMAIN nodes \subseteq ServiceId BY Typing
  <2> QED BY <2>1, QueriesAssumption, FS_Subset
<1> DEFINE keys == Keys
<1>2. keys \in Seq(DOMAIN nodes) BY <1>1, SetToSeqLists DEF Keys
<1>3. IsInjective(keys) /\ ToSet(keys) = DOMAIN nodes BY <1>1, SetToSeqElements DEF Keys
<1> HIDE DEF keys
<1>4. Len(keys) = Cardinality(ToSet(keys)) BY <1>2, <1>3, InjectiveLength
<1> QED BY <1>1, <1>2, <1>3, <1>4 DEF keys

LEMMA AllEdges ==
  ASSUME IInv
  PROVE  GetAllEdges \in Seq(EdgeId) /\ ToSet(GetAllEdges) = DOMAIN edge /\ IsInjective(GetAllEdges)
<1> DEFINE keys == Keys
           ids == DOMAIN nodes
           lists == OutgoingInto(ids)
<1>1. keys \in Seq(ids) /\ IsInjective(keys) /\ ToSet(keys) = ids BY KeysAreNodes
<1>2. \A n \in ids : lists[n] = adjacencyList[n]
  BY Typing DEF IInv, NoDanglingEdge, OutgoingInto
<1>3. \A i \in DOMAIN keys : keys[i] \in ids BY <1>1 DEF ToSet
<1>5. [i \in DOMAIN keys |-> GetEdges(keys[i])] = [i \in DOMAIN keys |-> Edges(lists[keys[i]])]
  <2> HIDE DEF keys, lists
  <2> QED BY <1>2, <1>3 DEF GetEdges
<1>6. GetAllEdges = Flattened(keys, lists) BY <1>5 DEF GetAllEdges, Flattened
<1>7. {e \in DOMAIN edge : edge[e].source \in ids /\ edge[e].target \in ids} = DOMAIN edge
  BY DEF IInv, NoDanglingEdge
<1> HIDE DEF keys
<1>8. /\ Flattened(keys, lists) \in Seq(EdgeId)
      /\ ToSet(Flattened(keys, lists))
           = {e \in DOMAIN edge : edge[e].source \in ids /\ edge[e].target \in ids}
      /\ IsInjective(Flattened(keys, lists))
  BY <1>1, OutgoingEdges
<1> QED BY <1>6, <1>7, <1>8

\* The exported edges are the recorded dependencies.
LEMMA ExportIsGraph ==
  ASSUME IInv
  PROVE  /\ ExportGraph.nodes = nodes
         /\ ExportGraph.edges \in Seq(EdgeRecord)
         /\ ToSet(ExportGraph.edges) = {edge[e] : e \in DOMAIN edge}
         /\ Len(ExportGraph.edges) = Len(GetAllEdges)
         /\ BuildGraph(ExportGraph) = Links(AnyFilter)
<1> DEFINE all == GetAllEdges
           edges == [i \in DOMAIN all |-> edge[all[i]]]
<1>1. ExportGraph.nodes = nodes /\ ExportGraph.edges = edges BY DEF ExportGraph
<1>2. all \in Seq(EdgeId) /\ ToSet(all) = DOMAIN edge BY AllEdges
<1> HIDE DEF all
<1>3. \A e \in ToSet(all) : edge[e] \in EdgeRecord BY <1>2 DEF IInv, TypeOK
<1>4. edges \in Seq(EdgeRecord) /\ Len(edges) = Len(all)
      /\ ToSet(edges) = {edge[e] : e \in ToSet(all)}
  <2>1. Len(all) \in Nat /\ DOMAIN all = 1 .. Len(all) BY <1>2, LenProperties
  <2>2. \A i \in 1 .. Len(all) : all[i] \in ToSet(all) BY <2>1 DEF ToSet
  <2>3. edges \in [1 .. Len(all) -> EdgeRecord] BY <1>3, <2>1, <2>2
  <2>4. edges \in Seq(EdgeRecord) BY <2>1, <2>3
  <2>5. ToSet(edges) = {edge[e] : e \in ToSet(all)} BY <2>1 DEF ToSet
  <2> HIDE DEF edges
  <2> QED BY <2>1, <2>3, <2>4, <2>5
<1>5. BuildGraph(ExportGraph) = {<<r.source, r.target>> : r \in ToSet(edges)}
  <2> HIDE DEF edges
  <2> QED BY <1>1 DEF BuildGraph, ToSet
<1>6. Links(AnyFilter) = {<<r.source, r.target>> : r \in ToSet(edges)}
  <2>1. \A d \in DOMAIN edge : AnyFilter \in {AnyFilter, edge[d].type} OBVIOUS
  <2>2. Links(AnyFilter) = {<<edge[e].source, edge[e].target>> : e \in DOMAIN edge}
    BY <2>1 DEF Links
  <2> HIDE DEF edges
  <2> QED BY <1>2, <1>4, <2>2
<1> HIDE DEF edges
<1> QED BY <1>1, <1>2, <1>4, <1>5, <1>6 DEF all

\* build_adjacency of the exported edges of a graph.
LEMMA AdjacencyIsGraph ==
  ASSUME NEW graph, graph.edges \in Seq(EdgeRecord)
  PROVE  /\ Among(BuildGraph(graph), ServiceId)
         /\ Adjacent(BuildAdjacency(graph.edges), ServiceId, BuildGraph(graph))
<1> DEFINE edges == graph.edges
           D == DOMAIN edges
           links == BuildGraph(graph)
           sources == {edges[i].source : i \in D}
           places == [i \in D |-> i]
           out == [s \in sources |-> Keep(places, {i \in D : edges[i].source = s})]
           target == [i \in D |-> edges[i].target]
           adjacency == BuildAdjacency(edges)
<1>1. Len(edges) \in Nat /\ D = 1 .. Len(edges) /\ \A i \in D : edges[i] \in EdgeRecord
  BY LenProperties
<1>2. \A i \in D : edges[i].source \in ServiceId /\ edges[i].target \in ServiceId
  BY <1>1 DEF EdgeRecord
<1>3. links = {<<edges[i].source, edges[i].target>> : i \in D} BY DEF BuildGraph
<1>4. places \in Seq(D) /\ ToSet(places) = D
  <2>1. places \in [1 .. Len(edges) -> D] BY <1>1
  <2>2. DOMAIN places = D /\ \A i \in D : places[i] = i OBVIOUS
  <2>3. Len(edges) \in Nat BY <1>1
  <2> HIDE DEF places, D, edges
  <2>4. places \in Seq(D) BY <2>1, <2>3
  <2>5. ToSet(places) = D BY <2>2, SMTT(30) DEF ToSet
  <2> QED BY <2>4, <2>5
<1>5. /\ DOMAIN adjacency = sources
      /\ \A s \in sources : adjacency[s] = [i \in DOMAIN out[s] |-> edges[out[s][i]].target]
  BY DEF BuildAdjacency
<1> HIDE DEF places, adjacency
<1>6. ASSUME NEW s \in sources
      PROVE  out[s] \in Seq(D) /\ ToSet(out[s]) = {i \in D : edges[i].source = s}
  <2> DEFINE kept == {i \in D : edges[i].source = s}
             keep == Keep(places, kept)
  <2>1. out[s] = keep OBVIOUS
  <2>2. kept \subseteq D OBVIOUS
  <2> HIDE DEF kept, D, out, edges
  <2>3. keep \in Seq(D) /\ ToSet(keep) = ToSet(places) \cap kept BY <1>4, KeepElements
  <2>4. ToSet(keep) = kept BY <1>4, <2>2, <2>3
  <2> QED BY <2>1, <2>3, <2>4 DEF kept
<1> HIDE DEF out
<1>7. ASSUME NEW s \in sources
      PROVE  /\ adjacency[s] \in Seq(ServiceId)
             /\ ToSet(adjacency[s]) = {target[i] : i \in {j \in D : edges[j].source = s}}
  <2> DEFINE list == out[s]
  <2>1. list \in Seq(D) /\ ToSet(list) = {i \in D : edges[i].source = s} BY <1>6
  <2>2. adjacency[s] = [i \in DOMAIN list |-> edges[list[i]].target] BY <1>5
  <2> HIDE DEF list
  <2>3. \A i \in DOMAIN list : list[i] \in D BY <2>1 DEF ToSet
  <2>4. adjacency[s] = [i \in DOMAIN list |-> target[list[i]]] BY <2>2, <2>3
  <2>5. \A i \in ToSet(list) : target[i] \in ServiceId BY <1>2, <2>1
  <2>6. list \in Seq(D) BY <2>1
  <2> HIDE DEF target, D, edges
  <2>7. /\ [i \in DOMAIN list |-> target[list[i]]] \in Seq(ServiceId)
        /\ Len([i \in DOMAIN list |-> target[list[i]]]) = Len(list)
        /\ ToSet([i \in DOMAIN list |-> target[list[i]]]) = {target[x] : x \in ToSet(list)}
    BY <2>5, <2>6, MappedList
  <2> QED BY <2>1, <2>4, <2>7
<1>8. Among(links, ServiceId) BY <1>2, <1>3 DEF Among
<1>9. \A s \in ServiceId : {target[i] : i \in {j \in D : edges[j].source = s}}
                            = {m \in ServiceId : <<s, m>> \in links}
  BY <1>2, <1>3
<1>10. sources \subseteq ServiceId BY <1>2
<1>11. \A s \in ServiceId : s \notin sources => \A m \in ServiceId : <<s, m>> \notin links
  BY <1>3
<1> HIDE DEF sources, target, D, edges, links
<1>12. Adjacent(adjacency, ServiceId, links) BY <1>5, <1>7, <1>9, <1>10, <1>11 DEF Adjacent
<1> QED BY <1>8, <1>12 DEF adjacency, edges, links

\* A subgraph holds the dependencies between the services asked for, and that of
\* all services is what the lists, the export and the statistics show.
THEOREM SubgraphsAreInduced == Spec => []SubgraphIsInduced
<1>1. ASSUME IInv, NEW wanted \in SUBSET ServiceId
      PROVE  LET asked == SetToSeq(wanted)
                 sub == AnswerSubgraph(asked).data
             IN  /\ ToSet(sub.nodes) = {s \in wanted : AnswerService(s).status = 200}
                 /\ ToSet(sub.edges)
                      = {e \in DOMAIN edge : {edge[e].source, edge[e].target} \subseteq wanted}
                 /\ Len(sub.edges) = Cardinality(ToSet(sub.edges))
                 /\ DOMAIN nodes \subseteq wanted =>
                      /\ ToSet(AnswerDependencies.data) = ToSet(sub.edges)
                      /\ ToSet(AnswerExport.data.edges) = {edge[e] : e \in ToSet(sub.edges)}
                      /\ Len(sub.nodes) = Len(AnswerServices.data)
                      /\ AnswerStatistics.data
                           = [nodeCount |-> Len(AnswerServices.data),
                              edgeCount |-> Len(sub.edges)]
  <2> DEFINE asked == SetToSeq(wanted)
             sub == AnswerSubgraph(asked).data
             ids == DOMAIN nodes
             known == Keep(asked, ids)
             from == wanted \cap ids
             induced == {e \in DOMAIN edge : {edge[e].source, edge[e].target} \subseteq wanted}
             flat == Flattened(known, OutgoingInto(wanted))
  <2>1. IsFiniteSet(wanted) BY QueriesAssumption, FS_Subset
  <2>2. asked \in Seq(wanted) /\ IsInjective(asked) /\ ToSet(asked) = wanted
    BY <2>1, SetToSeqLists, SetToSeqElements
  <2> HIDE DEF asked
  <2>3. known \in Seq(wanted) /\ ToSet(known) = from /\ IsInjective(known)
    <3>1. /\ known \in Seq(wanted)
          /\ ToSet(known) = ToSet(asked) \cap ids
          /\ IsInjective(asked) => IsInjective(known)
      <4> HIDE DEF ids
      <4> QED BY <2>2, KeepElements
    <3> QED BY <2>2, <3>1
  <2> HIDE DEF known
  <2>4. known \in Seq(from)
    <3>1. Len(known) \in Nat /\ known \in [1 .. Len(known) -> wanted] BY <2>3, LenProperties
    <3>2. \A i \in 1 .. Len(known) : known[i] \in from BY <2>3, <3>1 DEF ToSet
    <3>3. known \in [1 .. Len(known) -> from] BY <3>1, <3>2
    <3> QED BY <3>1, <3>3
  <2>5. from \in SUBSET ids OBVIOUS
  <2>6. /\ flat \in Seq(EdgeId)
        /\ ToSet(flat) = {e \in DOMAIN edge : edge[e].source \in from /\ edge[e].target \in wanted}
        /\ IsInjective(flat)
    <3> HIDE DEF from
    <3> QED BY <1>1, <2>3, <2>4, <2>5, OutgoingEdges
  <2>7. {e \in DOMAIN edge : edge[e].source \in from /\ edge[e].target \in wanted} = induced
    BY <1>1 DEF IInv, NoDanglingEdge
  <2>8. sub.nodes = known /\ sub.edges = flat
    <3>1. \A i \in DOMAIN known :
            {e \in adjacencyList[known[i]] : InSubgraph(e, ToSet(asked))}
              = OutgoingInto(wanted)[known[i]]
      <4>1. \A i \in DOMAIN known : known[i] \in ids BY <2>3 DEF ToSet
      <4> QED BY <2>2, <4>1 DEF InSubgraph, OutgoingInto
    <3>2. [i \in DOMAIN known |-> Edges({e \in adjacencyList[known[i]] : InSubgraph(e, ToSet(asked))})]
            = [i \in DOMAIN known |-> Edges(OutgoingInto(wanted)[known[i]])]
      BY <3>1
    <3>3. /\ sub.nodes = known
          /\ sub.edges = FlattenSeq([i \in DOMAIN known |->
               Edges({e \in adjacencyList[known[i]] : InSubgraph(e, ToSet(asked))})])
      BY DEF AnswerSubgraph, Answered, ExtractSubgraph, known
    <3> QED BY <3>2, <3>3 DEF Flattened
  <2> HIDE DEF flat, sub
  <2>9. \A s \in wanted : AnswerService(s).status = 200 <=> s \in ids
    <3> SUFFICES ASSUME NEW s \in wanted PROVE AnswerService(s).status = 200 <=> s \in ids
      OBVIOUS
    <3>1. Known({s}) <=> s \in ids BY DEF Known
    <3> QED BY <3>1 DEF AnswerService, Answered, NotFound
  <2>10. ToSet(sub.nodes) = {s \in wanted : AnswerService(s).status = 200}
    BY <2>3, <2>8, <2>9
  <2>11. ToSet(sub.edges) = induced BY <2>6, <2>7, <2>8
  <2>12. Len(sub.edges) = Cardinality(ToSet(sub.edges)) BY <2>6, <2>8, InjectiveLength
  <2>13. ASSUME ids \subseteq wanted
         PROVE  /\ ToSet(AnswerDependencies.data) = ToSet(sub.edges)
                /\ ToSet(AnswerExport.data.edges) = {edge[e] : e \in ToSet(sub.edges)}
                /\ Len(sub.nodes) = Len(AnswerServices.data)
                /\ AnswerStatistics.data
                     = [nodeCount |-> Len(AnswerServices.data), edgeCount |-> Len(sub.edges)]
    <3>1. induced = DOMAIN edge BY <1>1, <2>13 DEF IInv, NoDanglingEdge
    <3>2. /\ GetAllEdges \in Seq(EdgeId) /\ ToSet(GetAllEdges) = DOMAIN edge
          /\ IsInjective(GetAllEdges)
      BY <1>1, AllEdges
    <3>3. AnswerDependencies.data = GetAllEdges BY DEF AnswerDependencies, Answered
    <3>4. ToSet(AnswerExport.data.edges) = {edge[e] : e \in DOMAIN edge}
      BY <1>1, ExportIsGraph DEF AnswerExport, Answered
    <3>5. Len(GetAllEdges) = Cardinality(ToSet(GetAllEdges)) BY <3>2, InjectiveLength
    <3>6. Len(sub.edges) = Len(GetAllEdges) BY <2>11, <2>12, <3>1, <3>2, <3>5
    <3>7. from = ids BY <2>13
    <3>8. Len(sub.nodes) = Cardinality(ids)
      <4>1. Len(known) = Cardinality(ToSet(known)) BY <2>3, InjectiveLength
      <4> QED BY <2>3, <2>8, <3>7, <4>1
    <3>9. Len(AnswerServices.data) = Cardinality(ids)
      <4>1. AnswerServices.data = [i \in DOMAIN Keys |-> nodes[Keys[i]]]
        BY DEF AnswerServices, Answered
      <4>2. Keys \in Seq(ids) /\ Len(Keys) = Cardinality(ids) BY <1>1, KeysAreNodes
      <4>3. Len([i \in DOMAIN Keys |-> nodes[Keys[i]]]) = Len(Keys) BY <4>2, LenProperties
      <4> QED BY <4>1, <4>2, <4>3
    <3>10. AnswerStatistics.data = [nodeCount |-> Cardinality(ids), edgeCount |-> Len(GetAllEdges)]
      BY DEF AnswerStatistics, Answered, GetStatistics
    <3> QED BY <2>11, <3>1, <3>2, <3>3, <3>4, <3>6, <3>8, <3>9, <3>10
  <2> HIDE DEF induced
  <2>14. /\ ToSet(sub.nodes) = {s \in wanted : AnswerService(s).status = 200}
         /\ ToSet(sub.edges) = induced
         /\ Len(sub.edges) = Cardinality(ToSet(sub.edges))
    BY <2>10, <2>11, <2>12
  <2> QED BY <2>13, <2>14 DEF sub, asked, induced
<1>2. IInv => SubgraphIsInduced BY <1>1 DEF SubgraphIsInduced
<1> QED BY <1>2, InitInv, NextInv, PTL DEF Spec

------------------------------------------------------------------------------
\* The order of the services

LEMMA LowerAllIsRecursive ==
  ASSUME NEW st, NEW targets, Len(targets) \in Nat
  PROVE  \E upTo :
           /\ LowerAll(st, targets) = upTo[Len(targets)]
           /\ upTo[0] = st
           /\ \A i \in 0 .. Len(targets) :
                i > 0 => upTo[i] = Lower(upTo[i - 1], targets[i])
<1> DEFINE Next0(f, i) == IF i = 0 THEN st ELSE Lower(f[i - 1], targets[i])
           Upto(n) == \E f : f = [i \in 0 .. n |-> Next0(f, i)]
           good == {n \in Nat : Upto(n)}
           upTo == CHOOSE f : f = [i \in 0 .. Len(targets) |-> Next0(f, i)]
<1>1. 0 \in good
  <2> DEFINE g == [i \in 0 .. 0 |-> st]
  <2>1. g = [i \in 0 .. 0 |-> Next0(g, i)] OBVIOUS
  <2> QED BY <2>1
<1>2. ASSUME NEW n \in Nat, n \in good PROVE n + 1 \in good
  <2>1. PICK f : f = [i \in 0 .. n |-> Next0(f, i)] BY <1>2
  <2> DEFINE g == [i \in 0 .. n + 1 |-> IF i = n + 1 THEN Next0(f, i) ELSE f[i]]
  <2>2. \A i \in 0 .. n + 1 : g[i] = Next0(g, i)
    <3> SUFFICES ASSUME NEW i \in 0 .. n + 1 PROVE g[i] = Next0(g, i) OBVIOUS
    <3>1. i = 0 \/ g[i - 1] = f[i - 1] OBVIOUS
    <3>2. Next0(g, i) = Next0(f, i) BY <3>1
    <3>3. CASE i = n + 1 BY <3>2, <3>3
    <3>4. CASE i # n + 1
      <4>1. i \in 0 .. n /\ g[i] = f[i] BY <3>4
      <4>2. f[i] = Next0(f, i) BY <2>1, <4>1
      <4> QED BY <3>2, <4>1, <4>2
    <3> QED BY <3>3, <3>4
  <2>3. g = [i \in 0 .. n + 1 |-> Next0(g, i)] BY <2>2
  <2> HIDE DEF g
  <2>4. Upto(n + 1) BY <2>3
  <2> QED BY <2>4
<1> HIDE DEF good
<1>3. Len(targets) \in good BY <1>1, <1>2, NatBySteps
<1>4. upTo = [i \in 0 .. Len(targets) |-> Next0(upTo, i)] BY <1>3 DEF good
<1>5. LowerAll(st, targets) = upTo[Len(targets)] BY DEF LowerAll
<1> HIDE DEF upTo
<1>6. upTo[0] = st BY <1>4
<1>7. \A i \in 0 .. Len(targets) : i > 0 => upTo[i] = Next0(upTo, i) BY <1>4
<1> QED BY <1>5, <1>6, <1>7

\* How often n is among the first i of list.
Met(list, i, n) == Cardinality({j \in 1 .. i : list[j] = n})

LEMMA TimesSoFar ==
  ASSUME NEW S, NEW list \in Seq(S)
  PROVE  /\ \A n : Met(list, 0, n) = 0 /\ Met(list, Len(list), n) = Times(list, n)
         /\ \A i \in 0 .. Len(list) : \A n : /\ Met(list, i, n) \in Nat
                                             /\ Met(list, i, n) <= Times(list, n)
         /\ \A i \in 0 .. Len(list) : \A n :
              i > 0 => Met(list, i, n)
                         = IF list[i] = n THEN Met(list, i - 1, n) + 1
                                          ELSE Met(list, i - 1, n)
<1>1. Len(list) \in Nat /\ DOMAIN list = 1 .. Len(list) BY LenProperties
<1>2. \A n : Met(list, Len(list), n) = Times(list, n) BY <1>1 DEF Met, Times
<1>3. \A n : Met(list, 0, n) = 0
  <2>1. \A n : {j \in 1 .. 0 : list[j] = n} = {} OBVIOUS
  <2> QED BY <2>1, FS_EmptySet DEF Met
<1>4. ASSUME NEW i \in 0 .. Len(list), NEW n
      PROVE  /\ IsFiniteSet({j \in 1 .. i : list[j] = n})
             /\ Met(list, i, n) \in Nat /\ Met(list, i, n) <= Times(list, n)
  <2> DEFINE few == {j \in 1 .. i : list[j] = n}
             all == {j \in 1 .. Len(list) : list[j] = n}
  <2>1. few \subseteq all /\ all \subseteq 1 .. Len(list) BY <1>1
  <2>2. IsFiniteSet(1 .. Len(list)) BY <1>1, FS_Interval
  <2>3. IsFiniteSet(all) BY <2>1, <2>2, FS_Subset
  <2> HIDE DEF few, all
  <2>4. IsFiniteSet(few) /\ Cardinality(few) <= Cardinality(all) BY <2>1, <2>3, FS_Subset
  <2>5. Cardinality(few) \in Nat BY <2>4, FS_CardinalityType
  <2>6. Times(list, n) = Cardinality(all) BY <1>1 DEF Times, all
  <2> QED BY <2>4, <2>5, <2>6 DEF Met, few
<1>5. ASSUME NEW i \in 0 .. Len(list), NEW n, i > 0
      PROVE  Met(list, i, n) = IF list[i] = n THEN Met(list, i - 1, n) + 1
                                                ELSE Met(list, i - 1, n)
  <2> DEFINE before == {j \in 1 .. i - 1 : list[j] = n}
  <2>1. i - 1 \in 0 .. Len(list) BY <1>5
  <2>2. IsFiniteSet(before) BY <1>4, <2>1
  <2>3. i \notin before OBVIOUS
  <2>4. {j \in 1 .. i : list[j] = n} = IF list[i] = n THEN before \cup {i} ELSE before
    BY <1>5
  <2> HIDE DEF before
  <2>5. Cardinality(before \cup {i}) = Cardinality(before) + 1 BY <2>2, <2>3, FS_AddElement
  <2> QED BY <2>4, <2>5 DEF Met, before
<1> QED BY <1>2, <1>3, <1>4, <1>5

\* The services whose last missing dependency is taken off by a list.
Cleared(ids, degree, list, i) == {n \in ids : Met(list, i, n) > 0 /\ degree[n] = Met(list, i, n)}

\* What i rounds of the inner loop have done to st.
Lowered(ids, st, list, i, st2) ==
  /\ st2 \in Sorting(ids) /\ st2.result = st.result
  /\ \A n \in ids : st2.inDegree[n] = st.inDegree[n] - Met(list, i, n)
  /\ \E added \in Seq(ids) :
       /\ st2.queue = st.queue \o added
       /\ IsInjective(added) /\ ToSet(added) = Cleared(ids, st.inDegree, list, i)

\* more is list, and x behind it.
OneLonger(S, list, x, more) == list \in Seq(S) /\ x \in S /\ more = Append(list, x)

LEMMA OneMore ==
  ASSUME NEW S, NEW list, NEW x, NEW more, OneLonger(S, list, x, more)
  PROVE  /\ more \in Seq(S) /\ ToSet(more) = ToSet(list) \cup {x}
         /\ Len(list) \in Nat /\ Len(more) = Len(list) + 1
         /\ DOMAIN more = 1 .. Len(list) + 1 /\ DOMAIN list = 1 .. Len(list)
         /\ more[Len(list) + 1] = x /\ \A j \in 1 .. Len(list) : more[j] = list[j]
         /\ IsInjective(list) /\ x \notin ToSet(list) => IsInjective(more)
<1> DEFINE n == Len(list)
<1>1. list \in Seq(S) /\ x \in S /\ more = Append(list, x) BY DEF OneLonger
<1>2. /\ n \in Nat /\ more \in Seq(S) /\ DOMAIN more = 1 .. n + 1 /\ DOMAIN list = 1 .. n
      /\ more[n + 1] = x /\ \A j \in 1 .. n : more[j] = list[j]
  BY <1>1
<1>0. Len(more) = n + 1 BY <1>1
<1> HIDE DEF n
<1>3. \A m \in DOMAIN more : m \in 1 .. n \/ m = n + 1 BY <1>2
<1>4. \A m \in 1 .. n : m \in DOMAIN more /\ list[m] \in ToSet(list) BY <1>2 DEF ToSet
<1>5. n + 1 \in DOMAIN more BY <1>2
<1>6. ASSUME IsInjective(list), x \notin ToSet(list) PROVE IsInjective(more)
  <2> SUFFICES ASSUME NEW j \in DOMAIN more, NEW k \in DOMAIN more, more[j] = more[k]
               PROVE  j = k
    BY DEF IsInjective
  <2>1. j \in 1 .. n /\ k \in 1 .. n => j = k BY <1>2, <1>6 DEF IsInjective
  <2>2. \A m \in 1 .. n : list[m] # x BY <1>4, <1>6
  <2> QED BY <1>2, <1>3, <2>1, <2>2
<1>7. ToSet(more) \subseteq ToSet(list) \cup {x} BY <1>2, <1>3 DEF ToSet
<1>8. ToSet(list) \cup {x} \subseteq ToSet(more)
  <2>1. x \in ToSet(more) BY <1>2, <1>5 DEF ToSet
  <2>2. \A y \in ToSet(list) : \E m \in 1 .. n : y = list[m] BY <1>2 DEF ToSet
  <2>3. \A y \in ToSet(list) : y \in ToSet(more) BY <1>2, <1>4, <2>2 DEF ToSet
  <2> QED BY <2>1, <2>3
<1> QED BY <1>0, <1>2, <1>6, <1>7, <1>8 DEF n

\* longer is front with more behind it.
Longer(S, front, list, x, more, longer) ==
  /\ front \in Seq(S) /\ list \in Seq(S) /\ x \in S
  /\ more = Append(list, x) /\ longer = Append(front \o list, x)

LEMMA AppendBehind ==
  ASSUME NEW S, NEW front, NEW list, NEW x, NEW more, NEW longer,
         Longer(S, front, list, x, more, longer)
  PROVE  longer = front \o more
<1> DEFINE m == Len(front)
           n == Len(list)
           k == m + n + 1
           mid == front \o list
           all == front \o more
<1>1. front \in Seq(S) /\ list \in Seq(S) BY DEF Longer
<1>2. m \in Nat /\ n \in Nat BY <1>1, LenProperties
<1>3. OneLonger(S, list, x, more) BY DEF Longer, OneLonger
<1>4. /\ more \in Seq(S) /\ Len(more) = n + 1
      /\ more[n + 1] = x /\ \A i \in 1 .. n : more[i] = list[i]
  BY <1>3, OneMore
<1>5. /\ mid \in Seq(S) /\ Len(mid) = m + n
      /\ \A i \in 1 .. m + n : mid[i] = IF i <= m THEN front[i] ELSE list[i - m]
  BY <1>1, ConcatProperties
<1>6. /\ all \in Seq(S) /\ Len(all) = m + Len(more)
      /\ \A i \in 1 .. m + Len(more) : all[i] = IF i <= m THEN front[i] ELSE more[i - m]
  BY <1>1, <1>4, ConcatProperties
<1>7. OneLonger(S, mid, x, longer) BY <1>5 DEF Longer, OneLonger
<1> HIDE DEF m, n, mid, all
<1>8. /\ longer \in Seq(S) /\ Len(longer) = Len(mid) + 1
      /\ longer[Len(mid) + 1] = x /\ \A i \in 1 .. Len(mid) : longer[i] = mid[i]
  BY <1>7, OneMore
<1>9. Len(longer) = k /\ Len(all) = k BY <1>2, <1>4, <1>5, <1>6, <1>8
<1>10. ASSUME NEW i \in 1 .. k PROVE longer[i] = all[i]
  <2>1. CASE i = k
    <3>1. longer[i] = x BY <1>5, <1>8, <2>1
    <3>2. i - m = n + 1 /\ ~ (i <= m) /\ i \in 1 .. m + Len(more) BY <1>2, <1>4, <2>1
    <3>3. all[i] = more[i - m] BY <1>6, <3>2
    <3> QED BY <1>4, <3>1, <3>2, <3>3
  <2>2. CASE i # k
    <3>1. i \in 1 .. m + n /\ i \in 1 .. m + Len(more) BY <1>2, <1>4, <2>2
    <3>2. longer[i] = IF i <= m THEN front[i] ELSE list[i - m] BY <1>5, <1>8, <3>1
    <3>3. all[i] = IF i <= m THEN front[i] ELSE more[i - m] BY <1>6, <3>1
    <3>4. ~ (i <= m) => more[i - m] = list[i - m]
      <4>1. ~ (i <= m) => i - m \in 1 .. n BY <1>2, <3>1
      <4> QED BY <1>4, <4>1
    <3> QED BY <3>2, <3>3, <3>4
  <2> QED BY <2>1, <2>2
<1> HIDE DEF k
<1>11. longer \in [1 .. k -> S] /\ all \in [1 .. k -> S] BY <1>6, <1>8, <1>9, LenProperties
<1>12. longer = [i \in 1 .. k |-> longer[i]] /\ all = [i \in 1 .. k |-> all[i]] BY <1>11
<1>13. [i \in 1 .. k |-> longer[i]] = [i \in 1 .. k |-> all[i]] BY <1>10
<1>14. longer = all BY <1>12, <1>13
<1> QED BY <1>14 DEF all

\* What is left of a list without its first element.
LEMMA OneLess ==
  ASSUME NEW S, NEW list \in Seq(S), list # << >>
  PROVE  /\ Head(list) \in S /\ Tail(list) \in Seq(S)
         /\ ToSet(list) = {Head(list)} \cup ToSet(Tail(list))
         /\ IsInjective(list) => IsInjective(Tail(list)) /\ Head(list) \notin ToSet(Tail(list))
<1> DEFINE n == Len(list)
           rest == Tail(list)
           x == Head(list)
<1>1. /\ n \in Nat /\ n > 0 /\ x = list[1] /\ x \in S
      /\ rest \in Seq(S) /\ DOMAIN list = 1 .. n /\ DOMAIN rest = 1 .. n - 1
      /\ \A j \in 1 .. n - 1 : rest[j] = list[j + 1]
  OBVIOUS
<1> HIDE DEF n, rest, x
<1>2. \A m \in 1 .. n : m = 1 \/ (m - 1 \in 1 .. n - 1 /\ (m - 1) + 1 = m) BY <1>1
<1>3. \A m \in 1 .. n - 1 : m + 1 \in 1 .. n /\ m + 1 # 1 BY <1>1
<1>4. 1 \in 1 .. n BY <1>1
<1>5. ToSet(list) \subseteq {x} \cup ToSet(rest)
  <2>0. \A y \in ToSet(list) : \E m \in 1 .. n : y = list[m] BY <1>1 DEF ToSet
  <2> SUFFICES ASSUME NEW m \in 1 .. n PROVE list[m] \in {x} \cup ToSet(rest)
    BY <2>0
  <2>1. CASE m = 1 BY <1>1, <2>1
  <2>2. CASE m # 1
    <3>1. m - 1 \in DOMAIN rest /\ (m - 1) + 1 = m BY <1>1, <1>2, <2>2
    <3>2. rest[m - 1] = list[m] BY <1>1, <3>1
    <3> QED BY <3>1, <3>2 DEF ToSet
  <2> QED BY <2>1, <2>2
<1>6. {x} \cup ToSet(rest) \subseteq ToSet(list) BY <1>1, <1>3, <1>4 DEF ToSet
<1>7. ASSUME IsInjective(list) PROVE IsInjective(rest) /\ x \notin ToSet(rest)
  <2>1. \A j, k \in 1 .. n : list[j] = list[k] => j = k BY <1>1, <1>7 DEF IsInjective
  <2>2. \A j, k \in 1 .. n - 1 : rest[j] = rest[k] => j = k
    <3> SUFFICES ASSUME NEW j \in 1 .. n - 1, NEW k \in 1 .. n - 1, rest[j] = rest[k]
                 PROVE  j = k
      OBVIOUS
    <3>1. j + 1 = k + 1 BY <1>1, <1>3, <2>1
    <3> QED BY <3>1
  <2>3. \A j \in 1 .. n - 1 : rest[j] # x BY <1>1, <1>3, <1>4, <2>1
  <2> QED BY <1>1, <2>2, <2>3 DEF IsInjective, ToSet
<1> QED BY <1>1, <1>5, <1>6, <1>7 DEF rest, x

LEMMA LowerRound ==
  ASSUME NEW ids, NEW st \in Sorting(ids), NEW list \in Seq(ids),
         \A n \in ids : st.inDegree[n] >= Times(list, n),
         NEW i \in 1 .. Len(list), NEW st1, Lowered(ids, st, list, i - 1, st1)
  PROVE  Lowered(ids, st, list, i, Lower(st1, list[i]))
<1> DEFINE t == list[i]
           degree == st1.inDegree[t] - 1
           st2 == Lower(st1, t)
           D == st.inDegree
<1>0. /\ Len(list) \in Nat /\ i \in Nat /\ i > 0 /\ i - 1 \in 0 .. Len(list)
      /\ i \in 0 .. Len(list) /\ t \in ids
  BY LenProperties
<1>1. /\ st1 \in Sorting(ids) /\ st1.result = st.result
      /\ \A n \in ids : st1.inDegree[n] = D[n] - Met(list, i - 1, n)
  BY DEF Lowered
<1>2. PICK added \in Seq(ids) :
        /\ st1.queue = st.queue \o added
        /\ IsInjective(added) /\ ToSet(added) = Cleared(ids, D, list, i - 1)
  BY DEF Lowered
<1>3. /\ st1.queue \in Seq(ids) /\ st1.inDegree \in [ids -> Int] /\ st1.result \in Seq(ids)
      /\ st.queue \in Seq(ids) /\ D \in [ids -> Int]
  BY <1>1 DEF Sorting
<1>4. /\ \A n \in ids : Met(list, i, n) \in Nat /\ Met(list, i - 1, n) \in Nat
      /\ \A n \in ids : Met(list, i, n) <= D[n]
      /\ \A n \in ids : n # t => Met(list, i, n) = Met(list, i - 1, n)
      /\ Met(list, i, t) = Met(list, i - 1, t) + 1
  <2>1. \A n \in ids : /\ Met(list, i, n) \in Nat /\ Met(list, i - 1, n) \in Nat
                       /\ Met(list, i, n) <= Times(list, n)
                       /\ Met(list, i, n) = IF list[i] = n THEN Met(list, i - 1, n) + 1
                                                          ELSE Met(list, i - 1, n)
    BY <1>0, TimesSoFar
  <2>2. \A n \in ids : Met(list, i, n) <= D[n]
    <3> SUFFICES ASSUME NEW n \in ids PROVE Met(list, i, n) <= D[n] OBVIOUS
    <3> DEFINE x == Met(list, i, n)
               y == Times(list, n)
               z == D[n]
    <3>1. Met(list, Len(list), n) \in Nat /\ Met(list, Len(list), n) = Times(list, n)
      <4>1. Len(list) \in 0 .. Len(list) BY <1>0
      <4> QED BY <4>1, TimesSoFar
    <3>2. x \in Nat /\ y \in Nat /\ z \in Int /\ x <= y /\ z >= y BY <1>3, <2>1, <3>1
    <3> HIDE DEF x, y, z
    <3>3. x <= z BY <3>2
    <3> QED BY <3>3 DEF x, z
  <2> QED BY <1>0, <2>1, <2>2
<1>5. st2 = [queue |-> IF degree = 0 THEN Append(st1.queue, t) ELSE st1.queue,
             inDegree |-> [st1.inDegree EXCEPT ![t] = degree],
             result |-> st1.result]
  BY DEF Lower
<1>6. degree \in Int /\ degree = D[t] - Met(list, i, t)
  <2> DEFINE x == Met(list, i, t)
             y == Met(list, i - 1, t)
             z == D[t]
             w == st1.inDegree[t]
  <2>1. x \in Nat /\ y \in Nat /\ x = y + 1 /\ z \in Int /\ w = z - y
    BY <1>0, <1>1, <1>3, <1>4
  <2>2. degree = w - 1 OBVIOUS
  <2> HIDE DEF x, y, z, w, degree
  <2>3. degree \in Int /\ degree = z - x BY <2>1, <2>2
  <2> QED BY <2>3 DEF x, z
<1> HIDE DEF degree
<1>7. st2 \in Sorting(ids)
  <2>1. [st1.inDegree EXCEPT ![t] = degree] \in [ids -> Int] BY <1>3, <1>6
  <2>2. Append(st1.queue, t) \in Seq(ids) BY <1>0, <1>3
  <2> QED BY <1>3, <1>5, <2>1, <2>2 DEF Sorting
<1>8. \A n \in ids : st2.inDegree[n] = D[n] - Met(list, i, n)
  <2> SUFFICES ASSUME NEW n \in ids PROVE st2.inDegree[n] = D[n] - Met(list, i, n) OBVIOUS
  <2>1. st2.inDegree = [st1.inDegree EXCEPT ![t] = degree] BY <1>5
  <2>2. CASE n = t BY <1>0, <1>3, <1>6, <2>1, <2>2
  <2>3. CASE n # t BY <1>1, <1>3, <1>4, <2>1, <2>3
  <2> QED BY <2>2, <2>3
<1> DEFINE found == Cleared(ids, D, list, i)
           old == Cleared(ids, D, list, i - 1)
<1>9. /\ \A n \in ids : n # t => (n \in found <=> n \in old)
      /\ t \notin old /\ (t \in found <=> degree = 0)
  <2>1. \A n \in ids : n # t => (n \in found <=> n \in old) BY <1>4 DEF Cleared
  <2> DEFINE x == Met(list, i, t)
             y == Met(list, i - 1, t)
             z == D[t]
  <2>2. x \in Nat /\ y \in Nat /\ x = y + 1 /\ x <= z /\ z \in Int BY <1>0, <1>3, <1>4
  <2>3. /\ t \in old <=> (y > 0 /\ z = y)
        /\ t \in found <=> (x > 0 /\ z = x)
        /\ degree = z - x
    BY <1>0, <1>6 DEF Cleared
  <2> HIDE DEF x, y, z, old, found
  <2>4. t \notin old /\ (t \in found <=> degree = 0) BY <2>2, <2>3
  <2> QED BY <2>1, <2>4
<1>10. found \subseteq ids /\ old \subseteq ids BY DEF Cleared
<1>11. \E more \in Seq(ids) : st2.queue = st.queue \o more /\ IsInjective(more) /\ ToSet(more) = found
  <2> HIDE DEF found, old, t, st2
  <2>1. CASE degree = 0
    <3> DEFINE more == Append(added, t)
    <3>1. ToSet(added) = old /\ t \notin ToSet(added) BY <1>2, <1>9 DEF old
    <3>2. /\ more \in Seq(ids) /\ Append(st.queue \o added, t) = st.queue \o more
          /\ IsInjective(more) /\ ToSet(more) = ToSet(added) \cup {t}
      <4> DEFINE q == st.queue
                 longer == Append(q \o added, t)
      <4>1. q \in Seq(ids) /\ t \in ids BY <1>0, <1>3
      <4> HIDE DEF q
      <4>2. OneLonger(ids, added, t, more) BY <4>1 DEF OneLonger
      <4>3. Longer(ids, q, added, t, more, longer) BY <4>1 DEF Longer
      <4> HIDE DEF longer, more
      <4>4. longer = q \o more BY <4>3, AppendBehind
      <4>5. more \in Seq(ids) /\ IsInjective(more) /\ ToSet(more) = ToSet(added) \cup {t}
        BY <1>2, <3>1, <4>2, OneMore
      <4> QED BY <4>4, <4>5 DEF q, longer
    <3> HIDE DEF more
    <3>3. st2.queue = st.queue \o more BY <1>2, <1>5, <2>1, <3>2
    <3>4. ToSet(more) = found
      <4>1. \A n \in ids : n \in found <=> (n \in old \/ n = t) BY <1>9, <2>1
      <4> QED BY <1>0, <1>10, <3>1, <3>2, <4>1
    <3> QED BY <3>2, <3>3, <3>4
  <2>2. CASE degree # 0
    <3>1. st2.queue = st.queue \o added BY <1>2, <1>5, <2>2
    <3>2. ToSet(added) = old BY <1>2 DEF old
    <3>3. old = found
      <4>1. \A n \in ids : n \in found <=> n \in old BY <1>9, <2>2
      <4> QED BY <1>10, <4>1
    <3> QED BY <1>2, <3>1, <3>2, <3>3
  <2> QED BY <2>1, <2>2
<1>12. st2.result = st.result BY <1>1, <1>5
<1> HIDE DEF found, st2, D
<1> QED BY <1>7, <1>8, <1>11, <1>12 DEF Lowered, found, st2, D, t

LEMMA LowerAllLowers ==
  ASSUME NEW ids, NEW st \in Sorting(ids), NEW list \in Seq(ids),
         \A n \in ids : st.inDegree[n] >= Times(list, n)
  PROVE  Lowered(ids, st, list, Len(list), LowerAll(st, list))
<1>1. Len(list) \in Nat BY LenProperties
<1>2. PICK upTo :
        /\ LowerAll(st, list) = upTo[Len(list)]
        /\ upTo[0] = st
        /\ \A i \in 0 .. Len(list) : i > 0 => upTo[i] = Lower(upTo[i - 1], list[i])
  BY <1>1, LowerAllIsRecursive
<1> DEFINE good == {i \in Nat : i <= Len(list) => Lowered(ids, st, list, i, upTo[i])}
<1>3. 0 \in good
  <2>1. \A n \in ids : Met(list, 0, n) = 0 BY TimesSoFar
  <2>2. \A n \in ids : st.inDegree[n] - Met(list, 0, n) = st.inDegree[n]
    BY <2>1 DEF Sorting
  <2> DEFINE added == << >>
  <2>3. added \in Seq(ids) /\ IsInjective(added) /\ ToSet(added) = {} BY NoItems DEF IsInjective
  <2>4. Cleared(ids, st.inDegree, list, 0) = {} BY <2>1 DEF Cleared
  <2>5. st.queue \o added = st.queue BY ConcatEmptySeq DEF Sorting
  <2> HIDE DEF added
  <2>6. Lowered(ids, st, list, 0, st) BY <2>2, <2>3, <2>4, <2>5 DEF Lowered
  <2> QED BY <1>2, <2>6
<1>4. ASSUME NEW i \in Nat, i \in good PROVE i + 1 \in good
  <2> SUFFICES ASSUME i + 1 <= Len(list) PROVE Lowered(ids, st, list, i + 1, upTo[i + 1])
    OBVIOUS
  <2> DEFINE k == i + 1
  <2>1. k \in 1 .. Len(list) /\ k \in 0 .. Len(list) /\ k > 0 /\ k - 1 = i /\ i <= Len(list)
    BY <1>1
  <2> HIDE DEF k
  <2>2. Lowered(ids, st, list, k - 1, upTo[k - 1]) BY <1>4, <2>1
  <2>3. upTo[k] = Lower(upTo[k - 1], list[k]) BY <1>2, <2>1
  <2>4. Lowered(ids, st, list, k, upTo[k]) BY <2>1, <2>2, <2>3, LowerRound
  <2> QED BY <2>4 DEF k
<1> HIDE DEF good
<1>5. Nat \subseteq good BY <1>3, <1>4, NatBySteps
<1> QED BY <1>1, <1>2, <1>5 DEF good

\* The dependencies on n of services that are not in done.
Missing(done, n) == {e \in DOMAIN edge : edge[e].target = n /\ edge[e].source \notin done}

LEMMA DegreesAreCounts ==
  ASSUME IInv, NEW n \in DOMAIN nodes
  PROVE  /\ InDegree(n) = Cardinality(Missing({}, n))
         /\ \A done : IsFiniteSet(Missing(done, n)) /\ Cardinality(Missing(done, n)) \in Nat
<1> DEFINE all == GetAllEdges
           target == [e \in DOMAIN edge |-> edge[e].target]
<1>1. all \in Seq(EdgeId) /\ ToSet(all) = DOMAIN edge /\ IsInjective(all) BY AllEdges
<1>2. InDegree(n) = Times([i \in DOMAIN all |-> edge[all[i]].target], n) BY DEF InDegree
<1> HIDE DEF all
<1>3. [i \in DOMAIN all |-> edge[all[i]].target] = [i \in DOMAIN all |-> target[all[i]]]
  <2>1. \A i \in DOMAIN all : all[i] \in DOMAIN edge BY <1>1 DEF ToSet
  <2> QED BY <2>1
<1>4. {e \in ToSet(all) : target[e] = n} = Missing({}, n) BY <1>1 DEF Missing
<1> HIDE DEF target
<1>5. Times([i \in DOMAIN all |-> target[all[i]]], n) = Cardinality({e \in ToSet(all) : target[e] = n})
  BY <1>1, TimesCount
<1>6. IsFiniteSet(ToSet(all)) BY <1>1, InjectiveLength
<1>7. ASSUME NEW done
      PROVE  IsFiniteSet(Missing(done, n)) /\ Cardinality(Missing(done, n)) \in Nat
  <2>1. Missing(done, n) \subseteq ToSet(all) BY <1>1 DEF Missing
  <2> QED BY <1>6, <2>1, FS_Subset, FS_CardinalityType
<1> QED BY <1>2, <1>3, <1>4, <1>5, <1>7

LEMMA DirectAreCounts ==
  ASSUME IInv, NEW s \in DOMAIN nodes, NEW n \in DOMAIN nodes
  PROVE  /\ GetDirectDependencies(s, AnyFilter) \in Seq(DOMAIN nodes)
         /\ Times(GetDirectDependencies(s, AnyFilter), n)
              = Cardinality({e \in DOMAIN edge : edge[e].source = s /\ edge[e].target = n})
<1> DEFINE target == [e \in DOMAIN edge |-> edge[e].target]
           from == {e \in DOMAIN edge : edge[e].source = s}
           l == Edges(from)
<1>1. GetDirectDependencies(s, AnyFilter) \in Seq(DOMAIN nodes)
  <2>1. Neighbours(Following(AnyFilter), DOMAIN nodes, Links(AnyFilter)) BY ListsAreNeighbours
  <2>2. Following(AnyFilter)[s] \in Seq(DOMAIN nodes) BY <2>1 DEF Neighbours
  <2> QED BY <2>2 DEF Following
<1>2. DOMAIN edge \subseteq EdgeId /\ adjacencyList[s] = from
  BY Typing DEF IInv, TypeOK, ListsMirror
<1>3. Passing(adjacencyList[s], AnyFilter) = l
  <2>1. {e \in adjacencyList[s] : AnyFilter \in {AnyFilter, edge[e].type}} = from BY <1>2
  <2> QED BY <2>1 DEF Passing
<1>4. from \in SUBSET EdgeId /\ from \subseteq DOMAIN edge BY <1>2
<1>5. {e \in from : target[e] = n} = {e \in DOMAIN edge : edge[e].source = s /\ edge[e].target = n}
  OBVIOUS
<1>6. GetDirectDependencies(s, AnyFilter) = [i \in DOMAIN l |-> edge[l[i]].target]
  BY <1>3 DEF GetDirectDependencies
<1> HIDE DEF from
<1>7. l \in Seq(EdgeId) /\ ToSet(l) = from /\ IsInjective(l) BY <1>4, EdgesElements
<1> HIDE DEF l
<1>8. [i \in DOMAIN l |-> edge[l[i]].target] = [i \in DOMAIN l |-> target[l[i]]]
  <2>1. \A i \in DOMAIN l : l[i] \in DOMAIN edge BY <1>4, <1>7 DEF ToSet
  <2> QED BY <2>1
<1> HIDE DEF target
<1>9. Times([i \in DOMAIN l |-> target[l[i]]], n) = Cardinality({e \in from : target[e] = n})
  BY <1>7, TimesCount
<1> QED BY <1>1, <1>5, <1>6, <1>8, <1>9

\* When s is done as well, its dependencies on n are no longer missing.
LEMMA MissingLess ==
  ASSUME IInv, NEW s \in DOMAIN nodes, NEW n \in DOMAIN nodes, NEW done, s \notin done
  PROVE  Cardinality(Missing(done, n))
           = Cardinality(Missing(done \cup {s}, n)) + Times(GetDirectDependencies(s, AnyFilter), n)
<1> DEFINE from == {e \in DOMAIN edge : edge[e].source = s /\ edge[e].target = n}
           left == Missing(done \cup {s}, n)
           all == Missing(done, n)
<1>1. Times(GetDirectDependencies(s, AnyFilter), n) = Cardinality(from) BY DirectAreCounts
<1>2. IsFiniteSet(left) /\ IsFiniteSet(all) /\ Cardinality(left) \in Nat BY DegreesAreCounts
<1>3. all = left \cup from /\ left \cap from = {} /\ from \subseteq all BY DEF Missing
<1> HIDE DEF left, from, all
<1>4. IsFiniteSet(from) /\ Cardinality(from) \in Nat BY <1>2, <1>3, FS_Subset, FS_CardinalityType
<1>5. Cardinality(left \cup from) = Cardinality(left) + Cardinality(from) - Cardinality(left \cap from)
  BY <1>2, <1>4, FS_Union
<1>6. Cardinality(left \cap from) = 0 BY <1>3, FS_EmptySet
<1> DEFINE x == Cardinality(left)
           y == Cardinality(from)
           z == Cardinality(left \cap from)
<1>7. x \in Nat /\ y \in Nat /\ z = 0 /\ Cardinality(all) = x + y - z
  BY <1>2, <1>3, <1>4, <1>5, <1>6
<1> HIDE DEF x, y, z
<1>8. Cardinality(all) = x + y BY <1>7
<1> QED BY <1>1, <1>8 DEF x, y, left, all

\* Every service in order comes after all that depend on it.
BehindSources(order) ==
  \A j \in DOMAIN order : \A e \in DOMAIN edge :
    edge[e].target = order[j] => \E i \in 1 .. j - 1 : order[i] = edge[e].source

\* What holds between two rounds: the services in the result and in the queue are
\* those without a missing dependency, each once.
Counted(st) ==
  /\ st \in Sorting(DOMAIN nodes)
  /\ IsInjective(st.result) /\ IsInjective(st.queue)
  /\ ToSet(st.result) \cap ToSet(st.queue) = {}
  /\ \A n \in DOMAIN nodes : st.inDegree[n] = Cardinality(Missing(ToSet(st.result), n))
  /\ \A n \in DOMAIN nodes :
       n \in ToSet(st.result) \cup ToSet(st.queue) <=> st.inDegree[n] = 0
  /\ BehindSources(st.result)

LEMMA SortRoundCounts ==
  ASSUME IInv, NEW st, Counted(st), st.queue # << >>
  PROVE  Counted(SortRound(st)) /\ Len(SortRound(st).result) = Len(st.result) + 1
<1> DEFINE ids == DOMAIN nodes
           queue == st.queue
           D == st.inDegree
           result == st.result
           x == Head(queue)
           rest == Tail(queue)
           result2 == Append(result, x)
           list == GetDirectDependencies(x, AnyFilter)
           mid == [queue |-> rest, inDegree |-> D, result |-> result2]
           st2 == LowerAll(mid, list)
           done == ToSet(result)
           done2 == ToSet(result2)
<1>0. SortRound(st) = st2 BY DEF SortRound
<1>1. /\ queue \in Seq(ids) /\ D \in [ids -> Int] /\ result \in Seq(ids)
      /\ IsInjective(result) /\ IsInjective(queue)
      /\ done \cap ToSet(queue) = {}
      /\ \A n \in ids : D[n] = Cardinality(Missing(done, n))
      /\ \A n \in ids : n \in done \cup ToSet(queue) <=> D[n] = 0
      /\ BehindSources(result)
  BY DEF Counted, Sorting
<1> HIDE DEF queue, D, result
<1>2. queue # << >> BY DEF queue
<1>3. /\ x \in ids /\ rest \in Seq(ids)
      /\ ToSet(queue) = {x} \cup ToSet(rest)
      /\ IsInjective(rest) /\ x \notin ToSet(rest)
  BY <1>1, <1>2, OneLess
<1>4. x \notin done BY <1>1, <1>3
<1> HIDE DEF x, rest
<1>5. /\ result2 \in Seq(ids) /\ done2 = done \cup {x}
      /\ Len(result) \in Nat /\ Len(result2) = Len(result) + 1
      /\ DOMAIN result2 = 1 .. Len(result) + 1 /\ DOMAIN result = 1 .. Len(result)
      /\ result2[Len(result) + 1] = x /\ \A j \in 1 .. Len(result) : result2[j] = result[j]
      /\ IsInjective(result2)
  <2>1. OneLonger(ids, result, x, result2) BY <1>1, <1>3 DEF OneLonger
  <2> HIDE DEF result2
  <2> QED BY <1>1, <1>4, <2>1, OneMore
<1>6. mid.queue = rest /\ mid.inDegree = D /\ mid.result = result2 OBVIOUS
<1>7. mid \in Sorting(ids)
  <2> HIDE DEF result2
  <2> QED BY <1>1, <1>3, <1>5 DEF Sorting
<1>8. list \in Seq(ids) BY <1>3, DirectAreCounts
<1> DEFINE left == [n \in ids |-> Cardinality(Missing(done2, n))]
           less == [n \in ids |-> Times(list, n)]
<1>9. \A n \in ids : /\ left[n] \in Nat /\ less[n] \in Nat
                     /\ D[n] = left[n] + less[n] /\ Times(list, n) = less[n]
  <2> SUFFICES ASSUME NEW n \in ids
               PROVE  left[n] \in Nat /\ less[n] \in Nat /\ D[n] = left[n] + less[n]
    OBVIOUS
  <2>1. Cardinality(Missing(done, n))
          = Cardinality(Missing(done \cup {x}, n)) + Times(list, n)
    BY <1>3, <1>4, MissingLess
  <2>2. left[n] \in Nat BY DegreesAreCounts
  <2>3. less[n] \in Nat
    <3>1. Len(list) \in Nat BY <1>8, LenProperties
    <3>2. Len(list) \in 0 .. Len(list) BY <3>1
    <3>3. Met(list, Len(list), n) \in Nat /\ Met(list, Len(list), n) = Times(list, n)
      BY <1>8, <3>2, TimesSoFar
    <3> QED BY <3>3
  <2> HIDE DEF list, done, done2
  <2> QED BY <1>1, <1>5, <2>1, <2>2, <2>3
<1>10. Lowered(ids, mid, list, Len(list), st2)
  <2>1. \A n \in ids : mid.inDegree[n] >= Times(list, n)
    <3> HIDE DEF left, less, mid, list
    <3> QED BY <1>6, <1>9
  <2> HIDE DEF mid, list
  <2> QED BY <1>7, <1>8, <2>1, LowerAllLowers
<1>11. \A n \in ids : Met(list, Len(list), n) = less[n]
  <2>1. \A n : Met(list, Len(list), n) = Times(list, n) BY <1>8, TimesSoFar
  <2> QED BY <2>1
<1> HIDE DEF mid, left, less, list, result2, done, done2
<1>12. /\ st2 \in Sorting(ids) /\ st2.result = result2
       /\ \A n \in ids : st2.inDegree[n] = D[n] - less[n]
  BY <1>6, <1>10, <1>11 DEF Lowered
<1>13. PICK added \in Seq(ids) :
         /\ st2.queue = rest \o added
         /\ IsInjective(added) /\ ToSet(added) = Cleared(ids, D, list, Len(list))
  BY <1>6, <1>10 DEF Lowered
<1> HIDE DEF st2
<1>14. \A n \in ids : n \in ToSet(added) <=> (less[n] > 0 /\ left[n] = 0)
  <2>1. \A n \in ids : n \in ToSet(added) <=> (less[n] > 0 /\ D[n] = less[n])
    BY <1>11, <1>13 DEF Cleared
  <2> QED BY <1>9, <2>1
<1>15. ToSet(added) \subseteq ids BY <1>13 DEF Cleared
<1>16. \A n \in ids : n \in done \cup ToSet(queue) <=> (less[n] = 0 /\ left[n] = 0)
  BY <1>1, <1>9
<1>17. ToSet(rest) \subseteq ids /\ done \subseteq ids BY <1>1, <1>3 DEF done, ToSet
<1>18. /\ ToSet(st2.queue) = ToSet(rest) \cup ToSet(added)
       /\ IsInjective(st2.queue)
  <2>1. ToSet(rest) \cap ToSet(added) = {} BY <1>3, <1>9, <1>14, <1>16, <1>17
  <2> QED BY <1>3, <1>13, <2>1, ConcatElements
<1>19. done2 \cap ToSet(st2.queue) = {}
  <2>1. done2 \cap ToSet(rest) = {} BY <1>1, <1>3, <1>5
  <2>2. done2 \subseteq done \cup ToSet(queue) BY <1>3, <1>5
  <2>3. done2 \cap ToSet(added) = {} BY <1>9, <1>14, <1>15, <1>16, <2>2
  <2> QED BY <1>18, <2>1, <2>3
<1>20. \A n \in ids : st2.inDegree[n] = left[n] BY <1>9, <1>12
<1>21. \A n \in ids : n \in done2 \cup ToSet(st2.queue) <=> left[n] = 0
  <2> SUFFICES ASSUME NEW n \in ids
               PROVE  n \in done2 \cup ToSet(st2.queue) <=> left[n] = 0
    OBVIOUS
  <2>1. n \in done2 \cup ToSet(st2.queue) <=> (n \in done \cup ToSet(queue) \/ n \in ToSet(added))
    BY <1>3, <1>5, <1>18
  <2> QED BY <1>9, <1>14, <1>16, <2>1
<1>22. BehindSources(result2)
  <2> SUFFICES ASSUME NEW j \in DOMAIN result2, NEW e \in DOMAIN edge, edge[e].target = result2[j]
               PROVE  \E i \in 1 .. j - 1 : result2[i] = edge[e].source
    BY DEF BehindSources
  <2>1. CASE j \in 1 .. Len(result)
    <3>1. PICK i \in 1 .. j - 1 : result[i] = edge[e].source
      <4>1. j \in DOMAIN result /\ result[j] = result2[j] BY <1>1, <1>5, <2>1
      <4>2. BehindSources(result) BY <1>1
      <4> QED BY <4>1, <4>2, Zenon DEF BehindSources
    <3>2. i \in 1 .. Len(result) BY <1>5, <2>1
    <3> QED BY <1>5, <3>1, <3>2
  <2>2. CASE j = Len(result) + 1
    <3>1. edge[e].target = x BY <1>5, <2>2
    <3>2. left[x] = 0 /\ less[x] = 0 BY <1>3, <1>16
    <3>3. D[x] = 0 BY <1>3, <1>9, <3>2
    <3>4. Missing(done, x) = {}
      <4>1. IsFiniteSet(Missing(done, x)) BY <1>3, DegreesAreCounts
      <4>2. Cardinality(Missing(done, x)) = 0 BY <1>1, <1>3, <3>3
      <4> QED BY <4>1, <4>2, FS_EmptySet
    <3>5. edge[e].source \in done BY <3>1, <3>4 DEF Missing
    <3>6. PICK i \in 1 .. Len(result) : result[i] = edge[e].source
      BY <1>5, <3>5 DEF done, ToSet
    <3>7. i \in 1 .. j - 1 BY <1>5, <2>2
    <3> QED BY <1>5, <3>6, <3>7
  <2>3. j \in 1 .. Len(result) \/ j = Len(result) + 1 BY <1>5
  <2> QED BY <2>1, <2>2, <2>3
<1>23. Counted(st2)
  BY <1>5, <1>12, <1>18, <1>19, <1>20, <1>21, <1>22 DEF Counted, left, done2
<1>24. Len(st2.result) = Len(st.result) + 1 BY <1>5, <1>12 DEF result
<1> QED BY <1>0, <1>23, <1>24

\* The services that only depend, directly or not, on services in order before
\* them, and all of these.
Ordered(order) ==
  /\ order \in Seq(DOMAIN nodes) /\ IsInjective(order) /\ BehindSources(order)
  /\ \A n \in DOMAIN nodes : n \in ToSet(order) <=> Missing(ToSet(order), n) = {}

LEMMA SortStarts ==
  ASSUME IInv
  PROVE  Counted([queue |-> Keep(Keys, {n \in DOMAIN nodes : InDegree(n) = 0}),
                  inDegree |-> [n \in DOMAIN nodes |-> InDegree(n)],
                  result |-> << >>])
<1> DEFINE ids == DOMAIN nodes
           free == {n \in ids : InDegree(n) = 0}
           queue == Keep(Keys, free)
           D == [n \in ids |-> InDegree(n)]
           none == << >>
           st == [queue |-> queue, inDegree |-> D, result |-> none]
<1>1. Keys \in Seq(ids) /\ IsInjective(Keys) /\ ToSet(Keys) = ids BY KeysAreNodes
<1>2. queue \in Seq(ids) /\ ToSet(queue) = ToSet(Keys) \cap free /\ IsInjective(queue)
  BY <1>1, KeepElements
<1>3. ToSet(queue) = free BY <1>1, <1>2
<1>4. \A n \in ids : D[n] = Cardinality(Missing({}, n)) /\ D[n] \in Int
  <2>1. \A n \in ids : Cardinality(Missing({}, n)) \in Nat BY DegreesAreCounts
  <2>2. \A n \in ids : InDegree(n) = Cardinality(Missing({}, n)) BY DegreesAreCounts
  <2> QED BY <2>1, <2>2
<1>5. \A n \in ids : n \in free <=> D[n] = 0 OBVIOUS
<1>6. D \in [ids -> Int] BY <1>4
<1>7. none \in Seq(ids) /\ ToSet(none) = {} /\ DOMAIN none = {} BY NoItems
<1>8. IsInjective(none) /\ BehindSources(none) BY <1>7 DEF IsInjective, BehindSources
<1>9. st.queue = queue /\ st.inDegree = D /\ st.result = none OBVIOUS
<1> HIDE DEF free, queue, D, none
<1>10. st \in Sorting(ids) BY <1>2, <1>6, <1>7 DEF Sorting
<1> HIDE DEF st
<1>11. Counted(st) BY <1>2, <1>3, <1>4, <1>5, <1>7, <1>8, <1>9, <1>10 DEF Counted
<1> QED BY <1>11 DEF st, queue, free, D, none

LEMMA SortEnds ==
  ASSUME IInv, NEW st, Counted(st), st.queue = << >>
  PROVE  Ordered(st.result)
<1> DEFINE ids == DOMAIN nodes
           done == ToSet(st.result)
<1>1. ToSet(st.queue) = {} BY NoItems
<1>2. \A n \in ids : n \in done <=> Cardinality(Missing(done, n)) = 0 BY <1>1 DEF Counted
<1>3. \A n \in ids : Cardinality(Missing(done, n)) = 0 <=> Missing(done, n) = {}
  <2>1. \A n \in ids : IsFiniteSet(Missing(done, n)) BY DegreesAreCounts
  <2> QED BY <2>1, FS_EmptySet
<1>4. st.result \in Seq(ids) BY DEF Counted, Sorting
<1> QED BY <1>2, <1>3, <1>4 DEF Counted, Ordered

\* A result without repetitions is not longer than the services are many.
LEMMA ResultFits ==
  ASSUME IInv, NEW st, Counted(st)
  PROVE  /\ Len(st.result) \in Nat /\ Cardinality(DOMAIN nodes) \in Nat
         /\ Len(st.result) <= Cardinality(DOMAIN nodes)
         /\ st.queue # << >> => Len(st.result) < Cardinality(DOMAIN nodes)
<1> DEFINE ids == DOMAIN nodes
           done == ToSet(st.result)
<1>1. IsFiniteSet(ids) BY KeysAreNodes
<1>2. st.result \in Seq(ids) /\ st.queue \in Seq(ids) /\ IsInjective(st.result)
  BY DEF Counted, Sorting
<1>3. Len(st.result) \in Nat /\ \A i \in 1 .. Len(st.result) : st.result[i] \in ids
  BY <1>2, LenProperties
<1>4. DOMAIN st.result = 1 .. Len(st.result) BY <1>2, LenProperties
<1>5. done \subseteq ids BY <1>3, <1>4 DEF ToSet
<1>6. Len(st.result) = Cardinality(done) BY <1>2, InjectiveLength
<1> HIDE DEF ids, done
<1>7. /\ IsFiniteSet(done) /\ Cardinality(done) <= Cardinality(ids)
      /\ Cardinality(ids) = Cardinality(done) => ids = done
  BY <1>1, <1>5, FS_Subset
<1>8. Cardinality(ids) \in Nat BY <1>1, FS_CardinalityType
<1>9. st.queue # << >> => ids # done
  <2> SUFFICES ASSUME st.queue # << >> PROVE ids # done OBVIOUS
  <2>1. Head(st.queue) \in ids /\ Head(st.queue) \in ToSet(st.queue) BY <1>2, OneLess
  <2>2. done \cap ToSet(st.queue) = {} BY DEF Counted, done
  <2> QED BY <2>1, <2>2
<1> DEFINE n == Cardinality(ids)
           m == Cardinality(done)
<1>10. n \in Nat /\ m \in Nat /\ m <= n /\ (st.queue # << >> => m # n)
  BY <1>3, <1>6, <1>7, <1>8, <1>9
<1> HIDE DEF n, m
<1>11. m <= n /\ (st.queue # << >> => m < n) BY <1>10
<1> QED BY <1>3, <1>6, <1>8, <1>11 DEF n, m, ids

\* A round keeps the variables of their types.
LEMMA SortRoundType ==
  ASSUME IInv, NEW st \in Sorting(DOMAIN nodes), st.queue # << >>
  PROVE  SortRound(st) \in Sorting(DOMAIN nodes)
<1> DEFINE ids == DOMAIN nodes
           x == Head(st.queue)
           list == GetDirectDependencies(x, AnyFilter)
           longer == Append(st.result, x)
           mid == [queue |-> Tail(st.queue), inDegree |-> st.inDegree, result |-> longer]
<1>1. st.queue \in Seq(ids) /\ st.result \in Seq(ids) /\ st.inDegree \in [ids -> Int]
  BY DEF Sorting
<1>2. x \in ids /\ Tail(st.queue) \in Seq(ids) BY <1>1, OneLess
<1>3. longer \in Seq(ids)
  <2>1. OneLonger(ids, st.result, x, longer) BY <1>1, <1>2 DEF OneLonger
  <2> HIDE DEF longer
  <2> QED BY <2>1, OneMore
<1>4. mid \in Sorting(ids)
  <2> HIDE DEF longer
  <2> QED BY <1>1, <1>2, <1>3 DEF Sorting
<1>5. list \in Seq(ids) BY <1>2, DirectAreCounts
<1>6. SortRound(st) = LowerAll(mid, list) BY DEF SortRound
<1> HIDE DEF ids, list, mid
<1>7. Len(list) \in Nat /\ \A i \in 1 .. Len(list) : list[i] \in ids BY <1>5, LenProperties
<1>8. PICK upTo :
        /\ LowerAll(mid, list) = upTo[Len(list)]
        /\ upTo[0] = mid
        /\ \A i \in 0 .. Len(list) : i > 0 => upTo[i] = Lower(upTo[i - 1], list[i])
  BY <1>7, LowerAllIsRecursive
<1> DEFINE good == {i \in Nat : i <= Len(list) => upTo[i] \in Sorting(ids)}
<1>9. 0 \in good BY <1>4, <1>8
<1>10. ASSUME NEW i \in Nat, i \in good PROVE i + 1 \in good
  <2> SUFFICES ASSUME i + 1 <= Len(list) PROVE upTo[i + 1] \in Sorting(ids) OBVIOUS
  <2> DEFINE k == i + 1
             s1 == upTo[i]
             t == list[k]
             degree == s1.inDegree[t] - 1
             more == Append(s1.queue, t)
  <2>1. k \in 1 .. Len(list) /\ k \in 0 .. Len(list) /\ k > 0 /\ k - 1 = i /\ i <= Len(list)
    BY <1>7
  <2> HIDE DEF k
  <2>2. upTo[k] = Lower(s1, t) BY <1>8, <2>1
  <2>3. s1 \in Sorting(ids) /\ t \in ids BY <1>7, <1>10, <2>1
  <2> HIDE DEF s1, t
  <2>4. s1.queue \in Seq(ids) /\ s1.inDegree \in [ids -> Int] /\ s1.result \in Seq(ids)
    BY <2>3 DEF Sorting
  <2>5. more \in Seq(ids)
    <3>1. OneLonger(ids, s1.queue, t, more) BY <2>3, <2>4 DEF OneLonger
    <3> HIDE DEF more
    <3> QED BY <3>1, OneMore
  <2>6. degree \in Int BY <2>3, <2>4
  <2>7. Lower(s1, t) = [queue |-> IF degree = 0 THEN more ELSE s1.queue,
                        inDegree |-> [s1.inDegree EXCEPT ![t] = degree],
                        result |-> s1.result]
    BY DEF Lower
  <2> HIDE DEF degree, more
  <2>8. [s1.inDegree EXCEPT ![t] = degree] \in [ids -> Int] BY <2>4, <2>6
  <2>9. Lower(s1, t) \in Sorting(ids) BY <2>4, <2>5, <2>7, <2>8 DEF Sorting
  <2> QED BY <2>2, <2>9 DEF k
<1> HIDE DEF good
<1>11. Nat \subseteq good BY <1>9, <1>10, NatBySteps
<1>12. upTo[Len(list)] \in Sorting(ids) BY <1>7, <1>11 DEF good
<1> QED BY <1>6, <1>8, <1>12 DEF ids

LEMMA KahnIsOrdered ==
  ASSUME IInv
  PROVE  Ordered(KahnOrder)
<1> DEFINE ids == DOMAIN nodes
           S == Sorting(ids)
           size == Cardinality(ids)
           Next0(f, st) == IF st.queue = << >> THEN st.result ELSE f[SortRound(st)]
           loop == CHOOSE f : f = [st \in S |-> Next0(f, st)]
           start == [queue |-> Keep(Keys, {n \in ids : InDegree(n) = 0}),
                     inDegree |-> [n \in ids |-> InDegree(n)], result |-> << >>]
           done == {st \in S : st.queue = << >>}
           out == [st \in S |-> st.result]
           step == [st \in S |-> IF st \in done THEN st ELSE SortRound(st)]
           right == {order \in Seq(ids) : Ordered(order)}
           J == {r \in Nat \X Nat \X S : /\ Counted(r[3])
                                         /\ Len(r[3].result) + r[2] = size}
<1>1. KahnOrder = loop[start] BY DEF KahnOrder
<1>2. Counted(start) /\ start.result = << >> BY SortStarts
<1>3. \A st : Counted(st) => st \in S BY DEF Counted
<1> HIDE DEF start
<1>4. \A st \in S : st \in done <=> st.queue = << >> OBVIOUS
<1>5. \A st \in S : out[st] = st.result OBVIOUS
<1>6. step \in [S -> S] /\ \A st \in S : st \notin done => step[st] = SortRound(st)
  <2>1. \A st \in S : st \notin done => SortRound(st) \in S BY <1>4, SortRoundType
  <2> HIDE DEF S, done
  <2> QED BY <2>1
<1>7. \A h, k \in Nat, st \in S :
        <<h, k, st>> \in J <=> Counted(st) /\ Len(st.result) + k = size
  <2> HIDE DEF S, size
  <2> QED OBVIOUS
<1>8. size \in Nat
  <2>1. Counted(start) => size \in Nat BY ResultFits
  <2> QED BY <1>2, <2>1
<1> HIDE DEF S, size, done, out, step, J
<1>9. \A f : f = [st \in S |-> Next0(f, st)] <=> IsLoop(f, S, step, done, out)
  <2> SUFFICES ASSUME NEW f
               PROVE  f = [st \in S |-> Next0(f, st)] <=> IsLoop(f, S, step, done, out)
    OBVIOUS
  <2>1. \A st \in S : Next0(f, st) = IF st \in done THEN out[st] ELSE f[step[st]]
    BY <1>4, <1>5, <1>6
  <2> HIDE DEF Next0
  <2>2. [st \in S |-> Next0(f, st)] = [st \in S |-> IF st \in done THEN out[st] ELSE f[step[st]]]
    BY <2>1
  <2> QED BY <1>6, <2>2 DEF IsLoop
<1>10. IsLoop(loop, S, step, done, out)
  <2>1. \E f : IsLoop(f, S, step, done, out) BY <1>6, LoopIsFunction
  <2>2. \E f : f = [st \in S |-> Next0(f, st)] BY <1>9, <2>1
  <2> HIDE DEF Next0
  <2>3. loop = [st \in S |-> Next0(loop, st)] BY <2>2
  <2> HIDE DEF loop
  <2> QED BY <1>9, <2>3
<1> HIDE DEF loop, Next0, right
<1>11. ASSUME NEW st \in S, Counted(st), st \in done PROVE out[st] \in right
  <2>1. Ordered(st.result) BY <1>4, <1>11, SortEnds
  <2> QED BY <1>5, <2>1 DEF right, Ordered
<1>12. ASSUME NEW h \in 0 .. 0, NEW k \in Nat, NEW st \in S, <<h, k, st>> \in J, k > 0
       PROVE  \/ st \in done /\ out[st] \in right
              \/ st \notin done /\ <<h, k - 1, step[st]>> \in J
  <2>1. Counted(st) /\ Len(st.result) + k = size /\ k - 1 \in Nat /\ h \in Nat BY <1>7, <1>12
  <2>2. CASE st \in done BY <1>11, <2>1, <2>2
  <2>3. CASE st \notin done
    <3>1. /\ step[st] = SortRound(st) /\ Counted(step[st])
          /\ Len(step[st].result) = Len(st.result) + 1
      BY <1>4, <1>6, <2>1, <2>3, SortRoundCounts
    <3>2. Len(st.result) \in Nat BY <2>1, ResultFits
    <3>3. Len(step[st].result) + (k - 1) = size BY <2>1, <3>1, <3>2
    <3> QED BY <1>3, <1>7, <2>1, <2>3, <3>1, <3>3
  <2> QED BY <2>2, <2>3
<1>13. ASSUME NEW st \in S, <<0, 0, st>> \in J PROVE st \in done /\ out[st] \in right
  <2>1. Counted(st) /\ Len(st.result) + 0 = size BY <1>7, <1>13
  <2>2. Len(st.result) \in Nat /\ (st.queue # << >> => Len(st.result) < size)
    BY <2>1, ResultFits DEF size, ids
  <2>3. st.queue = << >> BY <1>8, <2>1, <2>2
  <2> QED BY <1>4, <1>11, <2>1, <2>3
<1>14. \A h \in 0 .. 0, k \in Nat, st \in S : <<h, k, st>> \in J => loop[st] \in right
  <2>1. \A h \in 0 .. 0 : ~ (h < 0) OBVIOUS
  <2>2. TakesLevels(S, step, done, out, 0, J, right)
    BY <1>12, <1>13, <2>1 DEF TakesLevels
  <2>3. 0 \in Nat OBVIOUS
  <2> QED BY <1>10, <2>2, <2>3, LoopByLevels
<1>15. <<0, size, start>> \in J
  <2>1. Len(start.result) = 0 BY <1>2, EmptySeq
  <2>2. Len(start.result) + size = size BY <1>8, <2>1
  <2>3. start \in S BY <1>2, <1>3
  <2>4. 0 \in Nat OBVIOUS
  <2> QED BY <1>2, <1>7, <1>8, <2>2, <2>3, <2>4
<1>16. loop[start] \in right
  <2>1. 0 \in 0 .. 0 OBVIOUS
  <2> QED BY <1>2, <1>3, <1>8, <1>14, <1>15, <2>1
<1> QED BY <1>1, <1>16 DEF right

\* R[a] has the services in reach of a: what one link leads to is in reach as well,
\* and no set that the links do not leave misses one of them.
Closes(R, ids, links) ==
  /\ \A a \in ids : a \in R[a] /\ R[a] \subseteq ids
  /\ \A a, m \in ids : <<a, m>> \in links => R[m] \subseteq R[a]
  /\ \A a \in ids, X \in SUBSET ids :
       a \in X /\ (\A x \in X, y \in ids : <<x, y>> \in links => y \in X) => R[a] \subseteq X

LEMMA ReachCloses ==
  ASSUME IInv
  PROVE  /\ Among(Links(AnyFilter), DOMAIN nodes)
         /\ Closes([a \in DOMAIN nodes |-> Within(Links(AnyFilter), a)[Far]],
                   DOMAIN nodes, Links(AnyFilter))
<1> DEFINE ids == DOMAIN nodes
           links == Links(AnyFilter)
           last == Far
           U == [a \in ids |-> Within(links, a)]
           R == [a \in ids |-> Within(links, a)[last]]
<1>1. Among(links, ids) BY ListsAreNeighbours
<1>2. last \in Nat BY FarIsNatural
<1>3. IsFiniteSet(ids) /\ Cardinality(ids) <= last
  <2>1. ids \subseteq ServiceId BY Typing DEF IInv, TypeOK
  <2> QED BY <2>1, QueriesAssumption, FS_Subset DEF Far
<1> HIDE DEF ids, links, last
<1>4. FromAll(U, ids, links) BY <1>1, WithinFromAll
<1>5. ASSUME NEW a \in ids PROVE U[a][last + 1] = U[a][last] /\ a \in U[a][last]
  <2> DEFINE W == Within(links, a)
  <2>1. Reach(W, ids, links, a) BY <1>1 DEF Reach, Among
  <2>2. U[a] = W OBVIOUS
  <2> HIDE DEF W, U
  <2>3. W[last + 1] = W[last] BY <1>2, <1>3, <2>1, ReachIsComplete
  <2>4. W[0] = {a} /\ \A d, e \in Nat : d <= e => W[d] \subseteq W[e] BY <2>1, WithinLevels
  <2>5. 0 \in Nat /\ 0 <= last BY <1>2
  <2>6. a \in W[last] BY <1>2, <2>4, <2>5
  <2> QED BY <2>2, <2>3, <2>6
<1>6. \A a \in ids : R[a] = U[a][last] OBVIOUS
<1> HIDE DEF U, R
<1>7. \A a \in ids : a \in R[a] /\ R[a] \subseteq ids
  BY <1>2, <1>4, <1>5, <1>6 DEF FromAll
<1>8. ASSUME NEW a \in ids, NEW m \in ids, <<a, m>> \in links PROVE R[m] \subseteq R[a]
  <2> SUFFICES ASSUME NEW b \in R[m] PROVE b \in R[a] OBVIOUS
  <2>1. b \in ids /\ b \in U[m][last] BY <1>6, <1>7
  <2>2. b \in U[a][last + 1] BY <1>2, <1>4, <1>8, <2>1, FirstLink
  <2> QED BY <1>5, <1>6, <2>2
<1>9. ASSUME NEW a \in ids, NEW X \in SUBSET ids, a \in X,
             \A x \in X, y \in ids : <<x, y>> \in links => y \in X
      PROVE  R[a] \subseteq X
  <2> DEFINE good == {d \in Nat : U[a][d] \subseteq X}
  <2>1. 0 \in good BY <1>4, <1>9 DEF FromAll
  <2>2. ASSUME NEW d \in Nat, d \in good PROVE d + 1 \in good
    <3>1. U[a][d + 1] \subseteq ids /\ d + 1 \in Nat BY <1>4 DEF FromAll
    <3>2. \A b \in U[a][d + 1] :
            b \in U[a][d] \/ \E c \in U[a][d] : <<c, b>> \in links
      BY <1>4, <3>1 DEF FromAll
    <3>3. U[a][d + 1] \subseteq X BY <1>9, <2>2, <3>1, <3>2
    <3> QED BY <3>1, <3>3
  <2> HIDE DEF good
  <2>3. last \in good BY <1>2, <2>1, <2>2, NatBySteps
  <2> QED BY <1>6, <2>3 DEF good
<1>10. Closes(R, ids, links) BY <1>7, <1>8, <1>9 DEF Closes
<1> QED BY <1>1, <1>10 DEF ids, links, last, R

\* Nothing behind a cycle is in an order that has every service behind its sources.
LEMMA OrderLeavesCycles ==
  ASSUME NEW ids, NEW links, NEW R, Closes(R, ids, links),
         NEW order \in Seq(ids), IsInjective(order),
         \A j \in DOMAIN order, x \in ids :
           <<x, order[j]>> \in links => \E i \in 1 .. j - 1 : order[i] = x,
         NEW c \in ids, NEW m \in ids, <<c, m>> \in links, c \in R[m]
  PROVE  \A n \in R[c] : n \notin ToSet(order)
<1>1. Len(order) \in Nat /\ DOMAIN order = 1 .. Len(order) BY LenProperties
<1>2. \A n : n \in ToSet(order) <=> \E j \in 1 .. Len(order) : order[j] = n
  BY <1>1 DEF ToSet
<1>3. c \notin ToSet(order)
  <2> SUFFICES ASSUME NEW j \in 1 .. Len(order), order[j] = c PROVE FALSE BY <1>2
  <2> DEFINE X == {n \in ids : \A i \in 1 .. j : order[i] # n}
  <2>1. ASSUME NEW x \in X, NEW y \in ids, <<x, y>> \in links PROVE y \in X
    <3> SUFFICES ASSUME NEW i \in 1 .. j, order[i] = y PROVE FALSE OBVIOUS
    <3>1. i \in DOMAIN order /\ \A k \in 1 .. i - 1 : k \in 1 .. j BY <1>1
    <3>2. \E k \in 1 .. i - 1 : order[k] = x BY <2>1, <3>1
    <3> QED BY <3>1, <3>2
  <2>2. m \in X
    <3> SUFFICES ASSUME NEW i \in 1 .. j, order[i] = m PROVE FALSE OBVIOUS
    <3>1. i \in DOMAIN order /\ j \in DOMAIN order BY <1>1
    <3>2. PICK k \in 1 .. i - 1 : order[k] = c BY <3>1
    <3>3. k \in DOMAIN order /\ k # j BY <1>1, <3>2
    <3> QED BY <3>1, <3>2, <3>3 DEF IsInjective
  <2>3. R[m] \subseteq X
    <3>1. X \in SUBSET ids OBVIOUS
    <3> HIDE DEF X
    <3> QED BY <2>1, <2>2, <3>1 DEF Closes
  <2>4. j \in 1 .. j OBVIOUS
  <2> QED BY <2>3, <2>4
<1> DEFINE Y == ids \ ToSet(order)
<1>4. ASSUME NEW x \in Y, NEW y \in ids, <<x, y>> \in links PROVE y \in Y
  <2> SUFFICES ASSUME NEW j \in 1 .. Len(order), order[j] = y PROVE FALSE BY <1>2
  <2>1. j \in DOMAIN order /\ \A k \in 1 .. j - 1 : k \in 1 .. Len(order) BY <1>1
  <2>2. \E k \in 1 .. j - 1 : order[k] = x BY <1>4, <2>1
  <2> QED BY <1>2, <2>1, <2>2
<1>5. c \in Y /\ Y \in SUBSET ids BY <1>3
<1> HIDE DEF Y
<1>6. R[c] \subseteq Y BY <1>4, <1>5 DEF Closes
<1> QED BY <1>6 DEF Y

\* When each service that is left out has a source that is left out, it is behind a
\* cycle: of those left out that lead to it, one with the largest reach is on one.
LEMMA LeftOutIsBehind ==
  ASSUME NEW ids, IsFiniteSet(ids), NEW links, NEW R, Closes(R, ids, links),
         NEW out \in SUBSET ids,
         \A x \in out : \E p \in out : <<p, x>> \in links,
         NEW n \in out
  PROVE  \E c, m \in ids : <<c, m>> \in links /\ c \in R[m] /\ n \in R[c]
<1> DEFINE all == Cardinality(ids)
           size == [x \in ids |-> Cardinality(R[x])]
           near == {x \in out : n \in R[x]}
           left == [x \in ids |-> all - size[x]]
           S == {left[x] : x \in near}
<1>1. \A x \in ids : IsFiniteSet(R[x]) /\ Cardinality(R[x]) <= all
  BY FS_Subset DEF Closes
<1>2. all \in Nat /\ \A x \in ids : size[x] \in Nat /\ size[x] <= all
  BY <1>1, FS_CardinalityType
<1>3. n \in near BY DEF Closes
<1> HIDE DEF all, size
<1>4. \A x \in ids : left[x] \in Nat /\ left[x] = all - size[x] BY <1>2
<1> HIDE DEF left
<1>5. S \in SUBSET Nat /\ left[n] \in S BY <1>3, <1>4
<1>6. PICK m \in near : \A x \in near : ~ (left[x] < left[m])
  <2>1. \E l \in S : \A k \in S : ~ (k < l)
    <3> HIDE DEF S
    <3> QED BY <1>5, LeastOfSet
  <2> QED BY <2>1
<1>7. PICK c \in out : <<c, m>> \in links OBVIOUS
<1>8. c \in ids /\ m \in ids /\ R[m] \subseteq R[c] BY <1>7 DEF Closes
<1>9. c \in near BY <1>6, <1>8
<1>10. size[c] <= size[m]
  <2>1. ~ (left[c] < left[m]) BY <1>6, <1>9
  <2> QED BY <1>2, <1>4, <1>8, <2>1
<1>11. /\ Cardinality(R[m]) <= Cardinality(R[c])
       /\ Cardinality(R[m]) = Cardinality(R[c]) => R[m] = R[c]
  BY <1>1, <1>8, FS_Subset
<1>12. size[m] = size[c]
  <2>1. size[m] <= size[c] BY <1>8, <1>11 DEF size
  <2> QED BY <1>2, <1>8, <1>10, <2>1
<1>13. R[m] = R[c] BY <1>8, <1>11, <1>12 DEF size
<1>14. c \in R[m] BY <1>8, <1>13 DEF Closes
<1> QED BY <1>7, <1>8, <1>9, <1>14

LEMMA OrderIsRight ==
  ASSUME IInv
  PROVE  SortRespectsDependencies
<1> DEFINE ids == DOMAIN nodes
           links == Links(AnyFilter)
           order == KahnOrder
           R == [a \in ids |-> Within(links, a)[Far]]
           circular == {s \in ids : s \in Circle(s)}
           behind == UNION {Within(links, s)[Far] : s \in circular}
           source == [e \in DOMAIN edge |-> edge[e].source]
           target == [e \in DOMAIN edge |-> edge[e].target]
<1>1. Among(links, ids) /\ Closes(R, ids, links) BY ReachCloses
<1>2. Ordered(order) BY KahnIsOrdered
<1>3. IsFiniteSet(ids) BY KeysAreNodes
<1>4. links = {<<source[e], target[e]>> : e \in DOMAIN edge} BY DEF Links
<1>5. ASSUME NEW c \in ids
      PROVE  c \in circular <=> \E m \in ids : <<c, m>> \in links /\ c \in R[m]
  <2>1. c \in circular <=> c \in After(links, c) BY DEF Circle
  <2>2. \A l \in links : l \in ids \X ids BY <1>1 DEF Among
  <2> DEFINE W(a) == Within(links, a)[Far]
  <2>3. After(links, c) = UNION {W(l[2]) : l \in {k \in links : k[1] = c}} BY DEF After
  <2>4. \A m \in ids : R[m] = W(m) OBVIOUS
  <2> HIDE DEF W, R, links, circular
  <2>5. c \in After(links, c) <=> \E l \in links : l[1] = c /\ c \in W(l[2]) BY <2>3
  <2>6. ASSUME NEW l \in links, l[1] = c, c \in W(l[2])
        PROVE  \E m \in ids : <<c, m>> \in links /\ c \in R[m]
    <3>1. l = <<c, l[2]>> /\ l[2] \in ids BY <2>2, <2>6
    <3> QED BY <2>4, <2>6, <3>1
  <2>7. ASSUME NEW m \in ids, <<c, m>> \in links, c \in R[m]
        PROVE  \E l \in links : l[1] = c /\ c \in W(l[2])
    <3>1. <<c, m>>[1] = c /\ <<c, m>>[2] = m OBVIOUS
    <3> QED BY <2>4, <2>7, <3>1
  <2> QED BY <2>1, <2>5, <2>6, <2>7
<1>6. \A n : n \in behind <=> \E c \in circular : n \in R[c] OBVIOUS
<1>7. circular \subseteq ids OBVIOUS
<1> HIDE DEF order, R, circular, behind, source, target, links
<1>8. order \in Seq(ids) /\ IsInjective(order) /\ BehindSources(order)
  BY <1>2 DEF Ordered
<1>9. Len(order) \in Nat /\ DOMAIN order = 1 .. Len(order) /\ ToSet(order) \subseteq ids
  <2>1. Len(order) \in Nat /\ DOMAIN order = 1 .. Len(order)
        /\ \A i \in 1 .. Len(order) : order[i] \in ids
    BY <1>8, LenProperties
  <2> QED BY <2>1 DEF ToSet
<1>10. ASSUME NEW j \in DOMAIN order, NEW x \in ids, <<x, order[j]>> \in links
       PROVE  \E i \in 1 .. j - 1 : order[i] = x
  <2>1. PICK e \in DOMAIN edge : source[e] = x /\ target[e] = order[j] BY <1>4, <1>10
  <2>2. edge[e].source = x /\ edge[e].target = order[j] BY <2>1 DEF source, target
  <2> QED BY <1>8, <2>2 DEF BehindSources
<1>11. \A n \in behind : n \notin ToSet(order)
  BY <1>1, <1>5, <1>6, <1>7, <1>8, <1>10, OrderLeavesCycles
<1>12. \A x \in ids \ ToSet(order) : \E p \in ids \ ToSet(order) : <<p, x>> \in links
  <2> SUFFICES ASSUME NEW x \in ids \ ToSet(order)
               PROVE  \E p \in ids \ ToSet(order) : <<p, x>> \in links
    OBVIOUS
  <2>1. Missing(ToSet(order), x) # {} BY <1>2 DEF Ordered
  <2>2. PICK e \in DOMAIN edge : edge[e].target = x /\ edge[e].source \notin ToSet(order)
    BY <2>1 DEF Missing
  <2>3. <<source[e], target[e]>> \in links BY <1>4
  <2>4. source[e] = edge[e].source /\ target[e] = x BY <2>2 DEF source, target
  <2>5. source[e] \in ids BY <1>1, <2>3 DEF Among
  <2> QED BY <2>2, <2>3, <2>4, <2>5
<1>13. \A n \in ids \ ToSet(order) : n \in behind
  <2> SUFFICES ASSUME NEW n \in ids \ ToSet(order) PROVE n \in behind OBVIOUS
  <2>1. \E c, m \in ids : <<c, m>> \in links /\ c \in R[m] /\ n \in R[c]
    <3> DEFINE out == ids \ ToSet(order)
    <3>1. out \in SUBSET ids /\ n \in out OBVIOUS
    <3>2. \A x \in out : \E p \in out : <<p, x>> \in links BY <1>12
    <3> HIDE DEF out, ids
    <3> QED BY <1>1, <1>3, <3>1, <3>2, LeftOutIsBehind
  <2> QED BY <1>5, <1>6, <2>1
<1>14. ToSet(order) = ids \ behind BY <1>9, <1>11, <1>13
<1>15. Len(order) = Cardinality(ToSet(order)) BY <1>8, InjectiveLength
<1>16. Len(order) = Cardinality(ids) <=> circular = {}
  <2>1. Cardinality(ToSet(order)) = Cardinality(ids) <=> ToSet(order) = ids
    BY <1>3, <1>9, FS_Subset
  <2>2. \A c \in circular : c \in behind BY <1>1, <1>6, <1>7 DEF Closes
  <2>3. circular = {} => behind = {} BY <1>6
  <2>4. ToSet(order) = ids <=> circular = {} BY <1>7, <1>14, <2>2, <2>3
  <2> QED BY <1>15, <2>1, <2>4
<1> QED
  BY <1>8, <1>14, <1>15, <1>16
  DEF SortRespectsDependencies, BehindSources, order, circular, behind, links, ids

\* Whatever the dependencies, the order holds the services that no cycle leads to,
\* each once and behind all that depend on it, and it holds all of them exactly when
\* there is no cycle: counting degrees down finds what a search for cycles would.
THEOREM OrderRespectsDependencies == Spec => []SortRespectsDependencies
<1>1. IInv => SortRespectsDependencies BY OrderIsRight
<1> QED BY <1>1, InitInv, NextInv, PTL DEF Spec

------------------------------------------------------------------------------
\* Impact and simulation

LEMMA ImpactIsDistances ==
  ASSUME NEW graph, graph.edges \in Seq(EdgeRecord), NEW s \in ServiceId, NEW d \in Nat
  PROVE  TraverseDependencies(BuildAdjacency(graph.edges), s, d)
           = Distances(BuildGraph(graph), s, d)
<1> DEFINE links == BuildGraph(graph)
           adjacency == BuildAdjacency(graph.edges)
           W == Within(links, s)
<1>1. Among(links, ServiceId) /\ Adjacent(adjacency, ServiceId, links) BY AdjacencyIsGraph
<1>2. Reach(W, ServiceId, links, s) BY <1>1 DEF Reach, Among
<1> HIDE DEF links, adjacency, W
<1>3. TraverseDependencies(adjacency, s, d) = Distances(links, s, d)
  BY <1>1, <1>2, TraverseIsNearest
<1> QED BY <1>3 DEF links, adjacency

\* The impact analysis and the simulation, each with its own loop, agree with the
\* transitive query of the topology service in every graph and for every limit.
THEOREM AnalysisAgrees == Spec => []AnalysisAgreesWithTopology
<1>1. ASSUME IInv, NEW s \in DOMAIN nodes, NEW d \in Nat
      PROVE  GetTransitiveDependencies(s, d, AnyFilter)
               = Distances(BuildGraph(ExportGraph), s, d)
  <2>1. GetTransitiveDependencies(s, d, AnyFilter) = Distances(Links(AnyFilter), s, d)
    BY <1>1, QueriesAreDistances
  <2>2. BuildGraph(ExportGraph) = Links(AnyFilter) BY <1>1, ExportIsGraph
  <2> QED BY <2>1, <2>2
<1>2. ASSUME IInv, NEW s \in ServiceId, NEW maxDepth \in 1 .. Far, NEW change \in ChangeType
      PROVE  Analyze(s, change, maxDepth, ExportGraph).affected
               = IF s \in DOMAIN nodes
                 THEN GetTransitiveDependencies(s, maxDepth, AnyFilter) ELSE EmptyMap
  <2> DEFINE graph == ExportGraph
  <2>1. graph.nodes = nodes /\ graph.edges \in Seq(EdgeRecord) BY <1>2, ExportIsGraph
  <2>2. maxDepth \in Nat BY FarIsNatural
  <2> HIDE DEF graph
  <2>3. CASE s \notin DOMAIN nodes BY <2>1, <2>3 DEF Analyze, graph
  <2>4. CASE s \in DOMAIN nodes
    <3>1. TraverseDependencies(BuildAdjacency(graph.edges), s, maxDepth)
            = Distances(BuildGraph(graph), s, maxDepth)
      BY <2>1, <2>2, ImpactIsDistances
    <3>2. Analyze(s, change, maxDepth, graph).affected
            = TraverseDependencies(BuildAdjacency(graph.edges), s, maxDepth)
      BY <2>1, <2>4 DEF Analyze
    <3>3. GetTransitiveDependencies(s, maxDepth, AnyFilter)
            = Distances(BuildGraph(graph), s, maxDepth)
      BY <1>1, <1>2, <2>2, <2>4 DEF graph
    <3> QED BY <2>4, <3>1, <3>2, <3>3 DEF graph
  <2> QED BY <2>3, <2>4
<1>3. ASSUME IInv, NEW s \in ServiceId, Simulate(s, ExportGraph).status = 200
      PROVE  LET reached == GetTransitiveDependencies(s, Far, AnyFilter)
             IN  /\ Simulate(s, ExportGraph).affected = DOMAIN reached
                 /\ Simulate(s, ExportGraph).timeoutChain
                      = {n \in DOMAIN reached : reached[n] > 2}
  <2> DEFINE graph == ExportGraph
             reached == GetTransitiveDependencies(s, Far, AnyFilter)
             length == Distances(BuildGraph(graph), s, Far)
  <2>1. graph.nodes = nodes BY <1>3, ExportIsGraph
  <2>2. s \in DOMAIN graph.nodes BY <1>3 DEF Simulate
  <2>3. reached = length BY <1>1, <1>3, <2>1, <2>2, FarIsNatural
  <2> HIDE DEF graph, reached
  <2>4. /\ Simulate(s, graph).affected = DOMAIN length
        /\ Simulate(s, graph).timeoutChain = {n \in DOMAIN length : length[n] > 2}
    BY <2>2 DEF Simulate, TimesOut
  <2> HIDE DEF length
  <2> QED BY <2>3, <2>4 DEF graph, reached
<1>4. IInv => AnalysisAgreesWithTopology BY <1>2, <1>3 DEF AnalysisAgreesWithTopology
<1> QED BY <1>4, InitInv, NextInv, PTL DEF Spec

Exported(graph) == graph = [nodes |-> graph.nodes, edges |-> graph.edges]

\* The exported graph before one of its edges was added.
LEMMA BeforeIsGraph ==
  ASSUME NEW graph, Exported(graph), graph.edges \in Seq(EdgeRecord),
         NEW less \in Before(graph)
  PROVE  /\ less.nodes = graph.nodes
         /\ less.edges \in Seq(EdgeRecord)
         /\ BuildGraph(less) \subseteq BuildGraph(graph)
<1> DEFINE edges == graph.edges
<1>1. PICK i \in DOMAIN edges : less = [graph EXCEPT !.edges = RemoveAt(@, i)] BY DEF Before
<1>2. edges \in Seq(EdgeRecord) OBVIOUS
<1>3. less.nodes = graph.nodes /\ less.edges = Without(edges, i)
  BY <1>1, Zenon DEF RemoveAt, Without, Exported
<1> HIDE DEF edges
<1> DEFINE rest == Without(edges, i)
<1>4. Len(edges) \in Nat /\ DOMAIN edges = 1 .. Len(edges) /\ i \in 1 .. Len(edges)
  BY <1>2, LenProperties
<1>5. /\ rest \in Seq(EdgeRecord) /\ Len(rest) = Len(edges) - 1
      /\ \A j \in 1 .. i - 1 : rest[j] = edges[j]
      /\ \A j \in i .. Len(edges) - 1 : rest[j] = edges[j + 1]
  BY <1>2, <1>4, WithoutList, Zenon
<1> HIDE DEF rest
<1>6. DOMAIN rest = 1 .. Len(edges) - 1 BY <1>5, LenProperties
<1>7. ASSUME NEW j \in DOMAIN rest PROVE \E m \in DOMAIN edges : rest[j] = edges[m]
  <2>1. CASE j < i
    <3>1. j \in 1 .. i - 1 /\ j \in DOMAIN edges BY <1>1, <1>4, <1>6, <2>1
    <3> QED BY <1>5, <3>1
  <2>2. CASE ~ (j < i)
    <3>1. j \in i .. Len(edges) - 1 /\ j + 1 \in DOMAIN edges BY <1>1, <1>4, <1>6, <2>2
    <3> QED BY <1>5, <3>1
  <2> QED BY <2>1, <2>2
<1>8. BuildGraph(less) = {<<rest[j].source, rest[j].target>> : j \in DOMAIN rest}
  BY <1>3 DEF BuildGraph, rest
<1>9. BuildGraph(graph) = {<<edges[j].source, edges[j].target>> : j \in DOMAIN edges}
  BY DEF BuildGraph, edges
<1>10. BuildGraph(less) \subseteq BuildGraph(graph) BY <1>7, <1>8, <1>9
<1> QED BY <1>3, <1>5, <1>10 DEF rest

------------------------------------------------------------------------------
\* Risk

LEMMA MinOfTwo ==
  ASSUME NEW a \in Int, NEW b \in Int
  PROVE  Min({a, b}) = IF a <= b THEN a ELSE b
<1> DEFINE S == {a, b}
           least == IF a <= b THEN a ELSE b
<1>1. least \in S /\ \A y \in S : least <= y OBVIOUS
<1>2. \A x \in S : (\A y \in S : x <= y) => x = least BY <1>1
<1> HIDE DEF S
<1>3. Min(S) = CHOOSE x \in S : \A y \in S : x <= y BY DEF Min
<1>4. Min(S) = least
  <2> HIDE DEF least
  <2> QED BY <1>1, <1>2, <1>3
<1> QED BY <1>4 DEF S

LEMMA MaxOfTwo ==
  ASSUME NEW a \in Int, NEW b \in Int
  PROVE  Max({a, b}) = IF a <= b THEN b ELSE a
<1> DEFINE S == {a, b}
           greatest == IF a <= b THEN b ELSE a
<1>1. greatest \in S /\ \A y \in S : greatest >= y OBVIOUS
<1>2. \A x \in S : (\A y \in S : x >= y) => x = greatest BY <1>1
<1> HIDE DEF S
<1>3. Max(S) = CHOOSE x \in S : \A y \in S : x >= y BY DEF Max
<1>4. Max(S) = greatest
  <2> HIDE DEF greatest
  <2> QED BY <1>1, <1>2, <1>3
<1> QED BY <1>4 DEF S

LEMMA CriticalityIsNatural ==
  ASSUME NEW data \in NodeMap, NEW x \in DOMAIN data
  PROVE  Criticality[data[x]] \in Nat
<1>1. data[x] \in ServiceData BY DEF NodeMap
<1> QED BY <1>1, RiskAssumption

\* What the data of a service adds to the risk.
Base(x, data) == IF x \in DOMAIN data THEN 5 * Criticality[data[x]] ELSE 5

LEMMA BaseGrows ==
  ASSUME NEW data \in NodeMap, NEW heavier \in NodeMap, DOMAIN data = DOMAIN heavier, NEW x,
         x \in DOMAIN data => Criticality[data[x]] <= Criticality[heavier[x]]
  PROVE  Base(x, data) \in Nat /\ Base(x, heavier) \in Nat /\ Base(x, data) <= Base(x, heavier)
<1>1. CASE x \in DOMAIN data
  <2>1. Criticality[data[x]] \in Nat /\ Criticality[heavier[x]] \in Nat
    BY <1>1, CriticalityIsNatural
  <2>2. /\ Base(x, data) = 5 * Criticality[data[x]]
        /\ Base(x, heavier) = 5 * Criticality[heavier[x]]
    BY <1>1 DEF Base
  <2>3. \A m, n \in Nat : m <= n => 5 * m \in Nat /\ 5 * n \in Nat /\ 5 * m <= 5 * n OBVIOUS
  <2> QED BY <1>1, <2>1, <2>2, <2>3
<1>2. CASE x \notin DOMAIN data BY <1>2 DEF Base
<1> QED BY <1>1, <1>2

\* A risk does not fall when more services are affected, some nearer, or some
\* more critical.
LEMMA RiskGrowsWithData ==
  ASSUME NEW data \in NodeMap, NEW heavier \in NodeMap, DOMAIN data = DOMAIN heavier,
         NEW change \in ChangeType, NEW far, NEW near,
         IsFiniteSet(DOMAIN near), DOMAIN far \subseteq DOMAIN near,
         \A x \in DOMAIN near : near[x] \in Nat,
         \A x \in DOMAIN far : far[x] \in Nat /\ near[x] <= far[x],
         \A x \in DOMAIN far \cap DOMAIN data : Criticality[data[x]] <= Criticality[heavier[x]]
  PROVE  /\ ComputeRiskScore(change, far, data) \in Severity[change] .. 100
         /\ ComputeRiskScore(change, far, data) <= ComputeRiskScore(change, near, heavier)
<1> DEFINE f == Weights(far, data)
           g == Weights(near, heavier)
<1>1. \A x \in DOMAIN near : Base(x, heavier) \in Nat
  <2> SUFFICES ASSUME NEW x \in DOMAIN near PROVE Base(x, heavier) \in Nat OBVIOUS
  <2>1. x \in DOMAIN heavier => Criticality[heavier[x]] <= Criticality[heavier[x]]
    BY CriticalityIsNatural
  <2> QED BY <2>1, BaseGrows
<1>2. \A x \in DOMAIN far : Base(x, data) \in Nat /\ Base(x, data) <= Base(x, heavier)
  <2> SUFFICES ASSUME NEW x \in DOMAIN far
               PROVE  Base(x, data) \in Nat /\ Base(x, data) <= Base(x, heavier)
    OBVIOUS
  <2> QED BY BaseGrows
<1>3. \A n \in Nat : Max({0, 10 - n}) = IF n <= 10 THEN 10 - n ELSE 0
  <2> SUFFICES ASSUME NEW n \in Nat PROVE Max({0, 10 - n}) = IF n <= 10 THEN 10 - n ELSE 0
    OBVIOUS
  <2>1. 0 \in Int /\ 10 - n \in Int OBVIOUS
  <2>2. Max({0, 10 - n}) = IF 0 <= 10 - n THEN 10 - n ELSE 0 BY <2>1, MaxOfTwo
  <2> QED BY <2>2
<1>4. f = [x \in DOMAIN far |-> Base(x, data) + Max({0, 10 - far[x]})] BY DEF Weights, Base
<1>5. g = [x \in DOMAIN near |-> Base(x, heavier) + Max({0, 10 - near[x]})]
  BY DEF Weights, Base
<1> HIDE DEF f, g
<1>6. f \in [DOMAIN far -> Nat]
  <2>1. \A x \in DOMAIN far : Base(x, data) + Max({0, 10 - far[x]}) \in Nat BY <1>2, <1>3
  <2> QED BY <1>4, <2>1
<1>7. g \in [DOMAIN near -> Nat]
  <2>1. \A x \in DOMAIN near : Base(x, heavier) + Max({0, 10 - near[x]}) \in Nat
    BY <1>1, <1>3
  <2> QED BY <1>5, <2>1
<1>8. \A x \in DOMAIN far : f[x] <= g[x]
  <2> SUFFICES ASSUME NEW x \in DOMAIN far PROVE f[x] <= g[x] OBVIOUS
  <2>1. /\ x \in DOMAIN near /\ far[x] \in Nat /\ near[x] \in Nat /\ near[x] <= far[x]
        /\ Base(x, data) \in Nat /\ Base(x, heavier) \in Nat
        /\ Base(x, data) <= Base(x, heavier)
    BY <1>1, <1>2
  <2>2. /\ f[x] = Base(x, data) + Max({0, 10 - far[x]})
        /\ g[x] = Base(x, heavier) + Max({0, 10 - near[x]})
    BY <1>4, <1>5, <2>1
  <2>3. Max({0, 10 - far[x]}) <= Max({0, 10 - near[x]}) BY <1>3, <2>1
  <2>4. Max({0, 10 - far[x]}) \in Nat /\ Max({0, 10 - near[x]}) \in Nat BY <1>3, <2>1
  <2> QED BY <2>1, <2>2, <2>3, <2>4
<1>9. /\ SumFunction(f) \in Nat /\ SumFunction(g) \in Nat
      /\ SumFunction(f) <= SumFunction(g)
  BY <1>6, <1>7, <1>8, SumGrows
<1>10. Severity[change] \in 0 .. 100 BY RiskAssumption
<1> DEFINE a == Severity[change] + SumFunction(f)
           b == Severity[change] + SumFunction(g)
<1>11. a \in Int /\ b \in Int /\ a <= b /\ Severity[change] <= a BY <1>9, <1>10
<1>12. /\ ComputeRiskScore(change, far, data) = Min({100, a})
       /\ ComputeRiskScore(change, near, heavier) = Min({100, b})
  BY DEF ComputeRiskScore, f, g
<1> HIDE DEF a, b
<1>13. /\ Min({100, a}) = IF 100 <= a THEN 100 ELSE a
       /\ Min({100, b}) = IF 100 <= b THEN 100 ELSE b
  BY <1>11, MinOfTwo
<1> QED BY <1>10, <1>11, <1>12, <1>13

LEMMA RiskGrows ==
  ASSUME NEW data \in NodeMap, NEW change \in ChangeType, NEW far, NEW near,
         IsFiniteSet(DOMAIN near), DOMAIN far \subseteq DOMAIN near,
         \A x \in DOMAIN near : near[x] \in Nat,
         \A x \in DOMAIN far : far[x] \in Nat /\ near[x] <= far[x]
  PROVE  /\ ComputeRiskScore(change, far, data) \in Severity[change] .. 100
         /\ ComputeRiskScore(change, far, data) <= ComputeRiskScore(change, near, data)
<1>1. \A x \in DOMAIN far \cap DOMAIN data : Criticality[data[x]] <= Criticality[data[x]]
  BY CriticalityIsNatural
<1> QED BY <1>1, RiskGrowsWithData

\* Looking further keeps the distances and may add some.
LEMMA DistancesGrow ==
  ASSUME NEW ids, NEW links, NEW s, NEW W, Reach(W, ids, links, s),
         NEW limit \in Nat, NEW more \in Nat, limit <= more
  PROVE  /\ DOMAIN Distances(links, s, limit) \subseteq DOMAIN Distances(links, s, more)
         /\ DOMAIN Distances(links, s, more) \subseteq ids
         /\ \A n \in DOMAIN Distances(links, s, more) : Distances(links, s, more)[n] \in Nat
         /\ \A n \in DOMAIN Distances(links, s, limit) :
              /\ Distances(links, s, limit)[n] \in Nat
              /\ Distances(links, s, more)[n] <= Distances(links, s, limit)[n]
<1> DEFINE near == Distances(links, s, limit)
           far == Distances(links, s, more)
<1>0. W = Within(links, s) BY DEF Reach
<1>1. /\ DOMAIN near = W[limit] \ {s}
      /\ \A n \in W[limit] \ {s} : near[n] \in 0 .. limit /\ n \in Layer(W, near[n])
  BY <1>0, DistancesAreLayers
<1>2. /\ DOMAIN far = W[more] \ {s}
      /\ \A n \in W[more] \ {s} : far[n] \in 0 .. more /\ n \in Layer(W, far[n])
  BY <1>0, DistancesAreLayers
<1> HIDE DEF near, far
<1>3. W[limit] \subseteq W[more] /\ W[more] \subseteq ids BY WithinLevels
<1>4. ASSUME NEW n \in DOMAIN near PROVE near[n] \in Nat /\ far[n] <= near[n]
  <2>1. near[n] \in Nat /\ n \in Layer(W, near[n]) BY <1>1, <1>4
  <2>2. far[n] \in Nat /\ n \in Layer(W, far[n]) BY <1>1, <1>2, <1>3, <1>4
  <2>3. near[n] = far[n] BY <2>1, <2>2, LayersApart
  <2> QED BY <2>1, <2>3
<1>5. \A n \in DOMAIN far : far[n] \in Nat BY <1>2
<1> QED BY <1>1, <1>2, <1>3, <1>4, <1>5 DEF near, far

\* With more links, services only come nearer.
LEMMA DistancesShrink ==
  ASSUME NEW ids, NEW links, NEW s, NEW W, Reach(W, ids, links, s),
         NEW fewer, NEW V, Reach(V, ids, fewer, s), fewer \subseteq links, NEW limit \in Nat
  PROVE  /\ DOMAIN Distances(fewer, s, limit) \subseteq DOMAIN Distances(links, s, limit)
         /\ \A n \in DOMAIN Distances(fewer, s, limit) :
              /\ Distances(fewer, s, limit)[n] \in Nat
              /\ Distances(links, s, limit)[n] <= Distances(fewer, s, limit)[n]
<1> DEFINE far == Distances(fewer, s, limit)
           near == Distances(links, s, limit)
           good == {d \in Nat : V[d] \subseteq W[d]}
<1>0. W = Within(links, s) /\ V = Within(fewer, s) BY DEF Reach
<1>1. V[0] = {s} /\ \A d \in Nat : V[d + 1] = V[d] \cup Targets(fewer, V[d])
  BY WithinIsRecursive
<1>2. W[0] = {s} /\ \A d \in Nat : W[d + 1] = W[d] \cup Targets(links, W[d])
  BY WithinIsRecursive
<1>3. 0 \in good BY <1>1, <1>2
<1>4. ASSUME NEW d \in Nat, d \in good PROVE d + 1 \in good
  <2>1. Targets(fewer, V[d]) \subseteq Targets(links, W[d]) BY <1>4 DEF Targets
  <2> QED BY <1>1, <1>2, <1>4, <2>1
<1> HIDE DEF good
<1>5. Nat \subseteq good BY <1>3, <1>4, NatBySteps
<1>6. \A d \in Nat : V[d] \subseteq W[d] BY <1>5 DEF good
<1>7. /\ DOMAIN near = W[limit] \ {s}
      /\ \A n \in W[limit] \ {s} : near[n] \in 0 .. limit /\ n \in Layer(W, near[n])
  BY <1>0, DistancesAreLayers
<1>8. /\ DOMAIN far = V[limit] \ {s}
      /\ \A n \in V[limit] \ {s} : far[n] \in 0 .. limit /\ n \in Layer(V, far[n])
  BY <1>0, DistancesAreLayers
<1> HIDE DEF near, far
<1>9. ASSUME NEW n \in DOMAIN far PROVE far[n] \in Nat /\ near[n] <= far[n]
  <2>1. far[n] \in Nat /\ n \in V[far[n]] BY <1>8, <1>9 DEF Layer
  <2>2. n \in W[far[n]] BY <1>6, <2>1
  <2>3. near[n] \in Nat /\ \A j \in 0 .. near[n] - 1 : n \notin W[j]
    BY <1>6, <1>7, <1>8, <1>9 DEF Layer
  <2>4. ~ (far[n] < near[n])
    <3>1. far[n] < near[n] => far[n] \in 0 .. near[n] - 1 BY <2>1, <2>3
    <3> QED BY <2>2, <2>3, <3>1
  <2> QED BY <2>1, <2>3, <2>4
<1> QED BY <1>6, <1>7, <1>8, <1>9 DEF near, far

\* The score of a change stays between the severity of the change and 100, and
\* neither a larger limit nor one more dependency lowers it.
THEOREM RiskIsMonotone == Spec => []RiskGrowsWithGraph
<1>1. ASSUME IInv, NEW s \in DOMAIN nodes, NEW change \in ChangeType,
             NEW maxDepth \in 1 .. Far - 1
      PROVE  LET risk == Risk(s, change, maxDepth, ExportGraph)
             IN  /\ risk \in Severity[change] .. 100
                 /\ risk <= Risk(s, change, maxDepth + 1, ExportGraph)
                 /\ \A less \in Before(ExportGraph) :
                      Risk(s, change, maxDepth, less) <= risk
  <2> DEFINE graph == ExportGraph
             links == BuildGraph(graph)
             D(d) == Distances(links, s, d)
             more == maxDepth + 1
  <2>1. /\ graph.nodes = nodes /\ graph.edges \in Seq(EdgeRecord) /\ Exported(graph)
    BY <1>1, ExportIsGraph DEF Exported, ExportGraph
  <2>2. s \in ServiceId /\ nodes \in NodeMap BY <1>1, Typing DEF IInv, TypeOK
  <2>3. maxDepth \in Nat /\ more \in Nat /\ maxDepth <= more BY FarIsNatural
  <2> HIDE DEF graph, more
  <2>4. ASSUME NEW g, g.nodes = nodes, g.edges \in Seq(EdgeRecord), NEW d \in Nat
        PROVE  Risk(s, change, d, g)
                 = ComputeRiskScore(change, Distances(BuildGraph(g), s, d), nodes)
    <3>1. TraverseDependencies(BuildAdjacency(g.edges), s, d) = Distances(BuildGraph(g), s, d)
      BY <2>2, <2>4, ImpactIsDistances
    <3> QED BY <1>1, <2>4, <3>1 DEF Risk, Analyze
  <2>5. Reach(Within(links, s), ServiceId, links, s)
    <3>1. Among(links, ServiceId) BY <2>1, AdjacencyIsGraph
    <3> QED BY <2>2, <3>1 DEF Reach, Among
  <2> HIDE DEF links
  <2>6. /\ DOMAIN D(maxDepth) \subseteq DOMAIN D(more) /\ DOMAIN D(more) \subseteq ServiceId
        /\ \A n \in DOMAIN D(more) : D(more)[n] \in Nat
        /\ \A n \in DOMAIN D(maxDepth) : /\ D(maxDepth)[n] \in Nat
                                         /\ D(more)[n] <= D(maxDepth)[n]
    <3> DEFINE W == Within(links, s)
    <3> HIDE DEF W
    <3> QED BY <2>3, <2>5, DistancesGrow DEF W
  <2>7. IsFiniteSet(DOMAIN D(more)) /\ IsFiniteSet(DOMAIN D(maxDepth))
    BY <2>6, QueriesAssumption, FS_Subset
  <2> HIDE DEF D
  <2>8. /\ ComputeRiskScore(change, D(maxDepth), nodes) \in Severity[change] .. 100
        /\ ComputeRiskScore(change, D(maxDepth), nodes)
             <= ComputeRiskScore(change, D(more), nodes)
    BY <2>2, <2>6, <2>7, RiskGrows
  <2>9. /\ Risk(s, change, maxDepth, graph) = ComputeRiskScore(change, D(maxDepth), nodes)
        /\ Risk(s, change, more, graph) = ComputeRiskScore(change, D(more), nodes)
    BY <2>1, <2>3, <2>4 DEF D, links
  <2>10. ASSUME NEW less \in Before(graph)
         PROVE  Risk(s, change, maxDepth, less) <= Risk(s, change, maxDepth, graph)
    <3> DEFINE fewer == BuildGraph(less)
               far == Distances(fewer, s, maxDepth)
               near == D(maxDepth)
    <3>1. less.nodes = nodes /\ less.edges \in Seq(EdgeRecord) /\ fewer \subseteq links
      BY <2>1, BeforeIsGraph DEF links
    <3>2. Reach(Within(fewer, s), ServiceId, fewer, s)
      <4>1. Among(fewer, ServiceId) BY <3>1, AdjacencyIsGraph
      <4> QED BY <2>2, <4>1 DEF Reach, Among
    <3>3. Risk(s, change, maxDepth, less) = ComputeRiskScore(change, far, nodes)
      BY <2>3, <2>4, <3>1
    <3> HIDE DEF fewer
    <3>4. /\ DOMAIN far \subseteq DOMAIN near
          /\ \A n \in DOMAIN far : far[n] \in Nat /\ near[n] <= far[n]
      <4> DEFINE W == Within(links, s)
                 V == Within(fewer, s)
      <4>1. Reach(W, ServiceId, links, s) /\ Reach(V, ServiceId, fewer, s) BY <2>5, <3>2
      <4> HIDE DEF W, V
      <4> QED BY <2>3, <3>1, <4>1, DistancesShrink DEF D
    <3> HIDE DEF far, near
    <3>5. IsFiniteSet(DOMAIN near) /\ \A n \in DOMAIN near : near[n] \in Nat
      BY <2>6, <2>7 DEF near
    <3>6. ComputeRiskScore(change, far, nodes) <= ComputeRiskScore(change, near, nodes)
      BY <2>2, <3>4, <3>5, RiskGrows
    <3> QED BY <2>9, <3>3, <3>6 DEF near
  <2>11. Risk(s, change, maxDepth, graph) \in Severity[change] .. 100
         /\ Risk(s, change, maxDepth, graph) <= Risk(s, change, more, graph)
    BY <2>8, <2>9
  <2> QED BY <2>10, <2>11 DEF graph, more
<1>2. IInv => RiskGrowsWithGraph BY <1>1 DEF RiskGrowsWithGraph
<1> QED BY <1>2, InitInv, NextInv, PTL DEF Spec

------------------------------------------------------------------------------
\* Snapshots

StoredGraph == [nodes : NodeMap, edges : Seq(EdgeRecord)]

\* What a comparison needs of the rows: each was an exported graph.
RegistryInv == IInv /\ captured \subseteq StoredGraph

LEMMA ExportIsStored ==
  ASSUME IInv
  PROVE  ExportGraph \in StoredGraph
<1>1. ExportGraph.nodes \in NodeMap /\ ExportGraph.edges \in Seq(EdgeRecord)
  BY ExportIsGraph DEF IInv, TypeOK
<1>2. ExportGraph = [nodes |-> ExportGraph.nodes, edges |-> ExportGraph.edges]
  BY DEF ExportGraph
<1> HIDE DEF StoredGraph
<1>3. \A n \in NodeMap, e \in Seq(EdgeRecord) : [nodes |-> n, edges |-> e] \in StoredGraph
  BY DEF StoredGraph
<1> QED BY <1>1, <1>2, <1>3

LEMMA RegistryInvariant == RegistrySpec => []RegistryInv
<1>1. RegistryInit => RegistryInv BY InitInv DEF RegistryInit, RegistryInv
<1>2. ASSUME RegistryInv, [RegistryNext]_<<vars, captured>> PROVE RegistryInv'
  <2>1. CASE Next /\ UNCHANGED captured BY <1>2, <2>1, NextInv DEF RegistryInv, StoredGraph
  <2>2. CASE CaptureSnapshot
    <3>1. IInv' BY <1>2, <2>2, NextInv DEF RegistryInv, CaptureSnapshot
    <3>2. captured' \subseteq StoredGraph
      BY <1>2, <2>2, ExportIsStored DEF RegistryInv, CaptureSnapshot
    <3> QED BY <3>1, <3>2 DEF RegistryInv
  <2>3. CASE UNCHANGED <<vars, captured>> BY <1>2, <2>3, NextInv DEF RegistryInv
  <2> QED BY <1>2, <2>1, <2>2, <2>3 DEF RegistryNext
<1> QED BY <1>1, <1>2, PTL DEF RegistrySpec

\* An empty comparison is of graphs with the same services and the same links.
LEMMA NothingIsSame ==
  ASSUME NEW first, NEW second, ShowsNothing(DiffGraphs(first, second))
  PROVE  /\ DOMAIN first.nodes = DOMAIN second.nodes
         /\ BuildGraph(first) = BuildGraph(second)
<1> DEFINE diff == DiffGraphs(first, second)
<1>1. DOMAIN diff = {"addedServices", "removedServices", "addedEdges", "removedEdges"}
  BY DEF DiffGraphs
<1>2. /\ diff.addedServices = {} /\ diff.removedServices = {}
      /\ diff.addedEdges = {} /\ diff.removedEdges = {}
  <2> HIDE DEF diff
  <2>1. ShowsNothing(diff) BY DEF diff
  <2> QED BY <1>1, <2>1 DEF ShowsNothing
<1>3. /\ DOMAIN second.nodes \ DOMAIN first.nodes = {}
      /\ DOMAIN first.nodes \ DOMAIN second.nodes = {}
      /\ BuildGraph(second) \ BuildGraph(first) = {}
      /\ BuildGraph(first) \ BuildGraph(second) = {}
  BY <1>2 DEF DiffGraphs, Pairs
<1> QED BY <1>3

\* With the same links, an analysis names the same services at the same depths.
LEMMA SameLinksSameImpact ==
  ASSUME NEW first \in StoredGraph, NEW second \in StoredGraph,
         DOMAIN first.nodes = DOMAIN second.nodes, BuildGraph(first) = BuildGraph(second),
         NEW s \in ServiceId, NEW change \in ChangeType, NEW maxDepth \in 1 .. Far,
         NEW before, before = Analyze(s, change, maxDepth, first),
         NEW after, after = Analyze(s, change, maxDepth, second)
  PROVE  /\ before.status = after.status /\ before.affected = after.affected
         /\ before.status = 200 =>
              /\ before.riskScore = ComputeRiskScore(change, before.affected, first.nodes)
              /\ after.riskScore = ComputeRiskScore(change, before.affected, second.nodes)
              /\ before.affected = Distances(BuildGraph(first), s, maxDepth)
<1>1. first.edges \in Seq(EdgeRecord) /\ second.edges \in Seq(EdgeRecord) BY DEF StoredGraph
<1>2. maxDepth \in Nat BY FarIsNatural
<1> DEFINE walk == TraverseDependencies(BuildAdjacency(first.edges), s, maxDepth)
           again == TraverseDependencies(BuildAdjacency(second.edges), s, maxDepth)
<1>3. walk = Distances(BuildGraph(first), s, maxDepth) BY <1>1, <1>2, ImpactIsDistances
<1>4. again = Distances(BuildGraph(second), s, maxDepth) BY <1>1, <1>2, ImpactIsDistances
<1>5. walk = again BY <1>3, <1>4
<1> HIDE DEF walk, again
<1>6. CASE s \notin DOMAIN first.nodes
  <2>1. before = [status |-> 400, affected |-> EmptyMap] /\ after = before
    BY <1>6 DEF Analyze
  <2> QED BY <2>1
<1>7. CASE s \in DOMAIN first.nodes
  <2>1. before = [status |-> 200, affected |-> walk,
                  riskScore |-> ComputeRiskScore(change, walk, first.nodes)]
    BY <1>7 DEF Analyze, walk
  <2>2. after = [status |-> 200, affected |-> again,
                 riskScore |-> ComputeRiskScore(change, again, second.nodes)]
    BY <1>7 DEF Analyze, again
  <2> QED BY <1>3, <1>5, <2>1, <2>2
<1> QED BY <1>6, <1>7

LEMMA MoreCriticalMoreRisk ==
  ASSUME NEW first \in StoredGraph, NEW second \in StoredGraph,
         DOMAIN first.nodes = DOMAIN second.nodes,
         NEW s \in ServiceId, NEW change \in ChangeType, NEW limit \in Nat,
         NEW affected, affected = Distances(BuildGraph(first), s, limit),
         NoMoreCritical(DOMAIN affected, first, second)
  PROVE  ComputeRiskScore(change, affected, first.nodes)
           <= ComputeRiskScore(change, affected, second.nodes)
<1> DEFINE links == BuildGraph(first)
           W == Within(links, s)
           data == first.nodes
           heavier == second.nodes
<1>1. first.edges \in Seq(EdgeRecord) /\ data \in NodeMap /\ heavier \in NodeMap
  BY DEF StoredGraph
<1>2. Among(links, ServiceId) BY <1>1, AdjacencyIsGraph
<1>3. Reach(W, ServiceId, links, s) BY <1>2 DEF Reach, Among
<1>4. affected = Distances(links, s, limit) /\ limit <= limit OBVIOUS
<1> HIDE DEF links, W
<1>5. /\ DOMAIN affected \subseteq ServiceId
      /\ \A n \in DOMAIN affected : affected[n] \in Nat
  BY <1>3, <1>4, DistancesGrow
<1>6. IsFiniteSet(DOMAIN affected) BY <1>5, QueriesAssumption, FS_Subset
<1>7. \A n \in DOMAIN affected : affected[n] <= affected[n] BY <1>5
<1>8. \A n \in DOMAIN affected \cap DOMAIN data :
        Criticality[data[n]] <= Criticality[heavier[n]]
  BY DEF NoMoreCritical
<1>9. DOMAIN data = DOMAIN heavier OBVIOUS
<1> HIDE DEF data, heavier
<1>10. ComputeRiskScore(change, affected, data) <= ComputeRiskScore(change, affected, heavier)
  BY <1>1, <1>5, <1>6, <1>7, <1>8, <1>9, RiskGrowsWithData
<1> QED BY <1>10 DEF data, heavier

\* Whatever is captured, and whatever is written in between: where a comparison
\* shows nothing, simulations are the same, analyses name the same services at
\* the same depths, and only a changed criticality of one of these moves a score.
THEOREM EmptyComparisonIsSafe == RegistrySpec => []EmptyComparisonSameImpact
<1>1. ASSUME RegistryInv, NEW first \in captured \cup {ExportGraph},
             NEW second \in captured \cup {ExportGraph},
             ShowsNothing(DiffGraphs(first, second)), NEW s \in ServiceId
      PROVE  /\ Simulate(s, first) = Simulate(s, second)
             /\ \A change \in ChangeType, maxDepth \in 1 .. Far :
                  LET before == Analyze(s, change, maxDepth, first)
                      after == Analyze(s, change, maxDepth, second)
                  IN  /\ before.status = after.status
                      /\ before.affected = after.affected
                      /\ /\ before.status = 200
                         /\ NoMoreCritical(DOMAIN before.affected, first, second)
                         => before.riskScore <= after.riskScore
  <2>1. first \in StoredGraph /\ second \in StoredGraph
    BY <1>1, ExportIsStored DEF RegistryInv
  <2>2. DOMAIN first.nodes = DOMAIN second.nodes /\ BuildGraph(first) = BuildGraph(second)
    BY <1>1, NothingIsSame
  <2>3. Simulate(s, first) = Simulate(s, second) BY <2>2 DEF Simulate
  <2>4. ASSUME NEW change \in ChangeType, NEW maxDepth \in 1 .. Far,
               NEW before, before = Analyze(s, change, maxDepth, first),
               NEW after, after = Analyze(s, change, maxDepth, second)
        PROVE  /\ before.status = after.status
               /\ before.affected = after.affected
               /\ /\ before.status = 200
                  /\ NoMoreCritical(DOMAIN before.affected, first, second)
                  => before.riskScore <= after.riskScore
    <3>1. /\ before.status = after.status /\ before.affected = after.affected
          /\ before.status = 200 =>
               /\ before.riskScore = ComputeRiskScore(change, before.affected, first.nodes)
               /\ after.riskScore = ComputeRiskScore(change, before.affected, second.nodes)
               /\ before.affected = Distances(BuildGraph(first), s, maxDepth)
      BY <2>1, <2>2, <2>4, SameLinksSameImpact
    <3>2. ASSUME before.status = 200,
                 NoMoreCritical(DOMAIN before.affected, first, second)
          PROVE  before.riskScore <= after.riskScore
      <4>1. maxDepth \in Nat BY FarIsNatural
      <4>2. before.affected = Distances(BuildGraph(first), s, maxDepth) BY <3>1, <3>2
      <4>3. ComputeRiskScore(change, before.affected, first.nodes)
              <= ComputeRiskScore(change, before.affected, second.nodes)
        BY <2>1, <2>2, <3>2, <4>1, <4>2, MoreCriticalMoreRisk
      <4> QED BY <3>1, <3>2, <4>3
    <3> QED BY <3>1, <3>2
  <2> QED BY <2>3, <2>4
<1>2. RegistryInv => EmptyComparisonSameImpact BY <1>1 DEF EmptyComparisonSameImpact
<1> QED BY <1>2, RegistryInvariant, PTL

------------------------------------------------------------------------------
\* Compatibility: a chain of releases that the checker calls compatible is
\* compatible from its first release to its last, for schemas of any size

\* What a client of the old object keeps finding in the new one.
Keeps(before, after) ==
  \A f \in DOMAIN before.properties :
    /\ f \in DOMAIN after.properties
    /\ before.properties[f] = after.properties[f]
    /\ f \in after.required => f \in before.required

\* The verdict is "compatible" exactly when every schema keeps its properties.
LEMMA CompatibleIsKeeping ==
  ASSUME NEW before, NEW after
  PROVE  Compatible(before, after)
           <=> \A name \in DOMAIN before : Keeps(before[name], Get(after, name))
<1> DEFINE Diff(name) == CompareObjects(before[name], Get(after, name))
<1>1. "breaking" # "compatible"
  OBVIOUS
<1>2. Compatible(before, after) <=> BreakingChanges(before, after) = {}
  BY <1>1 DEF Compatible, Verdict
<1>3. BreakingChanges(before, after) = {}
        <=> \A name \in DOMAIN before, kind \in BreakingKinds : Diff(name)[kind] = {}
  <2>1. ASSUME NEW name \in DOMAIN before, NEW kind \in BreakingKinds
        PROVE  <<name, kind>> \in BreakingChanges(before, after)
                 <=> Diff(name)[kind] # {}
    BY DEF BreakingChanges
  <2>2. ASSUME NEW change \in BreakingChanges(before, after)
        PROVE  \E name \in DOMAIN before, kind \in BreakingKinds : change = <<name, kind>>
    BY DEF BreakingChanges
  <2> HIDE DEF Diff
  <2>3. ASSUME BreakingChanges(before, after) = {},
               NEW name \in DOMAIN before, NEW kind \in BreakingKinds
        PROVE  Diff(name)[kind] = {}
    BY <2>1, <2>3
  <2>4. ASSUME \A name \in DOMAIN before, kind \in BreakingKinds : Diff(name)[kind] = {}
        PROVE  BreakingChanges(before, after) = {}
    BY <2>1, <2>2, <2>4
  <2>5. QED
    BY <2>3, <2>4
<1>4. ASSUME NEW name \in DOMAIN before
      PROVE  (\A kind \in BreakingKinds : Diff(name)[kind] = {})
               <=> Keeps(before[name], Get(after, name))
  <2>1. (\A kind \in BreakingKinds : Diff(name)[kind] = {})
          <=> /\ Diff(name).removed = {}
              /\ Diff(name).type_changed = {}
              /\ Diff(name).optional_to_required = {}
    BY DEF BreakingKinds
  <2>2. QED
    BY <2>1 DEF CompareObjects, Keeps
<1>5. QED
  BY <1>2, <1>3, <1>4

LEMMA CompatibilityIsTransitive ==
  ASSUME NEW first, NEW middle, NEW last,
         Compatible(first, middle), Compatible(middle, last)
  PROVE  Compatible(first, last)
<1>1. SUFFICES ASSUME NEW name \in DOMAIN first
               PROVE  Keeps(first[name], Get(last, name))
  BY CompatibleIsKeeping
<1>2. Keeps(first[name], Get(middle, name))
  BY CompatibleIsKeeping
<1>3. CASE name \in DOMAIN middle
  <2>1. Keeps(Get(middle, name), Get(last, name))
    BY <1>3, CompatibleIsKeeping DEF Get
  <2>2. QED
    BY <1>2, <2>1 DEF Keeps
<1>4. CASE name \notin DOMAIN middle
  <2>1. DOMAIN first[name].properties = {}
    BY <1>2, <1>4 DEF Keeps, Get, NoObject
  <2>2. QED
    BY <2>1 DEF Keeps
<1>5. QED
  BY <1>3, <1>4

\* A description is compatible with itself: there is nothing to compare.
LEMMA CompatibilityIsReflexive ==
  ASSUME NEW api PROVE Compatible(api, api)
BY CompatibleIsKeeping DEF Keeps, Get

\* What has been released is a pair, of which the second serves the first.
ReleasesFit ==
  released = << >> \/ \E api, latest : released = <<api, latest>> /\ Compatible(api, latest)

\* However many releases follow each other, of which each was called compatible
\* with the one before (checker.py:40), the latest still serves a client of the
\* first.
THEOREM CompatibilityStepsAddUp == ReleaseSpec => []CompatibleStepsAddUp
<1>1. ReleaseInit => ReleasesFit
  BY DEF ReleaseInit, ReleasesFit
<1>2. ASSUME ReleasesFit, [ReleaseNext]_released PROVE ReleasesFit'
  <2>1. CASE UNCHANGED released
    BY <1>2, <2>1 DEF ReleasesFit
  <2>2. ASSUME NEW api \in Api, FirstRelease(api) PROVE ReleasesFit'
    BY <2>2, CompatibilityIsReflexive DEF FirstRelease, ReleasesFit
  <2>3. ASSUME NEW api \in Api, Release(api) PROVE ReleasesFit'
    <3>1. PICK first, latest : released = <<first, latest>> /\ Compatible(first, latest)
      BY <1>2, <2>3 DEF Release, ReleasesFit
    <3>2. released' = <<first, api>> /\ Compatible(latest, api)
      BY <2>3, <3>1 DEF Release
    <3>3. QED
      BY <3>1, <3>2, CompatibilityIsTransitive DEF ReleasesFit
  <2>4. QED
    BY <1>2, <2>1, <2>2, <2>3 DEF ReleaseNext
<1>3. ReleasesFit => CompatibleStepsAddUp
  BY DEF ReleasesFit, CompatibleStepsAddUp
<1>4. QED
  BY <1>1, <1>2, <1>3, PTL DEF ReleaseSpec
==============================================================================
