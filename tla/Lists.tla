-------------------------------- MODULE Lists --------------------------------
(***************************************************************************)
(* What the services do to their arrays: splice() takes an element out,    *)
(* filter() keeps some of them.                                            *)
(***************************************************************************)
EXTENDS Naturals, Sequences, FiniteSets

Without(list, i) == SubSeq(list, 1, i - 1) \o SubSeq(list, i + 1, Len(list))

\* The elements of list that are in kept, in their order.
Keep(list, kept) ==
  LET upTo[i \in 0 .. Len(list)] ==
        IF i = 0 THEN << >>
        ELSE IF list[i] \in kept THEN Append(upTo[i - 1], list[i]) ELSE upTo[i - 1]
  IN  upTo[Len(list)]

\* The elements of list that are not in marked, each at its first place: those a
\* loop over list finds unmarked when it marks what it finds.
Fresh(list, marked) ==
  LET at == Keep([i \in DOMAIN list |-> i],
                 {i \in DOMAIN list : /\ list[i] \notin marked
                                      /\ \A j \in 1 .. i - 1 : list[j] # list[i]})
  IN  [i \in DOMAIN at |-> list[at[i]]]

\* How often x stands in list.
Times(list, x) == Cardinality({i \in DOMAIN list : list[i] = x})

EmptyMap == [key \in {} |-> {}]

\* The map after value was set for each of the keys.
Put(map, keys, value) ==
  [key \in DOMAIN map |-> IF key \in keys THEN value ELSE map[key]]
==============================================================================
