------------------------ MODULE AnalysisResultsProofs ------------------------
(***************************************************************************)
(* Proofs about AnalysisResults, for any number of analyses, requests and  *)
(* retries and any size of the dictionary: a completed analysis is kept    *)
(* until it is too old or as many others were stored after it as fit.      *)
(***************************************************************************)
EXTENDS AnalysisResults, ListsProofs

------------------------------------------------------------------------------
\* Lists of records

KeysDistinct(list) ==
  \A i, j \in 1 .. Len(list) : list[i].key = list[j].key => i = j

\* A record behind another one was stored later.
InOrder(list, later) ==
  \A i, j \in 1 .. Len(list) : i < j => list[j].key \in later[list[i].key]

LEMMA KeepRecords ==
  ASSUME NEW list \in Seq(Records), KeysDistinct(list), NEW later, InOrder(list, later),
         NEW kept
  PROVE  /\ Keep(list, kept) \in Seq(Records)
         /\ Len(Keep(list, kept)) \in Nat /\ Len(Keep(list, kept)) <= Len(list)
         /\ KeysDistinct(Keep(list, kept)) /\ InOrder(Keep(list, kept), later)
         /\ \A i \in 1 .. Len(Keep(list, kept)) :
              Keep(list, kept)[i] \in kept
                /\ \E j \in 1 .. Len(list) : Keep(list, kept)[i] = list[j]
         /\ \A j \in 1 .. Len(list) :
              list[j] \in kept => \E i \in 1 .. Len(Keep(list, kept)) :
                                    Keep(list, kept)[i] = list[j]
<1> DEFINE short == Keep(list, kept)
<1>1. /\ short \in Seq(Records) /\ Len(short) <= Len(list)
      /\ \E at \in [1 .. Len(short) -> 1 .. Len(list)] :
           /\ \A i, j \in DOMAIN at : i < j => at[i] < at[j]
           /\ \A i \in DOMAIN at : short[i] = list[at[i]] /\ list[at[i]] \in kept
           /\ \A j \in 1 .. Len(list) : list[j] \in kept => \E i \in DOMAIN at : at[i] = j
  BY KeepPositions
<1> HIDE DEF short
<1>2. PICK at \in [1 .. Len(short) -> 1 .. Len(list)] :
        /\ \A i, j \in DOMAIN at : i < j => at[i] < at[j]
        /\ \A i \in DOMAIN at : short[i] = list[at[i]] /\ list[at[i]] \in kept
        /\ \A j \in 1 .. Len(list) : list[j] \in kept => \E i \in DOMAIN at : at[i] = j
  BY <1>1
<1>3. Len(short) \in Nat /\ Len(list) \in Nat /\ DOMAIN at = 1 .. Len(short)
  BY <1>1, LenProperties
<1>4. \A i \in 1 .. Len(short) : at[i] \in 1 .. Len(list) BY <1>2
<1>5. ASSUME NEW i \in 1 .. Len(short), NEW j \in 1 .. Len(short),
             short[i].key = short[j].key
      PROVE  i = j
  <2>1. at[i] = at[j] BY <1>2, <1>3, <1>4, <1>5 DEF KeysDistinct
  <2>2. ~ (i < j) /\ ~ (j < i) BY <1>2, <1>3, <1>4, <2>1
  <2> QED BY <1>3, <2>2
<1>6. ASSUME NEW i \in 1 .. Len(short), NEW j \in 1 .. Len(short), i < j
      PROVE  short[j].key \in later[short[i].key]
  BY <1>2, <1>3, <1>4, <1>6 DEF InOrder
<1>7. KeysDistinct(short) BY <1>5 DEF KeysDistinct
<1>8. InOrder(short, later) BY <1>6 DEF InOrder
<1>9. \A i \in 1 .. Len(short) :
        short[i] \in kept /\ \E j \in 1 .. Len(list) : short[i] = list[j]
  BY <1>2, <1>3, <1>4
<1>11. ASSUME NEW j \in 1 .. Len(list), list[j] \in kept
       PROVE  \E i \in 1 .. Len(short) : short[i] = list[j]
  BY <1>2, <1>3, <1>11
<1> QED BY <1>1, <1>3, <1>7, <1>8, <1>9, <1>11 DEF short

\* What another store since the last one of each analysis makes of since.
StoredSince(later, k) == [j \in Analysis |-> IF j = k THEN {} ELSE later[j] \cup {k}]

\* A store puts its record last, and drops a record only when as many others as
\* fit were stored after it.
StoredUpon(stored, list, later, k, status) ==
  /\ stored \in Seq(Records)
  /\ Len(stored) <= MaxAsyncResults
  /\ KeysDistinct(stored)
  /\ InOrder(stored, later)
  /\ \E i \in 1 .. Len(stored) : stored[i] = Record(k, status)
  /\ \A i \in 1 .. Len(stored) :
       \/ stored[i] = Record(k, status)
       \/ stored[i].key # k /\ \E j \in 1 .. Len(list) : stored[i] = list[j]
  /\ \A j \in 1 .. Len(list) :
       \/ list[j].key = k
       \/ \E i \in 1 .. Len(stored) : stored[i] = list[j]
       \/ ~ (Cardinality(later[list[j].key]) < MaxAsyncResults)

LEMMA StoredRecords ==
  ASSUME NEW list \in Seq(Records), KeysDistinct(list), Len(list) <= MaxAsyncResults,
         NEW later \in [Analysis -> SUBSET Analysis], InOrder(list, later),
         \A j \in Analysis : IsFiniteSet(later[j]),
         NEW k \in Analysis, NEW status \in {"pending", "complete"}
  PROVE  StoredUpon(Stored(list, k, status), list, StoredSince(later, k), k, status)
<1> DEFINE others == {record \in Records : record.key # k}
           rest == Others(list, k)
           n == Len(rest)
           new == Record(k, status)
           longer == Append(rest, new)
           since1 == StoredSince(later, k)
<1>0. Len(list) \in Nat /\ \A i \in 1 .. Len(list) : list[i] \in Records BY LenProperties
<1>1. /\ rest \in Seq(Records) /\ n \in Nat /\ n <= Len(list)
      /\ KeysDistinct(rest) /\ InOrder(rest, later)
      /\ \A i \in 1 .. n : rest[i] \in others /\ \E j \in 1 .. Len(list) : rest[i] = list[j]
      /\ \A j \in 1 .. Len(list) :
           list[j] \in others => \E i \in 1 .. n : rest[i] = list[j]
  <2>1. rest = Keep(list, others) BY DEF Others
  <2> HIDE DEF others, rest
  <2> QED BY <2>1, KeepRecords
<1>2. \A i \in 1 .. n : rest[i] \in Records /\ rest[i].key # k /\ rest[i].key \in Analysis
  BY <1>1 DEF Records
<1>3. \A j \in 1 .. Len(list) :
        list[j].key # k => \E i \in 1 .. n : rest[i] = list[j]
  BY <1>0, <1>1
<1>4. new \in Records /\ new.key = k BY DEF Records, Record
<1> HIDE DEF rest, new
<1>5. /\ longer \in Seq(Records) /\ Len(longer) = n + 1
      /\ \A i \in 1 .. n : longer[i] = rest[i]
      /\ longer[n + 1] = new
  BY <1>1, <1>4, AppendProperties
<1> HIDE DEF longer
<1>6. \A i \in 1 .. n + 1 : i \in 1 .. n \/ i = n + 1 BY <1>1
<1>7. ASSUME NEW i \in 1 .. n + 1, NEW j \in 1 .. n + 1, longer[i].key = longer[j].key
      PROVE  i = j
  <2>1. CASE i \in 1 .. n /\ j \in 1 .. n BY <1>1, <1>5, <1>7, <2>1 DEF KeysDistinct
  <2>2. CASE i \in 1 .. n /\ j = n + 1 BY <1>2, <1>4, <1>5, <1>7, <2>2
  <2>3. CASE i = n + 1 /\ j \in 1 .. n BY <1>2, <1>4, <1>5, <1>7, <2>3
  <2> QED BY <1>6, <2>1, <2>2, <2>3
<1>8. \A j \in Analysis : since1[j] = IF j = k THEN {} ELSE later[j] \cup {k}
  BY DEF StoredSince
<1> HIDE DEF since1
<1>9. ASSUME NEW i \in 1 .. n + 1, NEW j \in 1 .. n + 1, i < j
      PROVE  longer[j].key \in since1[longer[i].key]
  <2>1. i \in 1 .. n BY <1>1, <1>9
  <2>2. longer[i] = rest[i] /\ rest[i].key \in Analysis /\ rest[i].key # k
    BY <1>2, <1>5, <2>1
  <2>3. since1[longer[i].key] = later[rest[i].key] \cup {k} BY <1>8, <2>2
  <2>4. CASE j = n + 1 BY <1>4, <1>5, <2>3, <2>4
  <2>5. CASE j \in 1 .. n
    <3>1. rest[j].key \in later[rest[i].key] BY <1>1, <1>9, <2>1, <2>5 DEF InOrder
    <3> QED BY <1>5, <2>3, <2>5, <3>1
  <2> QED BY <1>6, <2>4, <2>5
<1> DEFINE FromList(i) == \/ longer[i] = new
                          \/ /\ longer[i].key # k
                             /\ \E j \in 1 .. Len(list) : longer[i] = list[j]
<1>10. \A i \in 1 .. n + 1 : FromList(i)
  <2>1. ASSUME NEW i \in 1 .. n PROVE FromList(i)
    <3>1. longer[i] = rest[i] /\ rest[i].key # k BY <1>2, <1>5
    <3>2. \E j \in 1 .. Len(list) : rest[i] = list[j] BY <1>1
    <3> QED BY <3>1, <3>2
  <2>2. FromList(n + 1) BY <1>5
  <2> QED BY <1>6, <2>1, <2>2
<1>11. CASE ~ (Len(longer) > MaxAsyncResults)
  <2>1. Stored(list, k, status) = longer BY <1>11 DEF Stored, longer, rest, new
  <2>2. InOrder(longer, since1) BY <1>5, <1>9 DEF InOrder
  <2>3. n + 1 <= MaxAsyncResults BY <1>1, <1>5, <1>11, MaxAsyncResultsAssumption
  <2>4. n + 1 \in 1 .. Len(longer) BY <1>1, <1>5
  <2>5. \E i \in 1 .. Len(longer) : longer[i] = new BY <1>5, <2>4
  <2>6. \A i \in 1 .. Len(longer) : FromList(i) BY <1>5, <1>10
  <2>8. KeysDistinct(longer) BY <1>5, <1>7 DEF KeysDistinct
  <2>7. ASSUME NEW j \in 1 .. Len(list), list[j].key # k
        PROVE  \E i \in 1 .. Len(longer) : longer[i] = list[j]
    <3>1. PICK i \in 1 .. n : rest[i] = list[j] BY <1>3, <2>7
    <3>2. i \in 1 .. Len(longer) BY <1>1, <1>5
    <3> QED BY <1>5, <3>1, <3>2
  <2> QED BY <1>5, <2>1, <2>2, <2>3, <2>5, <2>6, <2>7, <2>8 DEF StoredUpon, since1, new
<1>12. CASE Len(longer) > MaxAsyncResults
  <2> DEFINE short == Tail(longer)
  <2>1. Stored(list, k, status) = short BY <1>12 DEF Stored, longer, rest, new
  <2>2. n = MaxAsyncResults /\ n \in Nat \ {0}
    BY <1>0, <1>1, <1>5, <1>12, MaxAsyncResultsAssumption
  <2>3. /\ short \in Seq(Records) /\ Len(short) = n
        /\ \A i \in 1 .. n : short[i] = longer[i + 1]
    BY <1>5, <2>2, HeadTailProperties
  <2> HIDE DEF short
  <2>4. \A i \in 1 .. n : i + 1 \in 1 .. n + 1 BY <2>2
  <2>5. KeysDistinct(short)
    <3> SUFFICES ASSUME NEW i \in 1 .. n, NEW j \in 1 .. n, short[i].key = short[j].key
                 PROVE  i = j
      BY <2>3 DEF KeysDistinct
    <3>0. /\ short[i] = longer[i + 1] /\ i + 1 \in 1 .. n + 1
          /\ short[j] = longer[j + 1] /\ j + 1 \in 1 .. n + 1
      BY <2>3, <2>4
    <3>1. i + 1 = j + 1 BY <1>7, <3>0
    <3> QED BY <2>2, <3>1
  <2>6. InOrder(short, since1)
    <3> SUFFICES ASSUME NEW i \in 1 .. n, NEW j \in 1 .. n, i < j
                 PROVE  short[j].key \in since1[short[i].key]
      BY <2>3 DEF InOrder
    <3>1. i + 1 < j + 1 BY <2>2
    <3> QED BY <1>9, <2>3, <2>4, <3>1
  <2>7. short[n] = new BY <1>5, <2>2, <2>3
  <2>8. \A i \in 1 .. n :
          \/ short[i] = new
          \/ short[i].key # k /\ \E j \in 1 .. Len(list) : short[i] = list[j]
    BY <1>10, <2>3, <2>4
  <2>9. ASSUME NEW j \in 1 .. Len(list), list[j].key # k,
               ~ \E i \in 1 .. n : short[i] = list[j]
        PROVE  ~ (Cardinality(since1[list[j].key]) < MaxAsyncResults)
    <3>1. PICK i \in 1 .. n : rest[i] = list[j] BY <1>3, <2>9
    <3>2. i = 1
      <4> SUFFICES ASSUME i # 1 PROVE FALSE OBVIOUS
      <4>1. i - 1 \in 1 .. n /\ (i - 1) + 1 = i BY <2>2
      <4> QED BY <1>5, <2>3, <2>9, <3>1, <4>1
    <3> DEFINE key == list[j].key
               behind == [x \in 1 .. n |-> short[x].key]
    <3>3. longer[1].key = key /\ 1 \in 1 .. n + 1 /\ key \in Analysis
      BY <1>2, <1>5, <2>2, <3>1, <3>2
    <3>4. \A x \in 1 .. n : short[x].key \in since1[key]
      <4> SUFFICES ASSUME NEW x \in 1 .. n PROVE short[x].key \in since1[key] OBVIOUS
      <4>1. 1 < x + 1 BY <2>2
      <4> QED BY <1>9, <2>3, <2>4, <3>3, <4>1
    <3>5. behind \in Injection(1 .. n, since1[key])
      BY <2>3, <2>5, <3>4 DEF Injection, IsInjective, KeysDistinct
    <3>6. IsFiniteSet(since1[key])
      <4>1. since1[key] = later[key] \cup {k} BY <1>8, <2>9, <3>3
      <4>2. IsFiniteSet(later[key]) BY <3>3
      <4>3. IsFiniteSet(later[key] \cup {k}) BY <4>2, FS_AddElement
      <4> QED BY <4>1, <4>3
    <3> HIDE DEF behind, key
    <3>7. Cardinality(1 .. n) = n /\ IsFiniteSet(1 .. n) BY <2>2, FS_Interval
    <3>8. Cardinality(1 .. n) <= Cardinality(since1[key]) BY <3>5, <3>6, FS_Injection
    <3>9. Cardinality(since1[key]) \in Nat BY <3>6, FS_CardinalityType
    <3> QED BY <2>2, <3>7, <3>8, <3>9 DEF key
  <2>10. n \in 1 .. n BY <2>2
  <2>11. \E i \in 1 .. Len(short) : short[i] = new BY <2>3, <2>7, <2>10
  <2>12. Len(short) <= MaxAsyncResults BY <2>2, <2>3
  <2> QED BY <2>1, <2>3, <2>5, <2>6, <2>8, <2>9, <2>11, <2>12 DEF StoredUpon, since1, new
<1> QED BY <1>11, <1>12

------------------------------------------------------------------------------
\* The inductive invariant

\* A fetch that pauses has an attempt left.
PausedHasAttempt ==
  \A c \in Call : client[c].stage = "paused" => client[c].attempt < MaxRetries

CompleteRecorded ==
  \A i \in 1 .. Len(results) :
    task[results[i].key] = "complete" => results[i].status = "complete"

Kept(k) == \E i \in 1 .. Len(results) : results[i].key = k

RecentIsKept ==
  \A k \in Analysis :
    task[k] = "complete" /\ k \notin old /\ Cardinality(since[k]) < MaxAsyncResults => Kept(k)

\* The dictionary is in the order of the stores, so what a store drops has as
\* many later stores as there are records behind it.
ResultsInv ==
  /\ TypeOK
  /\ PausedHasAttempt
  /\ InOrder(results, since)
  /\ \A k \in Analysis : IsFiniteSet(since[k])
  /\ CompleteRecorded
  /\ RecentIsKept

LEMMA ResultsTyped ==
  ASSUME TypeOK
  PROVE  /\ results \in Seq(Records) /\ Len(results) \in Nat /\ DOMAIN results = 1 .. Len(results)
         /\ KeysDistinct(results)
         /\ \A i \in 1 .. Len(results) :
              results[i] \in Records /\ results[i].key \in Analysis
<1>1. results \in Seq(Records) BY DEF TypeOK
<1>2. /\ Len(results) \in Nat /\ DOMAIN results = 1 .. Len(results)
      /\ \A i \in 1 .. Len(results) : results[i] \in Records
  BY <1>1, LenProperties
<1>3. KeysDistinct(results) BY <1>2 DEF TypeOK, KeysDistinct
<1> QED BY <1>1, <1>2, <1>3 DEF Records

\* Cleaning drops what is too old, and keeps the analysis it spares.
LEMMA CleanedRecords ==
  ASSUME ResultsInv, NEW spared
  PROVE  LET list == Cleaned(results, spared) IN
         /\ list \in Seq(Records) /\ Len(list) \in Nat /\ Len(list) <= MaxAsyncResults
         /\ KeysDistinct(list) /\ InOrder(list, since)
         /\ \A i \in 1 .. Len(list) : \E j \in 1 .. Len(results) : list[i] = results[j]
         /\ \A j \in 1 .. Len(results) :
              results[j].key \notin old => \E i \in 1 .. Len(list) : list[i] = results[j]
<1> DEFINE kept == {record \in Records : record.key \in old => record.key \in spared}
           list == Keep(results, kept)
<1>1. Cleaned(results, spared) = list BY DEF Cleaned
<1>2. TypeOK /\ InOrder(results, since) BY DEF ResultsInv
<1>3. \A j \in 1 .. Len(results) : results[j].key \notin old => results[j] \in kept
  BY <1>2, ResultsTyped
<1>4. Len(results) \in Nat /\ Len(results) <= MaxAsyncResults
  BY <1>2, ResultsTyped DEF TypeOK
<1> HIDE DEF kept
<1>5. /\ list \in Seq(Records) /\ Len(list) \in Nat /\ Len(list) <= Len(results)
      /\ KeysDistinct(list) /\ InOrder(list, since)
      /\ \A i \in 1 .. Len(list) :
           list[i] \in kept /\ \E j \in 1 .. Len(results) : list[i] = results[j]
      /\ \A j \in 1 .. Len(results) :
           results[j] \in kept => \E i \in 1 .. Len(list) : list[i] = results[j]
  <2>1. results \in Seq(Records) /\ KeysDistinct(results) BY <1>2, ResultsTyped
  <2>2. InOrder(results, since) BY <1>2
  <2>3. list = Keep(results, kept) OBVIOUS
  <2> HIDE DEF list
  <2> QED BY <2>1, <2>2, <2>3, KeepRecords
<1> HIDE DEF list
<1>6. Len(list) <= MaxAsyncResults BY <1>4, <1>5, MaxAsyncResultsAssumption
<1> QED BY <1>1, <1>3, <1>5, <1>6

LEMMA InitResults == Init => ResultsInv
<1> SUFFICES ASSUME Init PROVE ResultsInv OBVIOUS
<1>1. results = << >> /\ Len(results) = 0 BY DEF Init
<1>2. \A k \in Analysis : k \in Call BY CallAssumption
<1>3. TypeOK
  <2>0. Idle \in [stage : {"idle", "sent", "paused"}, attempt : 0 .. MaxRetries]
    BY RetryAssumption DEF Idle
  <2>1. client \in [Call -> [stage : {"idle", "sent", "paused"}, attempt : 0 .. MaxRetries]]
    BY <2>0 DEF Init, NoFetches
  <2>2. \A k \in Analysis : client[k] = Idle /\ task[k] # "running"
    BY <1>2 DEF Init, NoFetches
  <2>3. results \in Seq(Records) /\ Len(results) <= MaxAsyncResults /\ DOMAIN results = {}
    BY <1>1, MaxAsyncResultsAssumption
  <2>4. /\ task \in [Analysis -> {"new", "running", "complete", "failed", "lost"}]
        /\ old \subseteq Analysis
        /\ since \in [Analysis -> SUBSET Analysis]
    BY DEF Init
  <2> QED BY <2>1, <2>2, <2>3, <2>4 DEF TypeOK
<1>4. PausedHasAttempt BY DEF Init, PausedHasAttempt, NoFetches, Idle
<1>5. InOrder(results, since) /\ CompleteRecorded
  BY <1>1 DEF InOrder, CompleteRecorded
<1>6. RecentIsKept BY DEF Init, RecentIsKept
<1>7. \A k \in Analysis : IsFiniteSet(since[k]) BY FS_EmptySet DEF Init
<1> QED BY <1>3, <1>4, <1>5, <1>6, <1>7 DEF ResultsInv

\* An analysis that has fewer stores behind it after a step had so before.
LEMMA SinceGrows ==
  ASSUME NEW S, NEW x, IsFiniteSet(S), Cardinality(S \cup {x}) < MaxAsyncResults
  PROVE  Cardinality(S) < MaxAsyncResults
<1>1. Cardinality(S) \in Nat BY FS_CardinalityType
<1>2. Cardinality(S \cup {x}) = IF x \in S THEN Cardinality(S) ELSE Cardinality(S) + 1
  BY FS_AddElement
<1> QED BY <1>1, <1>2, MaxAsyncResultsAssumption

\* What may be stored upon: the dictionary, or what cleaning leaves of it.
Cleanest(list) ==
  /\ list \in Seq(Records) /\ Len(list) <= MaxAsyncResults
  /\ KeysDistinct(list) /\ InOrder(list, since)
  /\ \A i \in 1 .. Len(list) : \E j \in 1 .. Len(results) : list[i] = results[j]
  /\ \A j \in 1 .. Len(results) :
       results[j].key \notin old => \E i \in 1 .. Len(list) : list[i] = results[j]

ListsTyped ==
  /\ results \in Seq(Records)
  /\ Len(results) <= MaxAsyncResults
  /\ \A i, j \in DOMAIN results : results[i].key = results[j].key => i = j
  /\ old \subseteq Analysis
  /\ since \in [Analysis -> SUBSET Analysis]

LEMMA StoreStep ==
  ASSUME ResultsInv, NEW list, Cleanest(list), NEW k \in Analysis,
         NEW status \in {"pending", "complete"}, Store(list, k, status),
         \A j \in Analysis : j # k => task'[j] = task[j],
         task'[k] = "complete" => status = "complete"
  PROVE  /\ ListsTyped' /\ InOrder(results, since)'
         /\ \A j \in Analysis : IsFiniteSet(since'[j])
         /\ CompleteRecorded' /\ RecentIsKept'
<1> DEFINE stored == Stored(list, k, status)
           since1 == StoredSince(since, k)
<1>1. results' = stored /\ since' = since1 /\ old' = old \ {k}
  BY DEF Store, StoredSince
<1>2. /\ TypeOK /\ since \in [Analysis -> SUBSET Analysis] /\ old \subseteq Analysis
      /\ \A j \in Analysis : IsFiniteSet(since[j])
  BY DEF ResultsInv, TypeOK
<1>3. StoredUpon(stored, list, since1, k, status)
  BY <1>2, StoredRecords DEF Cleanest
<1>4. \A j \in Analysis : since1[j] = IF j = k THEN {} ELSE since[j] \cup {k}
  BY DEF StoredSince
<1>5. since1 \in [Analysis -> SUBSET Analysis] BY <1>2 DEF StoredSince
<1> HIDE DEF stored, since1
<1>6. ListsTyped'
  <2>1. DOMAIN stored = 1 .. Len(stored) BY <1>3, LenProperties DEF StoredUpon
  <2> QED BY <1>1, <1>2, <1>3, <1>5, <2>1 DEF ListsTyped, KeysDistinct, StoredUpon
<1>7. InOrder(results, since)' BY <1>1, <1>3 DEF InOrder, StoredUpon
<1>8. ASSUME NEW j \in Analysis PROVE IsFiniteSet(since1[j])
  <2>1. IsFiniteSet(since[j] \cup {k}) /\ IsFiniteSet({})
    BY <1>2, FS_AddElement, FS_EmptySet
  <2> QED BY <1>4, <2>1
<1>9. CompleteRecorded'
  <2> SUFFICES ASSUME NEW i \in 1 .. Len(stored), task'[stored[i].key] = "complete"
               PROVE  stored[i].status = "complete"
    BY <1>1 DEF CompleteRecorded
  <2>1. CASE stored[i] = Record(k, status) BY <2>1 DEF Record
  <2>2. CASE stored[i].key # k /\ \E j \in 1 .. Len(list) : stored[i] = list[j]
    <3>1. PICK j \in 1 .. Len(results) : stored[i] = results[j] BY <2>2 DEF Cleanest
    <3>2. results[j].key \in Analysis BY <1>2, ResultsTyped
    <3>3. task[results[j].key] = "complete" BY <2>2, <3>1, <3>2
    <3> QED BY <3>1, <3>3 DEF ResultsInv, CompleteRecorded
  <2> QED BY <1>3, <2>1, <2>2 DEF StoredUpon
<1>10. RecentIsKept'
  <2> SUFFICES ASSUME NEW j \in Analysis, task'[j] = "complete", j \notin old \ {k},
                      Cardinality(since1[j]) < MaxAsyncResults
               PROVE  \E i \in 1 .. Len(stored) : stored[i].key = j
    BY <1>1 DEF RecentIsKept, Kept
  <2>1. CASE j = k BY <1>3, <2>1 DEF Record, StoredUpon
  <2>2. CASE j # k
    <3>1. task[j] = "complete" /\ j \notin old BY <2>2
    <3>2. since1[j] = since[j] \cup {k} BY <1>4, <2>2
    <3>3. IsFiniteSet(since[j]) BY <1>2
    <3>4. Cardinality(since[j]) < MaxAsyncResults BY <3>2, <3>3, SinceGrows
    <3>5. PICK x \in 1 .. Len(results) : results[x].key = j
      BY <3>1, <3>4 DEF ResultsInv, RecentIsKept, Kept
    <3>6. PICK y \in 1 .. Len(list) : list[y] = results[x] BY <3>1, <3>5 DEF Cleanest
    <3> QED BY <1>3, <2>2, <3>5, <3>6 DEF StoredUpon
  <2> QED BY <2>1, <2>2
<1> QED BY <1>1, <1>6, <1>7, <1>8, <1>9, <1>10

------------------------------------------------------------------------------
\* Steps of the client

ClientTyped ==
  /\ client \in [Call -> [stage : {"idle", "sent", "paused"}, attempt : 0 .. MaxRetries]]
  /\ PausedHasAttempt

\* Only the fetch of c changes, and whether it is under way.
FetchStep(c) ==
  /\ ClientTyped'
  /\ \A d \in Call : d # c => client'[d] = client[d]

LEMMA FetchGraphStep ==
  ASSUME ClientTyped, NEW c \in Call, FetchGraph(c)
  PROVE  FetchStep(c) /\ client'[c] # Idle
<1> DEFINE sent == [stage |-> "sent", attempt |-> 1]
<1>1. client' = [client EXCEPT ![c] = sent] BY DEF FetchGraph
<1>2. /\ sent \in [stage : {"idle", "sent", "paused"}, attempt : 0 .. MaxRetries]
      /\ sent.stage = "sent" /\ sent # Idle
  BY RetryAssumption DEF Idle
<1> HIDE DEF sent
<1> QED BY <1>1, <1>2 DEF ClientTyped, PausedHasAttempt, FetchStep

LEMMA FetchGraphEndsStep ==
  ASSUME ClientTyped, NEW c \in Call, FetchGraphEnds(c)
  PROVE  FetchStep(c) /\ client'[c] = Idle /\ client[c] # Idle
<1>1. client' = [client EXCEPT ![c] = Idle] /\ client[c].stage = "sent"
  BY DEF FetchGraphEnds
<1>2. /\ Idle \in [stage : {"idle", "sent", "paused"}, attempt : 0 .. MaxRetries]
      /\ Idle.stage = "idle"
  BY RetryAssumption DEF Idle
<1> QED BY <1>1, <1>2 DEF ClientTyped, PausedHasAttempt, FetchStep

\* The attempts are counted: none is made after the last.
LEMMA RetriesStep ==
  ASSUME ClientTyped, NEW c \in Call, Retries(c)
  PROVE  FetchStep(c) /\ client'[c] # Idle /\ client[c] # Idle
<1> DEFINE paused == [client[c] EXCEPT !.stage = "paused"]
           sent == [stage |-> "sent", attempt |-> client[c].attempt + 1]
           Fetch == [stage : {"idle", "sent", "paused"}, attempt : 0 .. MaxRetries]
<1>1. client[c] \in Fetch BY DEF ClientTyped
<1>2. CASE AttemptFails(c)
  <2>1. client' = [client EXCEPT ![c] = paused] /\ client[c].stage = "sent"
    BY <1>2 DEF AttemptFails
  <2>2. paused \in Fetch /\ paused.stage = "paused" /\ paused.attempt = client[c].attempt
    BY <1>1
  <2>3. paused.attempt < MaxRetries
    BY <1>1, <1>2, <2>2, RetryAssumption DEF AttemptFails, StopAfterAttempt
  <2>4. client[c] # Idle /\ paused # Idle BY <2>1, <2>2 DEF Idle
  <2> HIDE DEF paused
  <2> QED BY <2>1, <2>2, <2>3, <2>4 DEF ClientTyped, PausedHasAttempt, FetchStep
<1>3. CASE NextAttempt(c)
  <2>1. client' = [client EXCEPT ![c] = sent] /\ client[c].stage = "paused"
    BY <1>3 DEF NextAttempt, Counted, ClientTyped
  <2>2. client[c].attempt < MaxRetries BY <2>1 DEF ClientTyped, PausedHasAttempt
  <2>3. sent \in Fetch /\ sent.stage = "sent" BY <1>1, <2>2, RetryAssumption
  <2>4. client[c] # Idle /\ sent # Idle BY <2>1, <2>3 DEF Idle
  <2> HIDE DEF sent
  <2> QED BY <2>1, <2>3, <2>4 DEF ClientTyped, PausedHasAttempt, FetchStep
<1> QED BY <1>2, <1>3 DEF Retries

\* A step of a fetch that keeps the task in step with it.
LEMMA RunningStep ==
  ASSUME TypeOK, NEW c \in Call, FetchStep(c),
         \A j \in Analysis : j # c => task'[j] = task[j],
         c \in Analysis => (task'[c] = "running" <=> client'[c] # Idle)
  PROVE  \A j \in Analysis : task'[j] = "running" <=> client'[j] # Idle
BY CallAssumption DEF TypeOK, FetchStep

------------------------------------------------------------------------------
\* Every step keeps the invariant

LEMMA RestartInv == ResultsInv /\ Restart => ResultsInv'
<1> SUFFICES ASSUME ResultsInv, Restart PROVE ResultsInv' OBVIOUS
<1>1. results' = << >> /\ Len(results') = 0 BY DEF Restart
<1>2. task \in [Analysis -> {"new", "running", "complete", "failed", "lost"}]
  BY DEF ResultsInv, TypeOK
<1>3. /\ task' \in [Analysis -> {"new", "running", "complete", "failed", "lost"}]
      /\ \A k \in Analysis : task'[k] \in {"new", "lost"}
      /\ old' \subseteq Analysis
      /\ since' \in [Analysis -> SUBSET Analysis]
  BY <1>2 DEF Restart
<1>4. Idle \in [stage : {"idle", "sent", "paused"}, attempt : 0 .. MaxRetries]
  BY RetryAssumption DEF Idle
<1>5. /\ client' \in [Call -> [stage : {"idle", "sent", "paused"}, attempt : 0 .. MaxRetries]]
      /\ \A c \in Call : client'[c] = Idle
  BY <1>4 DEF Restart, NoFetches
<1>6. \A k \in Analysis : task'[k] # "running" /\ client'[k] = Idle
  BY <1>3, <1>5, CallAssumption
<1>7. results' \in Seq(Records) /\ Len(results') <= MaxAsyncResults /\ DOMAIN results' = {}
  BY <1>1, MaxAsyncResultsAssumption
<1>8. TypeOK' BY <1>3, <1>5, <1>6, <1>7 DEF TypeOK
<1>9. PausedHasAttempt' BY <1>5 DEF PausedHasAttempt, Idle
<1>10. InOrder(results, since)' /\ CompleteRecorded'
  BY <1>1 DEF InOrder, CompleteRecorded
<1>11. RecentIsKept' BY <1>3 DEF RecentIsKept
<1>12. \A k \in Analysis : IsFiniteSet(since'[k]) BY FS_EmptySet DEF Restart
<1> QED BY <1>8, <1>9, <1>10, <1>11, <1>12 DEF ResultsInv

\* A step of the dictionary and one of a fetch make a step of both.
LEMMA Together ==
  ASSUME ResultsInv, ClientTyped', ListsTyped', InOrder(results, since)',
         \A j \in Analysis : IsFiniteSet(since'[j]), CompleteRecorded', RecentIsKept',
         \A j \in Analysis : task'[j] = "running" <=> client'[j] # Idle,
         task' \in [Analysis -> {"new", "running", "complete", "failed", "lost"}]
  PROVE  ResultsInv'
BY DEF ResultsInv, ClientTyped, ListsTyped, TypeOK

LEMMA RunAsyncInv ==
  ASSUME ResultsInv, NEW k \in Analysis, RunImpactAnalysisAsync(k) PROVE ResultsInv'
<1>1. TypeOK /\ ClientTyped /\ k \in Call
  BY CallAssumption DEF ResultsInv, TypeOK, ClientTyped
<1>2. task' = [task EXCEPT ![k] = "running"]
      /\ task \in [Analysis -> {"new", "running", "complete", "failed", "lost"}]
  BY <1>1 DEF RunImpactAnalysisAsync, TypeOK
<1>3. FetchStep(k) /\ client'[k] # Idle
  BY <1>1, FetchGraphStep DEF RunImpactAnalysisAsync
<1>4. \A j \in Analysis : task'[j] = "running" <=> client'[j] # Idle
  BY <1>1, <1>2, <1>3, RunningStep
<1>5. Cleanest(Cleaned(results, {})) BY CleanedRecords DEF Cleanest
<1>6. Store(Cleaned(results, {}), k, "pending") BY DEF RunImpactAnalysisAsync
<1>7. /\ ListsTyped' /\ InOrder(results, since)'
      /\ \A j \in Analysis : IsFiniteSet(since'[j])
      /\ CompleteRecorded' /\ RecentIsKept'
  BY <1>2, <1>5, <1>6, StoreStep
<1>8. ClientTyped' BY <1>3 DEF FetchStep
<1>9. task' \in [Analysis -> {"new", "running", "complete", "failed", "lost"}] BY <1>2
<1> QED BY <1>4, <1>7, <1>8, <1>9, Together

LEMMA RunAnalysisInv ==
  ASSUME ResultsInv, NEW k \in Analysis, RunAnalysis(k) PROVE ResultsInv'
<1>1. TypeOK /\ ClientTyped /\ k \in Call
  BY CallAssumption DEF ResultsInv, TypeOK, ClientTyped
<1>2. task' = [task EXCEPT ![k] = "complete"]
      /\ task \in [Analysis -> {"new", "running", "complete", "failed", "lost"}]
  BY <1>1 DEF RunAnalysis, TypeOK
<1>3. FetchStep(k) /\ client'[k] = Idle
  BY <1>1, FetchGraphEndsStep DEF RunAnalysis
<1>4. \A j \in Analysis : task'[j] = "running" <=> client'[j] # Idle
  BY <1>1, <1>2, <1>3, RunningStep
<1>5. Cleanest(results)
  <2>1. InOrder(results, since) /\ Len(results) <= MaxAsyncResults
    BY DEF ResultsInv, TypeOK
  <2> QED BY <1>1, <2>1, ResultsTyped DEF Cleanest
<1>6. Store(results, k, "complete") BY DEF RunAnalysis
<1>7. /\ ListsTyped' /\ InOrder(results, since)'
      /\ \A j \in Analysis : IsFiniteSet(since'[j])
      /\ CompleteRecorded' /\ RecentIsKept'
  BY <1>2, <1>5, <1>6, StoreStep
<1>8. ClientTyped' BY <1>3 DEF FetchStep
<1>9. task' \in [Analysis -> {"new", "running", "complete", "failed", "lost"}] BY <1>2
<1> QED BY <1>4, <1>7, <1>8, <1>9, Together

\* A step that leaves the dictionary alone and completes no analysis.
LEMMA SameRecords ==
  ASSUME ResultsInv, UNCHANGED <<results, since>>, old \subseteq old', old' \subseteq Analysis,
         \A j \in Analysis : task'[j] = "complete" => task[j] = "complete"
  PROVE  /\ ListsTyped' /\ InOrder(results, since)'
         /\ \A j \in Analysis : IsFiniteSet(since'[j])
         /\ CompleteRecorded' /\ RecentIsKept'
<1>1. TypeOK BY DEF ResultsInv
<1>2. ListsTyped' BY <1>1 DEF ListsTyped, TypeOK
<1>3. InOrder(results, since)' BY DEF ResultsInv, InOrder
<1>4. \A j \in Analysis : IsFiniteSet(since'[j]) BY DEF ResultsInv
<1>5. CompleteRecorded' BY <1>1, ResultsTyped DEF ResultsInv, CompleteRecorded
<1>6. RecentIsKept' BY DEF ResultsInv, RecentIsKept, Kept
<1> QED BY <1>2, <1>3, <1>4, <1>5, <1>6

LEMMA RunAnalysisRaisesInv ==
  ASSUME ResultsInv, NEW k \in Analysis, RunAnalysisRaises(k) PROVE ResultsInv'
<1>1. TypeOK /\ ClientTyped /\ k \in Call
  BY CallAssumption DEF ResultsInv, TypeOK, ClientTyped
<1>2. task' = [task EXCEPT ![k] = "failed"]
      /\ task \in [Analysis -> {"new", "running", "complete", "failed", "lost"}]
  BY <1>1 DEF RunAnalysisRaises, TypeOK
<1>3. FetchStep(k) /\ client'[k] = Idle
  BY <1>1, FetchGraphEndsStep DEF RunAnalysisRaises
<1>4. \A j \in Analysis : task'[j] = "running" <=> client'[j] # Idle
  BY <1>1, <1>2, <1>3, RunningStep
<1>5. /\ UNCHANGED <<results, since>> /\ old' = old /\ old \subseteq Analysis
      /\ \A j \in Analysis : task'[j] = "complete" => task[j] = "complete"
  BY <1>1, <1>2 DEF RunAnalysisRaises, TypeOK
<1>6. ClientTyped' BY <1>3 DEF FetchStep
<1>7. task' \in [Analysis -> {"new", "running", "complete", "failed", "lost"}] BY <1>2
<1> QED BY <1>4, <1>5, <1>6, <1>7, SameRecords, Together

\* A fetch that goes on, or one whose answer is not recorded.
LEMMA FetchOnlyInv ==
  ASSUME ResultsInv, UNCHANGED records, NEW c \in Call, FetchStep(c),
         c \in Analysis => client[c] # Idle /\ client'[c] # Idle
  PROVE  ResultsInv'
<1>1. TypeOK BY DEF ResultsInv
<1>2. UNCHANGED <<results, task, old, since>> BY DEF records
<1>3. \A j \in Analysis : task'[j] = "running" <=> client'[j] # Idle
  BY <1>1, <1>2, CallAssumption DEF TypeOK, FetchStep
<1>4. /\ old' = old /\ old \subseteq Analysis
      /\ \A j \in Analysis : task'[j] = "complete" => task[j] = "complete"
  BY <1>1, <1>2 DEF TypeOK
<1>5. ClientTyped' BY DEF FetchStep
<1>6. task' \in [Analysis -> {"new", "running", "complete", "failed", "lost"}]
  BY <1>1, <1>2 DEF TypeOK
<1> QED BY <1>2, <1>3, <1>4, <1>5, <1>6, SameRecords, Together

LEMMA AgeInv ==
  ASSUME ResultsInv, NEW k \in Analysis, Age(k) PROVE ResultsInv'
<1>1. TypeOK /\ ClientTyped BY DEF ResultsInv, TypeOK, ClientTyped
<1>2. UNCHANGED <<client, results, task, since>> /\ old' = old \cup {k} BY DEF Age
<1>3. /\ old' \subseteq Analysis
      /\ task' \in [Analysis -> {"new", "running", "complete", "failed", "lost"}]
      /\ \A j \in Analysis : task'[j] = "running" <=> client'[j] # Idle
  BY <1>1, <1>2 DEF TypeOK
<1>4. ClientTyped' BY <1>1, <1>2 DEF ClientTyped, PausedHasAttempt
<1> QED BY <1>2, <1>3, <1>4, SameRecords, Together

\* A poll takes away what is too old, and nothing else.
LEMMA GetAsyncResultInv ==
  ASSUME ResultsInv, NEW k \in Analysis, GetAsyncResult(k) PROVE ResultsInv'
<1>1. TypeOK /\ ClientTyped BY DEF ResultsInv, TypeOK, ClientTyped
<1>2. UNCHANGED <<client, task, old, since>> BY DEF GetAsyncResult
<1> DEFINE clean == Cleaned(results, {k})
<1>3. Cleanest(clean) BY CleanedRecords DEF Cleanest
<1>4. Cleanest(results')
  <2>1. CASE results' = clean BY <1>3, <2>1
  <2>2. CASE PollAnswer(k) = "404" /\ results' = Others(clean, k)
    <3> DEFINE kept == {record \in Records : record.key # k}
               short == Keep(clean, kept)
    <3>1. results' = short BY <2>2 DEF Others
    <3>2. k \in old BY <2>2 DEF PollAnswer
    <3>3. /\ clean \in Seq(Records) /\ Len(clean) <= MaxAsyncResults
          /\ KeysDistinct(clean) /\ InOrder(clean, since)
          /\ \A i \in 1 .. Len(clean) : \E j \in 1 .. Len(results) : clean[i] = results[j]
          /\ \A j \in 1 .. Len(results) :
               results[j].key \notin old => \E i \in 1 .. Len(clean) : clean[i] = results[j]
      BY <1>3 DEF Cleanest
    <3> HIDE DEF clean
    <3>4. Len(clean) \in Nat /\ \A i \in 1 .. Len(clean) : clean[i] \in Records
      BY <3>3, LenProperties
    <3>5. \A i \in 1 .. Len(clean) : clean[i].key # k => clean[i] \in kept BY <3>4
    <3> HIDE DEF kept
    <3>6. /\ short \in Seq(Records)
          /\ Len(short) \in Nat /\ Len(short) <= Len(clean)
          /\ KeysDistinct(short) /\ InOrder(short, since)
          /\ \A i \in 1 .. Len(short) :
               short[i] \in kept /\ \E j \in 1 .. Len(clean) : short[i] = clean[j]
          /\ \A j \in 1 .. Len(clean) :
               clean[j] \in kept => \E i \in 1 .. Len(short) : short[i] = clean[j]
      <4>1. short = Keep(clean, kept) OBVIOUS
      <4> HIDE DEF short
      <4>2. clean \in Seq(Records) /\ KeysDistinct(clean) /\ InOrder(clean, since)
        BY <3>3
      <4> QED BY <4>1, <4>2, KeepRecords
    <3> HIDE DEF short
    <3>7. Len(short) <= MaxAsyncResults BY <3>3, <3>4, <3>6, MaxAsyncResultsAssumption
    <3>8. ASSUME NEW j \in 1 .. Len(results), results[j].key \notin old
          PROVE  \E i \in 1 .. Len(short) : short[i] = results[j]
      <4>1. PICK x \in 1 .. Len(clean) : clean[x] = results[j] BY <3>3, <3>8
      <4>2. results[j].key # k BY <3>2, <3>8
      <4>3. clean[x] \in kept BY <3>5, <4>1, <4>2
      <4> QED BY <3>6, <4>1, <4>3
    <3>9. \A i \in 1 .. Len(short) : \E j \in 1 .. Len(results) : short[i] = results[j]
      BY <3>3, <3>6
    <3> QED BY <3>1, <3>3, <3>6, <3>7, <3>8, <3>9 DEF Cleanest
  <2> QED BY <2>1, <2>2 DEF GetAsyncResult
<1>5. ListsTyped'
  <2>1. DOMAIN results' = 1 .. Len(results') BY <1>4, LenProperties DEF Cleanest
  <2> QED BY <1>1, <1>2, <1>4, <2>1 DEF ListsTyped, Cleanest, KeysDistinct, TypeOK
<1>6. InOrder(results, since)' BY <1>2, <1>4 DEF InOrder, Cleanest
<1>7. \A j \in Analysis : IsFiniteSet(since'[j]) BY <1>2 DEF ResultsInv
<1>8. CompleteRecorded' BY <1>2, <1>4 DEF ResultsInv, CompleteRecorded, Cleanest
<1>9. RecentIsKept'
  <2> SUFFICES ASSUME NEW j \in Analysis, task[j] = "complete", j \notin old,
                      Cardinality(since[j]) < MaxAsyncResults
               PROVE  \E i \in 1 .. Len(results') : results'[i].key = j
    BY <1>2 DEF RecentIsKept, Kept
  <2>1. PICK x \in 1 .. Len(results) : results[x].key = j
    BY DEF ResultsInv, RecentIsKept, Kept
  <2> QED BY <1>4, <2>1 DEF Cleanest
<1>10. ClientTyped' BY <1>1, <1>2 DEF ClientTyped, PausedHasAttempt
<1>11. /\ task' \in [Analysis -> {"new", "running", "complete", "failed", "lost"}]
       /\ \A j \in Analysis : task'[j] = "running" <=> client'[j] # Idle
  BY <1>1, <1>2 DEF TypeOK
<1> QED BY <1>5, <1>6, <1>7, <1>8, <1>9, <1>10, <1>11, Together

LEMMA StepResults == ResultsInv /\ [Next]_vars => ResultsInv'
<1> SUFFICES ASSUME ResultsInv, [Next]_vars PROVE ResultsInv' OBVIOUS
<1>0. ClientTyped /\ Analysis \subseteq Call /\ Direct \subseteq Call
      /\ Analysis \cap Direct = {}
  BY CallAssumption DEF ResultsInv, TypeOK, ClientTyped
<1>1. ASSUME NEW d \in Direct, RunDirectly(d) PROVE ResultsInv'
  <2>1. FetchStep(d) BY <1>0, <1>1, FetchGraphStep, FetchGraphEndsStep DEF RunDirectly
  <2> QED BY <1>0, <1>1, <2>1, FetchOnlyInv DEF RunDirectly
<1>2. ASSUME NEW c \in Call, Retry(c) PROVE ResultsInv'
  BY <1>0, <1>2, RetriesStep, FetchOnlyInv DEF Retry
<1>3. CASE UNCHANGED vars
  <2>1. UNCHANGED <<client, results, task, old, since>> BY <1>3 DEF vars, records
  <2> QED
    BY <2>1 DEF ResultsInv, TypeOK, PausedHasAttempt, InOrder, CompleteRecorded,
                RecentIsKept, Kept
<1> QED
  BY <1>1, <1>2, <1>3, RunAsyncInv, RunAnalysisInv, RunAnalysisRaisesInv,
     GetAsyncResultInv, AgeInv, RestartInv
  DEF Next

------------------------------------------------------------------------------
\* The theorems

\* The records of the dictionary have different keys and stay within its size,
\* and a task runs exactly while its fetch does, whose attempts are bounded.
THEOREM ResultsTypeCorrect == Spec => []TypeOK
<1>1. ResultsInv => TypeOK BY DEF ResultsInv
<1> QED BY <1>1, InitResults, StepResults, PTL DEF Spec

LEMMA KeptIsFound == ResultsInv => RecentResultIsKept
<1> SUFFICES ASSUME ResultsInv, NEW k \in Analysis, task[k] = "complete", k \notin old,
                    Cardinality(since[k]) < MaxAsyncResults
             PROVE  Record(k, "complete") \in Found(k)
  BY DEF RecentResultIsKept
<1>1. PICK i \in 1 .. Len(results) : results[i].key = k
  BY DEF ResultsInv, RecentIsKept, Kept
<1>2. results[i].status = "complete" BY <1>1 DEF ResultsInv, CompleteRecorded
<1>3. results[i] \in Records /\ i \in DOMAIN results
  BY ResultsTyped DEF ResultsInv
<1>4. results[i] = Record(k, "complete") BY <1>1, <1>2, <1>3 DEF Records, Record
<1> QED BY <1>3, <1>4 DEF Found

\* However stores, polls and expiries interleave, a completed analysis that is
\* young and has fewer stores behind it than the dictionary holds is answered.
THEOREM RecentResultsAreKept == Spec => []RecentResultIsKept
BY KeptIsFound, InitResults, StepResults, PTL DEF Spec
==============================================================================
