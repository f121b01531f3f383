----------------------------- MODULE ListsProofs -----------------------------
(***************************************************************************)
(* Facts about lists that the proofs of several components need.  The      *)
(* induction theorems of the library take a predicate, which the provers   *)
(* cannot give them; here a property of numbers is the set of those that   *)
(* have it, and induction follows from the least element of a set.         *)
(***************************************************************************)
EXTENDS Lists, SequencesExt, FiniteSetTheorems, SequenceTheorems,
        WellFoundedInduction, TLAPS

------------------------------------------------------------------------------
\* Induction

LEMMA LeastOfSet ==
  ASSUME NEW S \in SUBSET Nat, NEW x \in S
  PROVE  \E m \in S : \A n \in S : ~ (n < m)
<1> DEFINE R == {pair \in Nat \X Nat : pair[1] < pair[2]}
<1>1. IsWellFoundedOn(R, Nat) BY NatLessThanWellFounded DEF OpToRel
<1>2. \E m \in S : \A n \in S : ~ (<<n, m>> \in R) BY <1>1, WFMin
<1> QED BY <1>2

\* A set that has zero, and with a number the next one, has all numbers.
LEMMA NatBySteps ==
  ASSUME NEW S, 0 \in S, \A n \in Nat : n \in S => n + 1 \in S
  PROVE  Nat \subseteq S
<1> SUFFICES ASSUME NEW k \in Nat, k \notin S PROVE FALSE OBVIOUS
<1> DEFINE missing == {n \in Nat : n \notin S}
<1>1. PICK m \in missing : \A n \in missing : ~ (n < m) BY LeastOfSet
<1>2. m # 0 /\ m - 1 \in Nat OBVIOUS
<1>3. m - 1 \in S BY <1>1, <1>2
<1> QED BY <1>2, <1>3

------------------------------------------------------------------------------
\* The elements of a set, in some order

LEMMA FiniteImage ==
  ASSUME NEW S, IsFiniteSet(S), NEW f
  PROVE  IsFiniteSet({f[x] : x \in S})
<1> DEFINE T == {f[x] : x \in S}
           g == [x \in S |-> f[x]]
<1>1. g \in Surjection(S, T) BY DEF Surjection
<1> HIDE DEF g
<1> QED BY <1>1, FS_Surjection

LEMMA SetToSeqLists ==
  ASSUME NEW S, IsFiniteSet(S)
  PROVE  /\ SetToSeq(S) \in Seq(S)
         /\ Len(SetToSeq(S)) \in Nat
         /\ \A x \in S : \E i \in 1 .. Len(SetToSeq(S)) : SetToSeq(S)[i] = x
         /\ \A i \in 1 .. Len(SetToSeq(S)) : SetToSeq(S)[i] \in S
<1> DEFINE n == Cardinality(S)
<1>1. n \in Nat BY FS_CardinalityType
<1>2. PICK f : f \in Bijection(1 .. n, S)
  BY FS_CardinalityType DEF ExistsBijection
<1>3. f \in [1 .. n -> S] /\ IsInjective(f)
  BY <1>2 DEF Bijection, Injection, IsInjective
<1>4. SetToSeq(S) \in [1 .. n -> S] /\ IsInjective(SetToSeq(S))
  BY <1>3 DEF SetToSeq
<1>5. SetToSeq(S) \in Injection(1 .. n, S)
  BY <1>4 DEF Injection, IsInjective
<1>6. IsFiniteSet(1 .. n) /\ Cardinality(1 .. n) = n BY <1>1, FS_Interval
<1>7. SetToSeq(S) \in Surjection(1 .. n, S) BY <1>5, <1>6, FS_Injection
<1>8. SetToSeq(S) \in Seq(S) /\ Len(SetToSeq(S)) = n BY <1>1, <1>4
<1> QED BY <1>1, <1>4, <1>7, <1>8 DEF Surjection

\* SetToSeq names every element of a set once.
LEMMA SetToSeqElements ==
  ASSUME NEW S, IsFiniteSet(S)
  PROVE  IsInjective(SetToSeq(S)) /\ ToSet(SetToSeq(S)) = S
<1> DEFINE n == Cardinality(S)
<1>1. n \in Nat BY FS_CardinalityType
<1>2. PICK f : f \in Bijection(1 .. n, S) BY FS_CardinalityType DEF ExistsBijection
<1>3. f \in [1 .. n -> S] /\ IsInjective(f) BY <1>2 DEF Bijection, Injection, IsInjective
<1>4. IsInjective(SetToSeq(S)) BY <1>3 DEF SetToSeq
<1>5. /\ SetToSeq(S) \in Seq(S)
      /\ \A x \in S : \E i \in 1 .. Len(SetToSeq(S)) : SetToSeq(S)[i] = x
      /\ \A i \in 1 .. Len(SetToSeq(S)) : SetToSeq(S)[i] \in S
  BY SetToSeqLists
<1>6. DOMAIN SetToSeq(S) = 1 .. Len(SetToSeq(S)) BY <1>5, LenProperties
<1>7. ToSet(SetToSeq(S)) = S BY <1>5, <1>6 DEF ToSet
<1> QED BY <1>4, <1>7

------------------------------------------------------------------------------
\* One list after another

LEMMA SeqInLarger ==
  ASSUME NEW S, NEW T, S \subseteq T, NEW s \in Seq(S)
  PROVE  s \in Seq(T)
<1>1. Len(s) \in Nat /\ s \in [1 .. Len(s) -> S] BY LenProperties
<1>2. s \in [1 .. Len(s) -> T] BY <1>1
<1> QED BY <1>1, <1>2

LEMMA ConcatLists ==
  ASSUME NEW S, NEW T, NEW s \in Seq(S), NEW t \in Seq(T)
  PROVE  /\ Len(s) \in Nat /\ Len(t) \in Nat
         /\ Len(s \o t) = Len(s) + Len(t)
         /\ \A i \in 1 .. Len(s) : (s \o t)[i] = s[i]
         /\ \A i \in 1 .. Len(t) : (s \o t)[Len(s) + i] = t[i]
         /\ \A i \in 1 .. Len(s \o t) :
              i \in 1 .. Len(s) \/ \E k \in 1 .. Len(t) : i = Len(s) + k
<1>1. s \in Seq(S \cup T) /\ t \in Seq(S \cup T) BY SeqInLarger
<1>2. Len(s) \in Nat /\ Len(t) \in Nat BY LenProperties
<1>3. /\ Len(s \o t) = Len(s) + Len(t)
      /\ \A i \in 1 .. Len(s) + Len(t) :
           (s \o t)[i] = IF i <= Len(s) THEN s[i] ELSE t[i - Len(s)]
  BY <1>1, ConcatProperties
<1>4. \A i \in 1 .. Len(s) : (s \o t)[i] = s[i] BY <1>2, <1>3
<1>5. ASSUME NEW i \in 1 .. Len(t) PROVE (s \o t)[Len(s) + i] = t[i]
  <2>1. /\ Len(s) + i \in 1 .. Len(s) + Len(t) /\ ~ (Len(s) + i <= Len(s))
        /\ (Len(s) + i) - Len(s) = i
    BY <1>2
  <2> QED BY <1>3, <2>1
<1>6. ASSUME NEW i \in 1 .. Len(s) + Len(t), i \notin 1 .. Len(s)
      PROVE  \E k \in 1 .. Len(t) : i = Len(s) + k
  <2>1. i - Len(s) \in 1 .. Len(t) /\ i = Len(s) + (i - Len(s)) BY <1>2, <1>6
  <2> QED BY <2>1
<1> QED BY <1>2, <1>3, <1>4, <1>5, <1>6

\* Splicing an element out moves those behind it one place ahead.
LEMMA WithoutList ==
  ASSUME NEW S, NEW list \in Seq(S), NEW i \in 1 .. Len(list)
  PROVE  /\ Without(list, i) \in Seq(S)
         /\ Len(Without(list, i)) = Len(list) - 1
         /\ \A j \in 1 .. i - 1 : Without(list, i)[j] = list[j]
         /\ \A j \in i .. Len(list) - 1 : Without(list, i)[j] = list[j + 1]
<1> DEFINE n == Len(list)
           ahead == SubSeq(list, 1, i - 1)
           behind == SubSeq(list, i + 1, n)
<1>1. n \in Nat /\ i \in 1 .. n BY LenProperties
<1>2. \A j \in 1 .. n : list[j] \in S BY LenProperties
<1> HIDE DEF n
<1>3. /\ ahead \in Seq(S) /\ Len(ahead) = i - 1
      /\ \A j \in 1 .. i - 1 : ahead[j] = list[j]
  <2>1. 1 \in Int /\ i - 1 \in Int /\ \A j \in 1 .. i - 1 : list[j] \in S BY <1>1, <1>2
  <2>2. /\ ahead \in Seq(S)
        /\ Len(ahead) = IF 1 <= i - 1 THEN (i - 1) - 1 + 1 ELSE 0
        /\ \A j \in 1 .. (i - 1) - 1 + 1 : ahead[j] = list[1 + j - 1]
    BY <2>1, SubSeqProperties
  <2> HIDE DEF ahead
  <2> QED BY <1>1, <2>2
<1>4. /\ behind \in Seq(S) /\ Len(behind) = n - i
      /\ \A j \in 1 .. n - i : behind[j] = list[i + j]
  <2>1. i + 1 \in Int /\ n \in Int /\ \A j \in i + 1 .. n : list[j] \in S BY <1>1, <1>2
  <2>2. /\ behind \in Seq(S)
        /\ Len(behind) = IF i + 1 <= n THEN n - (i + 1) + 1 ELSE 0
        /\ \A j \in 1 .. n - (i + 1) + 1 : behind[j] = list[(i + 1) + j - 1]
    BY <2>1, SubSeqProperties
  <2> HIDE DEF behind
  <2> QED BY <1>1, <2>2
<1>5. Without(list, i) = ahead \o behind BY DEF Without, n
<1> HIDE DEF ahead, behind
<1>6. /\ ahead \o behind \in Seq(S)
      /\ Len(ahead \o behind) = (i - 1) + (n - i)
      /\ \A j \in 1 .. (i - 1) + (n - i) :
           (ahead \o behind)[j] = IF j <= i - 1 THEN ahead[j] ELSE behind[j - (i - 1)]
  <2>1. /\ ahead \o behind \in Seq(S)
        /\ Len(ahead \o behind) = Len(ahead) + Len(behind)
        /\ \A j \in 1 .. Len(ahead) + Len(behind) :
             (ahead \o behind)[j] = IF j <= Len(ahead) THEN ahead[j] ELSE behind[j - Len(ahead)]
    BY <1>3, <1>4, ConcatProperties, Zenon
  <2> DEFINE joined == ahead \o behind
  <2> HIDE DEF joined
  <2>2. /\ joined \in Seq(S)
        /\ Len(joined) = (i - 1) + (n - i)
        /\ \A j \in 1 .. (i - 1) + (n - i) :
             joined[j] = IF j <= i - 1 THEN ahead[j] ELSE behind[j - (i - 1)]
    BY <1>3, <1>4, <2>1 DEF joined
  <2> QED BY <2>2 DEF joined
<1>7. (i - 1) + (n - i) = n - 1 BY <1>1
<1>8. \A j \in 1 .. i - 1 : (ahead \o behind)[j] = list[j]
  <2> SUFFICES ASSUME NEW j \in 1 .. i - 1 PROVE (ahead \o behind)[j] = list[j] OBVIOUS
  <2>1. j \in 1 .. (i - 1) + (n - i) /\ j <= i - 1 BY <1>1
  <2> QED BY <1>3, <1>6, <2>1
<1>9. \A j \in i .. n - 1 : (ahead \o behind)[j] = list[j + 1]
  <2> SUFFICES ASSUME NEW j \in i .. n - 1 PROVE (ahead \o behind)[j] = list[j + 1] OBVIOUS
  <2>1. /\ j \in 1 .. (i - 1) + (n - i) /\ ~ (j <= i - 1)
        /\ j - (i - 1) \in 1 .. n - i /\ i + (j - (i - 1)) = j + 1
    BY <1>1
  <2> QED BY <1>4, <1>6, <2>1
<1> QED BY <1>5, <1>6, <1>7, <1>8, <1>9 DEF n

------------------------------------------------------------------------------
\* Recursive functions

\* What takes a step from a value in S at each number.
StepsIn(S) == [Nat -> [S -> S]]

\* The first values of a function that starts at first and takes step[i] from
\* its value at i.
Starts(f, n, S, first, step) ==
  /\ f \in [0 .. n -> S]
  /\ f[0] = first
  /\ \A i \in 0 .. n - 1 : f[i + 1] = step[i][f[i]]

LEMMA StartsAgree ==
  ASSUME NEW S, NEW first, NEW step, NEW m \in Nat, NEW n \in Nat,
         NEW f, Starts(f, m, S, first, step), NEW g, Starts(g, n, S, first, step)
  PROVE  \A i \in Nat : i <= m /\ i <= n => f[i] = g[i]
<1> DEFINE same == {i \in Nat : i <= m /\ i <= n => f[i] = g[i]}
<1>1. 0 \in same BY DEF Starts
<1>2. ASSUME NEW i \in Nat, i \in same PROVE i + 1 \in same
  <2> SUFFICES ASSUME i + 1 <= m, i + 1 <= n PROVE f[i + 1] = g[i + 1] OBVIOUS
  <2>1. f[i] = g[i] /\ i \in 0 .. m - 1 /\ i \in 0 .. n - 1 BY <1>2
  <2> QED BY <2>1 DEF Starts
<1> HIDE DEF same
<1>3. Nat \subseteq same BY <1>1, <1>2, NatBySteps
<1> QED BY <1>3 DEF same

LEMMA StartsExist ==
  ASSUME NEW S, NEW first \in S, NEW step \in StepsIn(S)
  PROVE  \A n \in Nat : \E f : Starts(f, n, S, first, step)
<1> DEFINE good == {n \in Nat : \E f : Starts(f, n, S, first, step)}
<1>1. 0 \in good
  <2>1. Starts([i \in 0 .. 0 |-> first], 0, S, first, step) BY DEF Starts
  <2> QED BY <2>1
<1>2. ASSUME NEW n \in Nat, n \in good PROVE n + 1 \in good
  <2>1. PICK f : Starts(f, n, S, first, step) BY <1>2
  <2> DEFINE g == [i \in 0 .. n + 1 |-> IF i = n + 1 THEN step[n][f[n]] ELSE f[i]]
  <2>2. f \in [0 .. n -> S] /\ f[n] \in S /\ step[n][f[n]] \in S
    BY <2>1 DEF Starts, StepsIn
  <2>3. g \in [0 .. n + 1 -> S] BY <2>2
  <2>4. g[0] = first BY <2>1 DEF Starts
  <2>5. ASSUME NEW i \in 0 .. n PROVE g[i + 1] = step[i][g[i]]
    <3>1. g[i] = f[i] /\ i + 1 \in 0 .. n + 1 OBVIOUS
    <3>2. CASE i = n BY <3>1, <3>2
    <3>3. CASE i # n
      <4>1. i \in 0 .. n - 1 /\ g[i + 1] = f[i + 1] BY <3>1, <3>3
      <4> QED BY <2>1, <3>1, <4>1 DEF Starts
    <3> QED BY <3>2, <3>3
  <2> HIDE DEF g
  <2>6. Starts(g, n + 1, S, first, step) BY <2>3, <2>4, <2>5 DEF Starts
  <2> QED BY <2>6
<1> HIDE DEF good
<1>3. Nat \subseteq good BY <1>1, <1>2, NatBySteps
<1> QED BY <1>3 DEF good

\* Definition by recursion on the natural numbers.
LEMMA NatFunction ==
  ASSUME NEW S, NEW first \in S, NEW step \in StepsIn(S)
  PROVE  \E f \in [Nat -> S] : /\ f[0] = first
                               /\ \A n \in Nat : f[n + 1] = step[n][f[n]]
<1> DEFINE part == [n \in Nat |-> CHOOSE f : Starts(f, n, S, first, step)]
           whole == [n \in Nat |-> part[n][n]]
<1>1. \A n \in Nat : Starts(part[n], n, S, first, step) BY StartsExist
<1> HIDE DEF part
<1>2. \A n \in Nat : part[n][n] \in S BY <1>1 DEF Starts
<1>3. whole \in [Nat -> S] BY <1>2
<1>4. whole[0] = first
  <2>1. part[0][0] = first BY <1>1 DEF Starts
  <2> QED BY <2>1
<1>5. ASSUME NEW n \in Nat PROVE whole[n + 1] = step[n][whole[n]]
  <2>1. part[n + 1][n + 1] = step[n][part[n + 1][n]]
    <3>1. n + 1 \in Nat /\ n \in 0 .. (n + 1) - 1 OBVIOUS
    <3> QED BY <1>1, <3>1 DEF Starts
  <2>2. part[n + 1][n] = part[n][n]
    <3>1. n + 1 \in Nat /\ n <= n + 1 /\ n <= n OBVIOUS
    <3>2. Starts(part[n], n, S, first, step) /\ Starts(part[n + 1], n + 1, S, first, step)
      BY <1>1, <3>1
    <3>3. ASSUME NEW a, NEW b, NEW m \in Nat,
                 Starts(a, m, S, first, step), Starts(b, n, S, first, step), n <= m
          PROVE  a[n] = b[n]
      BY <3>3, StartsAgree
    <3> QED BY <3>1, <3>2, <3>3
  <2> QED BY <2>1, <2>2
<1> HIDE DEF whole
<1> QED BY <1>3, <1>4, <1>5

Recursion(f, S, first, step) ==
  /\ f \in [Nat -> S] /\ f[0] = first
  /\ \A n \in Nat : f[n + 1] = step[n][f[n]]

LEMMA NatRecursion ==
  ASSUME NEW S, NEW first \in S, NEW step \in StepsIn(S)
  PROVE  \E f : Recursion(f, S, first, step)
BY NatFunction DEF Recursion

LEMMA Iterates ==
  ASSUME NEW S, NEW first \in S, NEW step \in [S -> S]
  PROVE  \E f \in [Nat -> S] : f[0] = first /\ \A n \in Nat : f[n + 1] = step[f[n]]
<1> DEFINE steps == [n \in Nat |-> step]
<1>1. steps \in StepsIn(S) /\ \A n \in Nat : steps[n] = step BY DEF StepsIn
<1> HIDE DEF steps
<1>2. PICK f \in [Nat -> S] : f[0] = first /\ \A n \in Nat : f[n + 1] = steps[n][f[n]]
  BY <1>1, NatFunction
<1>3. \A n \in Nat : f[n + 1] = step[f[n]] BY <1>1, <1>2
<1> QED BY <1>2, <1>3

\* The loop "while st is not in done, st := step[st]; return out[st]".
IsLoop(loop, S, step, done, out) ==
  /\ step \in [S -> S]
  /\ loop = [st \in S |-> IF st \in done THEN out[st] ELSE loop[step[st]]]

\* It is a function, whether it ends or not.
LEMMA LoopIsFunction ==
  ASSUME NEW S, NEW step, step \in [S -> S], NEW done, NEW out
  PROVE  \E loop : IsLoop(loop, S, step, done, out)
<1> DEFINE Run(r, st) == /\ r \in [Nat -> S] /\ r[0] = st
                         /\ \A n \in Nat : r[n + 1] = step[r[n]]
           run == [st \in S |-> CHOOSE r : Run(r, st)]
           ends == [st \in S |-> {n \in Nat : /\ run[st][n] \in done
                                              /\ \A m \in 0 .. n - 1 : run[st][m] \notin done}]
           results == [st \in S |-> {out[run[st][n]] : n \in ends[st]}]
           f == [st \in S |-> CHOOSE x \in results[st] : TRUE]
<1>1. \A st \in S : Run(run[st], st)
  <2> SUFFICES ASSUME NEW st \in S PROVE \E r : Run(r, st) OBVIOUS
  <2> QED BY Iterates
<1> HIDE DEF run
<1>2. ASSUME NEW st \in S PROVE \A n \in Nat : run[step[st]][n] = run[st][n + 1]
  <2> DEFINE same == {n \in Nat : run[step[st]][n] = run[st][n + 1]}
  <2>1. 0 \in same BY <1>1
  <2>2. ASSUME NEW n \in Nat, n \in same PROVE n + 1 \in same
    <3>1. run[step[st]][n + 1] = step[run[step[st]][n]] BY <1>1
    <3>2. run[st][(n + 1) + 1] = step[run[st][n + 1]] BY <1>1
    <3> QED BY <2>2, <3>1, <3>2
  <2> HIDE DEF same
  <2>3. Nat \subseteq same BY <2>1, <2>2, NatBySteps
  <2> QED BY <2>3 DEF same
<1>3. ASSUME NEW st \in S, st \in done PROVE f[st] = out[st]
  <2>1. run[st][0] = st BY <1>1
  <2>2. ends[st] = {0} BY <1>3, <2>1
  <2> HIDE DEF ends
  <2>3. results[st] = {out[st]} BY <2>1, <2>2
  <2> HIDE DEF results
  <2> QED BY <2>3
<1>4. ASSUME NEW st \in S, st \notin done PROVE f[st] = f[step[st]]
  <2>0. step[st] \in S /\ run[st][0] = st BY <1>1
  <2>1. \A n \in Nat : n + 1 \in ends[st] <=> n \in ends[step[st]]
    <3> SUFFICES ASSUME NEW n \in Nat
                 PROVE  n + 1 \in ends[st] <=> n \in ends[step[st]]
      OBVIOUS
    <3>1. run[st][n + 1] \in done <=> run[step[st]][n] \in done BY <1>2
    <3>2. (\A m \in 0 .. (n + 1) - 1 : run[st][m] \notin done)
            <=> \A m \in 0 .. n - 1 : run[step[st]][m] \notin done
      <4>1. ASSUME \A m \in 0 .. n : run[st][m] \notin done, NEW m \in 0 .. n - 1
            PROVE  run[step[st]][m] \notin done
        <5>1. m + 1 \in 0 .. n /\ m \in Nat OBVIOUS
        <5> QED BY <1>2, <4>1, <5>1
      <4>2. ASSUME \A m \in 0 .. n - 1 : run[step[st]][m] \notin done, NEW m \in 0 .. n
            PROVE  run[st][m] \notin done
        <5>1. CASE m = 0 BY <1>4, <2>0, <5>1
        <5>2. CASE m # 0
          <6>1. m - 1 \in 0 .. n - 1 /\ m - 1 \in Nat /\ (m - 1) + 1 = m BY <5>2
          <6>2. run[step[st]][m - 1] = run[st][m] BY <1>2, <6>1
          <6> QED BY <4>2, <6>1, <6>2
        <5> QED BY <5>1, <5>2
      <4> QED BY <4>1, <4>2
    <3> QED BY <2>0, <3>1, <3>2
  <2>2. 0 \notin ends[st] BY <1>4, <2>0
  <2>3. ends[st] \subseteq Nat /\ ends[step[st]] \subseteq Nat BY <2>0
  <2> HIDE DEF ends
  <2>4. results[st] = results[step[st]]
    <3>1. ASSUME NEW n \in ends[st] PROVE out[run[st][n]] \in results[step[st]]
      <4>1. n - 1 \in Nat /\ (n - 1) + 1 = n BY <2>2, <2>3
      <4>2. n - 1 \in ends[step[st]] /\ run[step[st]][n - 1] = run[st][n]
        BY <1>2, <2>1, <4>1
      <4> QED BY <2>0, <4>2
    <3>2. ASSUME NEW n \in ends[step[st]] PROVE out[run[step[st]][n]] \in results[st]
      <4>1. n \in Nat BY <2>3
      <4>2. n + 1 \in ends[st] /\ run[step[st]][n] = run[st][n + 1] BY <1>2, <2>1, <4>1
      <4> QED BY <4>2
    <3> QED BY <2>0, <3>1, <3>2
  <2> HIDE DEF results
  <2> QED BY <2>0, <2>4
<1> HIDE DEF f
<1>5. f = [st \in S |-> IF st \in done THEN out[st] ELSE f[step[st]]]
  <2>1. f = [st \in S |-> f[st]] BY DEF f
  <2> QED BY <1>3, <1>4, <2>1
<1> QED BY <1>5 DEF IsLoop

------------------------------------------------------------------------------
\* The elements of lists

LEMMA ConcatElements ==
  ASSUME NEW S, NEW s \in Seq(S), NEW t \in Seq(S)
  PROVE  /\ s \o t \in Seq(S)
         /\ ToSet(s \o t) = ToSet(s) \cup ToSet(t)
         /\ IsInjective(s) /\ IsInjective(t) /\ ToSet(s) \cap ToSet(t) = {}
              => IsInjective(s \o t)
<1> DEFINE u == s \o t
<1>1. /\ u \in Seq(S) /\ Len(s) \in Nat /\ Len(t) \in Nat /\ Len(u) = Len(s) + Len(t)
      /\ DOMAIN s = 1 .. Len(s) /\ DOMAIN t = 1 .. Len(t) /\ DOMAIN u = 1 .. Len(u)
  BY ConcatLists, ConcatProperties, LenProperties
<1>2. /\ \A i \in 1 .. Len(s) : u[i] = s[i]
      /\ \A i \in 1 .. Len(t) : u[Len(s) + i] = t[i]
      /\ \A i \in 1 .. Len(u) :
           i \in 1 .. Len(s) \/ \E k \in 1 .. Len(t) : i = Len(s) + k
  BY ConcatLists
<1> HIDE DEF u
<1>3. ToSet(u) \subseteq ToSet(s) \cup ToSet(t)
  <2> SUFFICES ASSUME NEW i \in 1 .. Len(u) PROVE u[i] \in ToSet(s) \cup ToSet(t)
    BY <1>1 DEF ToSet
  <2>1. CASE i \in 1 .. Len(s)
    <3>1. u[i] = s[i] BY <1>2, <2>1
    <3> QED BY <1>1, <2>1, <3>1 DEF ToSet
  <2>2. ASSUME NEW k \in 1 .. Len(t), i = Len(s) + k PROVE u[i] \in ToSet(s) \cup ToSet(t)
    <3>1. u[i] = t[k] BY <1>2, <2>2
    <3> QED BY <1>1, <3>1 DEF ToSet
  <2> QED BY <1>2, <2>1, <2>2
<1>4. ToSet(s) \subseteq ToSet(u)
  <2> SUFFICES ASSUME NEW i \in 1 .. Len(s) PROVE s[i] \in ToSet(u) BY <1>1 DEF ToSet
  <2>1. i \in 1 .. Len(u) /\ u[i] = s[i] BY <1>1, <1>2
  <2> QED BY <1>1, <2>1 DEF ToSet
<1>5. ToSet(t) \subseteq ToSet(u)
  <2> SUFFICES ASSUME NEW i \in 1 .. Len(t) PROVE t[i] \in ToSet(u) BY <1>1 DEF ToSet
  <2>1. Len(s) + i \in 1 .. Len(u) /\ u[Len(s) + i] = t[i] BY <1>1, <1>2
  <2> QED BY <1>1, <2>1 DEF ToSet
<1>6. ASSUME IsInjective(s), IsInjective(t), ToSet(s) \cap ToSet(t) = {}
      PROVE  IsInjective(u)
  <2> SUFFICES ASSUME NEW i \in 1 .. Len(u), NEW j \in 1 .. Len(u), u[i] = u[j]
               PROVE  i = j
    BY <1>1 DEF IsInjective
  <2>1. \A x \in 1 .. Len(s), y \in 1 .. Len(t) : s[x] # t[y] BY <1>1, <1>6 DEF ToSet
  <2>2. CASE i \in 1 .. Len(s) /\ j \in 1 .. Len(s)
    BY <1>1, <1>2, <1>6, <2>2 DEF IsInjective
  <2>3. ASSUME NEW x \in 1 .. Len(t), NEW y \in 1 .. Len(t), i = Len(s) + x, j = Len(s) + y
        PROVE  i = j
    <3>1. t[x] = t[y] BY <1>2, <2>3
    <3>2. x = y BY <1>1, <1>6, <3>1 DEF IsInjective
    <3> QED BY <2>3, <3>2
  <2>4. ASSUME NEW x \in 1 .. Len(s), NEW y \in 1 .. Len(t)
        PROVE  u[x] # u[Len(s) + y]
    BY <1>2, <2>1
  <2> QED BY <1>2, <2>2, <2>3, <2>4
<1> QED BY <1>1, <1>3, <1>4, <1>5, <1>6 DEF u

LEMMA FlattenIsRecursive ==
  ASSUME NEW S, NEW seqs \in Seq(Seq(S)), Len(seqs) > 0
  PROVE  \E flat : /\ FlattenSeq(seqs) = flat[Len(seqs)]
                   /\ flat[1] = seqs[1]
                   /\ \A i \in 1 .. Len(seqs) - 1 : flat[i + 1] = flat[i] \o seqs[i + 1]
<1> DEFINE n == Len(seqs)
           Next(f, i) == IF i = 1 THEN seqs[i] ELSE f[i - 1] \o seqs[i]
           step == [k \in Nat |-> [list \in Seq(S) |->
                     IF k + 2 <= n THEN list \o seqs[k + 2] ELSE list]]
           flat == CHOOSE f : f = [i \in 1 .. n |-> Next(f, i)]
<1>1. n \in Nat /\ n # 0 /\ \A i \in 1 .. n : seqs[i] \in Seq(S) BY LenProperties
<1>2. FlattenSeq(seqs) = flat[n] BY <1>1 DEF FlattenSeq
<1> HIDE DEF n
<1>3. step \in StepsIn(Seq(S))
  <2>1. ASSUME NEW k \in Nat, NEW list \in Seq(S)
        PROVE  (IF k + 2 <= n THEN list \o seqs[k + 2] ELSE list) \in Seq(S)
    <3>1. CASE k + 2 <= n
      <4>1. seqs[k + 2] \in Seq(S) BY <1>1, <3>1
      <4>2. list \o seqs[k + 2] \in Seq(S) BY <4>1, ConcatProperties
      <4> QED BY <3>1, <4>2
    <3> QED BY <3>1
  <2> QED BY <2>1 DEF StepsIn
<1>4. \A k \in Nat, list \in Seq(S) : k + 2 <= n => step[k][list] = list \o seqs[k + 2]
  OBVIOUS
<1> HIDE DEF step
<1>5. PICK f \in [Nat -> Seq(S)] : f[0] = seqs[1] /\ \A k \in Nat : f[k + 1] = step[k][f[k]]
  <2>1. seqs[1] \in Seq(S) BY <1>1
  <2>2. \E f : Recursion(f, Seq(S), seqs[1], step) BY <1>3, <2>1, NatRecursion
  <2> QED BY <2>2 DEF Recursion
<1> DEFINE g == [i \in 1 .. n |-> f[i - 1]]
<1>6. \A i \in 1 .. n : g[i] = Next(g, i)
  <2> SUFFICES ASSUME NEW i \in 1 .. n PROVE g[i] = Next(g, i) OBVIOUS
  <2>0. CASE i = 1 BY <1>5, <2>0
  <2> SUFFICES ASSUME i # 1 PROVE g[i] = g[i - 1] \o seqs[i] BY <2>0
  <2>1. i - 2 \in Nat /\ (i - 2) + 1 = i - 1 /\ (i - 2) + 2 = i /\ i <= n
        /\ i - 1 \in 1 .. n /\ (i - 1) - 1 = i - 2
    BY <1>1
  <2>2. g[i] = f[i - 1] /\ g[i - 1] = f[i - 2] BY <2>1
  <2> HIDE DEF g
  <2>3. f[(i - 2) + 1] = step[i - 2][f[i - 2]] /\ f[i - 2] \in Seq(S) BY <1>5, <2>1
  <2>4. step[i - 2][f[i - 2]] = f[i - 2] \o seqs[(i - 2) + 2] BY <1>4, <2>1, <2>3
  <2> QED BY <2>1, <2>2, <2>3, <2>4
<1>7. g = [i \in 1 .. n |-> Next(g, i)] BY <1>6
<1> HIDE DEF g
<1>8. flat = [i \in 1 .. n |-> Next(flat, i)] BY <1>7
<1> HIDE DEF flat
<1>9. flat[1] = seqs[1] BY <1>1, <1>8
<1>10. ASSUME NEW i \in 1 .. n - 1 PROVE flat[i + 1] = flat[i] \o seqs[i + 1]
  <2>1. i + 1 \in 1 .. n /\ i + 1 # 1 /\ (i + 1) - 1 = i BY <1>1
  <2>2. flat[i + 1] = Next(flat, i + 1) BY <1>8, <2>1
  <2> QED BY <2>1, <2>2
<1> QED BY <1>2, <1>9, <1>10 DEF n

\* One list after another has the elements of each; none twice, if none has one
\* twice and no two share one.
LEMMA FlattenElements ==
  ASSUME NEW S, NEW seqs \in Seq(Seq(S))
  PROVE  /\ FlattenSeq(seqs) \in Seq(S)
         /\ ToSet(FlattenSeq(seqs)) = UNION {ToSet(seqs[i]) : i \in 1 .. Len(seqs)}
         /\ /\ \A i \in 1 .. Len(seqs) : IsInjective(seqs[i])
            /\ \A i, j \in 1 .. Len(seqs) :
                 i # j => ToSet(seqs[i]) \cap ToSet(seqs[j]) = {}
            => IsInjective(FlattenSeq(seqs))
<1> DEFINE n == Len(seqs)
           Upto(i) == UNION {ToSet(seqs[k]) : k \in 1 .. i}
           Apart == /\ \A i \in 1 .. n : IsInjective(seqs[i])
                    /\ \A i, j \in 1 .. n : i # j => ToSet(seqs[i]) \cap ToSet(seqs[j]) = {}
<1>1. n \in Nat /\ \A i \in 1 .. n : seqs[i] \in Seq(S) BY LenProperties
<1>2. CASE n = 0
  <2>1. seqs = << >> BY <1>2, EmptySeq
  <2>2. FlattenSeq(seqs) = << >> BY <1>2, <2>1 DEF FlattenSeq
  <2>3. DOMAIN << >> = {} /\ << >> \in Seq(S) BY EmptySeq
  <2>4. ToSet(<< >>) = {} /\ IsInjective(<< >>) BY <2>3 DEF ToSet, IsInjective
  <2>5. 1 .. Len(seqs) = {} BY <1>2
  <2> QED BY <2>2, <2>3, <2>4, <2>5
<1>3. CASE n # 0
  <2>0. Len(seqs) > 0 BY <1>1, <1>3
  <2>1. PICK flat : /\ FlattenSeq(seqs) = flat[Len(seqs)]
                    /\ flat[1] = seqs[1]
                    /\ \A i \in 1 .. Len(seqs) - 1 : flat[i + 1] = flat[i] \o seqs[i + 1]
    BY <2>0, FlattenIsRecursive
  <2> DEFINE Holds(i) == /\ flat[i] \in Seq(S)
                         /\ ToSet(flat[i]) = Upto(i)
                         /\ Apart => IsInjective(flat[i])
             good == {i \in Nat : i + 1 <= n => Holds(i + 1)}
  <2> HIDE DEF n, Apart
  <2>2. 0 \in good
    <3>1. flat[1] = seqs[1] /\ 1 \in 1 .. n /\ 0 + 1 = 1 BY <1>1, <1>3, <2>1
    <3>2. Upto(1) = ToSet(seqs[1]) OBVIOUS
    <3>3. Apart => IsInjective(seqs[1]) BY <3>1 DEF Apart
    <3> HIDE DEF Upto
    <3> QED BY <1>1, <3>1, <3>2, <3>3
  <2>3. ASSUME NEW k \in Nat, k \in good PROVE k + 1 \in good
    <3> SUFFICES ASSUME (k + 1) + 1 <= n PROVE Holds((k + 1) + 1) OBVIOUS
    <3> DEFINE i == k + 1
    <3>1. i \in 1 .. n - 1 /\ i + 1 \in 1 .. n /\ i <= n /\ i \in 1 .. n BY <1>1
    <3>2. Holds(i) BY <2>3, <3>1
    <3> HIDE DEF i
    <3>3. flat[i + 1] = flat[i] \o seqs[i + 1] /\ seqs[i + 1] \in Seq(S)
      BY <1>1, <2>1, <3>1 DEF n
    <3>4. Upto(i + 1) = Upto(i) \cup ToSet(seqs[i + 1])
      <4>1. 1 .. i + 1 = (1 .. i) \cup {i + 1} BY <3>1
      <4> QED BY <4>1
    <3>5. Apart => Upto(i) \cap ToSet(seqs[i + 1]) = {} /\ IsInjective(seqs[i + 1])
      <4> SUFFICES ASSUME Apart
                   PROVE  Upto(i) \cap ToSet(seqs[i + 1]) = {} /\ IsInjective(seqs[i + 1])
        OBVIOUS
      <4>1. \A m \in 1 .. i : m \in 1 .. n /\ m # i + 1 BY <1>1, <3>1
      <4>2. \A m \in 1 .. i : ToSet(seqs[m]) \cap ToSet(seqs[i + 1]) = {}
        BY <3>1, <4>1 DEF Apart
      <4>3. IsInjective(seqs[i + 1]) BY <3>1 DEF Apart
      <4> QED BY <4>2, <4>3
    <3> HIDE DEF Upto
    <3>6. /\ flat[i] \o seqs[i + 1] \in Seq(S)
          /\ ToSet(flat[i] \o seqs[i + 1]) = Upto(i + 1)
          /\ Apart => IsInjective(flat[i] \o seqs[i + 1])
      <4>1. /\ flat[i] \in Seq(S) /\ ToSet(flat[i]) = Upto(i)
            /\ Apart => IsInjective(flat[i])
        BY <3>2
      <4> HIDE DEF Holds
      <4>2. ASSUME NEW s \in Seq(S), NEW t \in Seq(S)
            PROVE  /\ s \o t \in Seq(S) /\ ToSet(s \o t) = ToSet(s) \cup ToSet(t)
                   /\ IsInjective(s) /\ IsInjective(t) /\ ToSet(s) \cap ToSet(t) = {}
                        => IsInjective(s \o t)
        BY ConcatElements
      <4> QED BY <3>3, <3>4, <3>5, <4>1, <4>2
    <3>7. Holds(i + 1) BY <3>3, <3>6
    <3> QED BY <3>7 DEF i
  <2> HIDE DEF good
  <2>4. n - 1 \in good
    <3>1. n - 1 \in Nat BY <1>1, <1>3
    <3>2. Nat \subseteq good BY <2>2, <2>3, NatBySteps
    <3> QED BY <3>1, <3>2
  <2>5. Holds(n)
    <3>1. (n - 1) + 1 = n /\ n <= n BY <1>1
    <3> HIDE DEF Holds
    <3> QED BY <2>4, <3>1 DEF good
  <2> QED BY <2>1, <2>5 DEF n, Apart
<1> QED BY <1>2, <1>3

------------------------------------------------------------------------------
\* Filters

LEMMA KeepIsRecursive ==
  ASSUME NEW list, NEW kept, Len(list) \in Nat
  PROVE  \E upTo :
           /\ Keep(list, kept) = upTo[Len(list)]
           /\ upTo[0] = << >>
           /\ \A i \in 0 .. Len(list) :
                i > 0 => upTo[i] = IF list[i] \in kept THEN Append(upTo[i - 1], list[i])
                                                      ELSE upTo[i - 1]
<1> DEFINE Next(f, i) == IF i = 0 THEN << >>
                         ELSE IF list[i] \in kept THEN Append(f[i - 1], list[i])
                                                  ELSE f[i - 1]
           Upto(n) == \E f : f = [i \in 0 .. n |-> Next(f, i)]
           good == {n \in Nat : Upto(n)}
           upTo == CHOOSE f : f = [i \in 0 .. Len(list) |-> Next(f, i)]
<1>1. 0 \in good
  <2> DEFINE g == [i \in 0 .. 0 |-> << >>]
  <2>1. g = [i \in 0 .. 0 |-> Next(g, i)] OBVIOUS
  <2> QED BY <2>1
<1>2. ASSUME NEW n \in Nat, n \in good PROVE n + 1 \in good
  <2>1. PICK f : f = [i \in 0 .. n |-> Next(f, i)] BY <1>2
  <2> DEFINE g == [i \in 0 .. n + 1 |-> IF i = n + 1 THEN Next(f, i) ELSE f[i]]
  <2>2. \A i \in 0 .. n + 1 : g[i] = Next(g, i)
    <3> SUFFICES ASSUME NEW i \in 0 .. n + 1 PROVE g[i] = Next(g, i) OBVIOUS
    <3>1. i = 0 \/ g[i - 1] = f[i - 1] OBVIOUS
    <3>2. Next(g, i) = Next(f, i) BY <3>1
    <3>3. CASE i = n + 1 BY <3>2, <3>3
    <3>4. CASE i # n + 1
      <4>1. i \in 0 .. n /\ g[i] = f[i] BY <3>4
      <4>2. f[i] = Next(f, i) BY <2>1, <4>1
      <4> QED BY <3>2, <4>1, <4>2
    <3> QED BY <3>3, <3>4
  <2>3. g = [i \in 0 .. n + 1 |-> Next(g, i)] BY <2>2
  <2> HIDE DEF g
  <2>4. Upto(n + 1) BY <2>3
  <2> QED BY <2>4
<1> HIDE DEF good
<1>3. Len(list) \in good BY <1>1, <1>2, NatBySteps
<1>4. upTo = [i \in 0 .. Len(list) |-> Next(upTo, i)] BY <1>3 DEF good
<1>5. Keep(list, kept) = upTo[Len(list)] BY DEF Keep
<1> HIDE DEF upTo
<1>6. upTo[0] = << >> BY <1>4
<1>7. \A i \in 0 .. Len(list) : i > 0 => upTo[i] = Next(upTo, i) BY <1>4
<1> QED BY <1>5, <1>6, <1>7

\* A filter keeps exactly the elements it should, in their order: position i of
\* the result is position at[i] of the list.
LEMMA KeepPositions ==
  ASSUME NEW S, NEW list \in Seq(S), NEW kept
  PROVE  /\ Keep(list, kept) \in Seq(S)
         /\ Len(Keep(list, kept)) <= Len(list)
         /\ \E at \in [1 .. Len(Keep(list, kept)) -> 1 .. Len(list)] :
              /\ \A i, j \in DOMAIN at : i < j => at[i] < at[j]
              /\ \A i \in DOMAIN at : /\ Keep(list, kept)[i] = list[at[i]]
                                      /\ list[at[i]] \in kept
              /\ \A j \in 1 .. Len(list) :
                   list[j] \in kept => \E i \in DOMAIN at : at[i] = j
<1>0. Len(list) \in Nat /\ \A i \in 1 .. Len(list) : list[i] \in S BY LenProperties
<1>1. PICK upTo :
        /\ Keep(list, kept) = upTo[Len(list)]
        /\ upTo[0] = << >>
        /\ \A i \in 0 .. Len(list) :
             i > 0 => upTo[i] = IF list[i] \in kept THEN Append(upTo[i - 1], list[i])
                                                   ELSE upTo[i - 1]
  BY <1>0, KeepIsRecursive
<1> DEFINE Maps(at, n) ==
             /\ at \in [1 .. Len(upTo[n]) -> 1 .. n]
             /\ \A i, j \in 1 .. Len(upTo[n]) : i < j => at[i] < at[j]
             /\ \A i \in 1 .. Len(upTo[n]) : /\ upTo[n][i] = list[at[i]]
                                              /\ list[at[i]] \in kept
             /\ \A j \in 1 .. n :
                  list[j] \in kept => \E i \in 1 .. Len(upTo[n]) : at[i] = j
           Filters(n) == /\ upTo[n] \in Seq(S) /\ Len(upTo[n]) <= n
                         /\ \E at : Maps(at, n)
           good == {n \in Nat : n <= Len(list) => Filters(n)}
<1>2. 0 \in good
  <2>1. upTo[0] \in Seq(S) /\ Len(upTo[0]) = 0 BY <1>1
  <2>2. Maps([i \in 1 .. 0 |-> 0], 0) BY <2>1
  <2> QED BY <2>1, <2>2
<1> HIDE DEF Filters
<1>3. ASSUME NEW n \in Nat, n \in good PROVE n + 1 \in good
  <2> SUFFICES ASSUME n + 1 <= Len(list) PROVE Filters(n + 1) OBVIOUS
  <2>1. Filters(n) BY <1>0, <1>3
  <2>2. PICK at : Maps(at, n) BY <2>1 DEF Filters
  <2>3. upTo[n + 1] = IF list[n + 1] \in kept THEN Append(upTo[n], list[n + 1])
                                              ELSE upTo[n]
    BY <1>0, <1>1
  <2> DEFINE m == Len(upTo[n])
  <2>4. upTo[n] \in Seq(S) /\ m \in Nat /\ m <= n BY <2>1, LenProperties DEF Filters
  <2>5. CASE list[n + 1] \in kept
    <3> DEFINE longer == [i \in 1 .. m + 1 |-> IF i = m + 1 THEN n + 1 ELSE at[i]]
    <3>1. /\ upTo[n + 1] = Append(upTo[n], list[n + 1])
          /\ list[n + 1] \in S
      BY <1>0, <2>3, <2>5
    <3>2. /\ upTo[n + 1] \in Seq(S) /\ Len(upTo[n + 1]) = m + 1
          /\ \A i \in 1 .. m : upTo[n + 1][i] = upTo[n][i]
          /\ upTo[n + 1][m + 1] = list[n + 1]
      BY <2>4, <3>1, AppendProperties
    <3>3. longer \in [1 .. m + 1 -> 1 .. n + 1] BY <2>2, <2>4
    <3>4. \A i, j \in 1 .. m + 1 : i < j => longer[i] < longer[j]
      <4> SUFFICES ASSUME NEW i \in 1 .. m + 1, NEW j \in 1 .. m + 1, i < j
                   PROVE  longer[i] < longer[j]
        OBVIOUS
      <4>0. i \in 1 .. m /\ i # m + 1
        <5> HIDE DEF longer, m
        <5> QED BY <2>4
      <4>1. longer[i] = at[i] /\ at[i] \in 1 .. n
        <5>1. longer[i] = at[i] BY <4>0
        <5>2. at[i] \in 1 .. n BY <2>2, <4>0
        <5> QED BY <5>1, <5>2
      <4>2. CASE j = m + 1 BY <4>1, <4>2
      <4>3. CASE j # m + 1
        <5>1. j \in 1 .. m /\ longer[j] = at[j] BY <2>4, <4>3
        <5> QED BY <2>2, <4>0, <4>1, <5>1
      <4> QED BY <4>2, <4>3
    <3>5. \A i \in 1 .. m + 1 : /\ upTo[n + 1][i] = list[longer[i]]
                                /\ list[longer[i]] \in kept
      BY <2>2, <2>4, <2>5, <3>2
    <3>6. \A j \in 1 .. n + 1 :
            list[j] \in kept => \E i \in 1 .. m + 1 : longer[i] = j
      <4> SUFFICES ASSUME NEW j \in 1 .. n + 1, list[j] \in kept
                   PROVE  \E i \in 1 .. m + 1 : longer[i] = j
        OBVIOUS
      <4>1. CASE j = n + 1 BY <2>4, <4>1
      <4>2. CASE j # n + 1
        <5>1. j \in 1 .. n BY <4>2
        <5>2. PICK i \in 1 .. m : at[i] = j BY <2>2, <5>1
        <5>3. i \in 1 .. m + 1 /\ longer[i] = j BY <2>4, <5>2
        <5> QED BY <5>3
      <4> QED BY <4>1, <4>2
    <3> HIDE DEF longer
    <3>7. Maps(longer, n + 1) BY <3>2, <3>3, <3>4, <3>5, <3>6
    <3>8. m + 1 <= n + 1 BY <2>4
    <3> QED BY <3>2, <3>7, <3>8 DEF Filters
  <2>6. CASE list[n + 1] \notin kept
    <3>1. upTo[n + 1] = upTo[n] BY <2>3, <2>6
    <3>2. at \in [1 .. m -> 1 .. n + 1] BY <2>2
    <3>3. \A j \in 1 .. n + 1 : list[j] \in kept => j \in 1 .. n BY <2>6
    <3>4. Maps(at, n + 1) BY <2>2, <3>1, <3>2, <3>3
    <3>5. m <= n + 1 BY <2>4
    <3> QED BY <2>4, <3>1, <3>4, <3>5 DEF Filters
  <2> QED BY <2>5, <2>6
<1> HIDE DEF good
<1>4. Len(list) \in good BY <1>0, <1>2, <1>3, NatBySteps
<1>5. Filters(Len(list)) BY <1>0, <1>4 DEF good
<1>6. PICK at : Maps(at, Len(list)) BY <1>5 DEF Filters
<1>7. DOMAIN at = 1 .. Len(Keep(list, kept)) BY <1>1, <1>6
<1>8. /\ at \in [1 .. Len(Keep(list, kept)) -> 1 .. Len(list)]
      /\ \A i, j \in DOMAIN at : i < j => at[i] < at[j]
      /\ \A i \in DOMAIN at : /\ Keep(list, kept)[i] = list[at[i]]
                              /\ list[at[i]] \in kept
      /\ \A j \in 1 .. Len(list) :
           list[j] \in kept => \E i \in DOMAIN at : at[i] = j
  BY <1>1, <1>6, <1>7
<1>9. Keep(list, kept) \in Seq(S) /\ Len(Keep(list, kept)) <= Len(list)
  BY <1>1, <1>5 DEF Filters
<1> HIDE DEF Maps
<1> QED BY <1>8, <1>9

\* The same for what is in the lists.
LEMMA KeepElements ==
  ASSUME NEW S, NEW list \in Seq(S), NEW kept
  PROVE  /\ Keep(list, kept) \in Seq(S)
         /\ ToSet(Keep(list, kept)) = ToSet(list) \cap kept
         /\ IsInjective(list) => IsInjective(Keep(list, kept))
<1> DEFINE result == Keep(list, kept)
<1>1. /\ result \in Seq(S) /\ Len(result) <= Len(list)
      /\ \E at \in [1 .. Len(result) -> 1 .. Len(list)] :
           /\ \A i, j \in DOMAIN at : i < j => at[i] < at[j]
           /\ \A i \in DOMAIN at : /\ result[i] = list[at[i]]
                                   /\ list[at[i]] \in kept
           /\ \A j \in 1 .. Len(list) :
                list[j] \in kept => \E i \in DOMAIN at : at[i] = j
  BY KeepPositions
<1> HIDE DEF result
<1>2. PICK at \in [1 .. Len(result) -> 1 .. Len(list)] :
        /\ \A i, j \in DOMAIN at : i < j => at[i] < at[j]
        /\ \A i \in DOMAIN at : result[i] = list[at[i]] /\ list[at[i]] \in kept
        /\ \A j \in 1 .. Len(list) : list[j] \in kept => \E i \in DOMAIN at : at[i] = j
  BY <1>1
<1>3. /\ Len(list) \in Nat /\ DOMAIN list = 1 .. Len(list)
      /\ Len(result) \in Nat /\ DOMAIN result = 1 .. Len(result)
  BY <1>1, LenProperties
<1>4. ToSet(result) = ToSet(list) \cap kept
  <2>1. ASSUME NEW i \in 1 .. Len(result) PROVE result[i] \in ToSet(list) \cap kept
    <3>1. at[i] \in 1 .. Len(list) /\ result[i] = list[at[i]] /\ list[at[i]] \in kept
      BY <1>2
    <3> QED BY <1>3, <3>1 DEF ToSet
  <2>2. ASSUME NEW j \in 1 .. Len(list), list[j] \in kept PROVE list[j] \in ToSet(result)
    <3>1. PICK i \in 1 .. Len(result) : at[i] = j BY <1>2, <2>2
    <3>2. result[i] = list[j] BY <1>2, <3>1
    <3> QED BY <1>3, <3>2 DEF ToSet
  <2> QED BY <1>3, <2>1, <2>2 DEF ToSet
<1>5. ASSUME IsInjective(list) PROVE IsInjective(result)
  <2> SUFFICES ASSUME NEW i \in 1 .. Len(result), NEW j \in 1 .. Len(result),
                      result[i] = result[j]
               PROVE  i = j
    BY <1>3 DEF IsInjective
  <2>1. list[at[i]] = list[at[j]] /\ at[i] \in 1 .. Len(list) /\ at[j] \in 1 .. Len(list)
    BY <1>2
  <2>2. at[i] = at[j] BY <1>3, <1>5, <2>1 DEF IsInjective
  <2>3. ~ (i < j) /\ ~ (j < i) BY <1>2, <2>1, <2>2
  <2> QED BY <1>3, <2>3
<1> QED BY <1>1, <1>4, <1>5 DEF result

\* A loop that marks what it finds finds every element that was unmarked.
LEMMA FreshElements ==
  ASSUME NEW S, NEW list \in Seq(S), NEW marked
  PROVE  /\ Fresh(list, marked) \in Seq(S)
         /\ ToSet(Fresh(list, marked)) = ToSet(list) \ marked
<1> DEFINE places == [i \in DOMAIN list |-> i]
           kept == {i \in DOMAIN list : /\ list[i] \notin marked
                                        /\ \A j \in 1 .. i - 1 : list[j] # list[i]}
           at == Keep(places, kept)
           result == [i \in DOMAIN at |-> list[at[i]]]
<1>1. Fresh(list, marked) = result BY DEF Fresh
<1>2. /\ Len(list) \in Nat /\ DOMAIN list = 1 .. Len(list)
      /\ \A i \in 1 .. Len(list) : list[i] \in S
  BY LenProperties
<1>3. places \in Seq(1 .. Len(list)) /\ ToSet(places) = 1 .. Len(list)
  <2>1. places \in [1 .. Len(list) -> 1 .. Len(list)] BY <1>2
  <2>2. places \in Seq(1 .. Len(list)) BY <1>2, <2>1
  <2>3. DOMAIN places = 1 .. Len(list) /\ \A i \in 1 .. Len(list) : places[i] = i BY <1>2
  <2> HIDE DEF places
  <2> QED BY <2>2, <2>3 DEF ToSet
<1>4. kept \subseteq 1 .. Len(list) BY <1>2
<1> HIDE DEF places
<1>5. at \in Seq(1 .. Len(list)) /\ ToSet(at) = kept
  <2> HIDE DEF kept
  <2>1. at \in Seq(1 .. Len(list)) /\ ToSet(at) = ToSet(places) \cap kept
    BY <1>3, KeepElements
  <2> QED BY <1>3, <1>4, <2>1
<1>6. \A p \in kept : list[p] \in ToSet(list) \ marked BY <1>2 DEF ToSet
<1>7. ASSUME NEW x \in ToSet(list) \ marked PROVE \E p \in kept : list[p] = x
  <2> DEFINE found == {i \in 1 .. Len(list) : list[i] = x}
  <2>1. found \in SUBSET Nat /\ \E i \in found : TRUE BY <1>2 DEF ToSet
  <2>2. PICK p \in found : \A i \in found : ~ (i < p) BY <2>1, LeastOfSet
  <2>3. p \in 1 .. Len(list) /\ list[p] = x /\ \A j \in 1 .. p - 1 : list[j] # list[p]
    BY <1>2, <2>2
  <2> QED BY <1>2, <2>3
<1> HIDE DEF kept, at
<1>8. Len(at) \in Nat /\ DOMAIN at = 1 .. Len(at) /\ \A i \in 1 .. Len(at) : at[i] \in 1 .. Len(list)
  BY <1>5, LenProperties
<1>9. result \in [1 .. Len(at) -> S] BY <1>2, <1>8
<1>10. result \in Seq(S) BY <1>8, <1>9
<1>11. DOMAIN result = DOMAIN at /\ \A i \in DOMAIN at : result[i] = list[at[i]] OBVIOUS
<1> HIDE DEF result
<1>12. ToSet(result) = ToSet(list) \ marked
  <2>1. ASSUME NEW i \in DOMAIN at PROVE result[i] \in ToSet(list) \ marked
    <3>1. at[i] \in kept BY <1>5 DEF ToSet
    <3> QED BY <1>6, <1>11, <3>1
  <2>2. ASSUME NEW x \in ToSet(list) \ marked PROVE x \in ToSet(result)
    <3>1. PICK p \in kept : list[p] = x BY <1>7
    <3>2. PICK i \in DOMAIN at : at[i] = p BY <1>5, <3>1 DEF ToSet
    <3>3. result[i] = x BY <1>11, <3>1, <3>2
    <3> QED BY <1>11, <3>2, <3>3 DEF ToSet
  <2> QED BY <1>11, <2>1, <2>2 DEF ToSet
<1> QED BY <1>1, <1>10, <1>12

------------------------------------------------------------------------------
\* Loops over a queue

\* The first k entries of a queue, and the others.
Ahead(queue, k) == {queue[i] : i \in 1 .. k}

Behind(queue, k) == {queue[i] : i \in k + 1 .. Len(queue)}

LEMMA QueueRound ==
  ASSUME NEW S, NEW queue \in Seq(S), NEW k \in 1 .. Len(queue), NEW new \in Seq(S)
  PROVE  LET rest == Tail(queue) \o new
         IN  /\ rest \in Seq(S) /\ queue # << >> /\ Head(queue) \in S
             /\ k - 1 \in 0 .. Len(rest)
             /\ Head(queue) \in Ahead(queue, k)
             /\ Ahead(queue, k) = {Head(queue)} \cup Ahead(rest, k - 1)
             /\ Behind(rest, k - 1) = Behind(queue, k) \cup ToSet(new)
             /\ new = << >> => rest = Tail(queue)
             /\ k = Len(queue) /\ new = << >> => k - 1 = Len(rest)
<1> DEFINE n == Len(queue)
           tail == Tail(queue)
           rest == tail \o new
           p == k - 1
<1>1. /\ n \in Nat /\ k \in 1 .. n /\ n # 0 /\ p \in Nat /\ p + 1 = k
      /\ \A i \in 1 .. n : queue[i] \in S
  BY LenProperties
<1>2. queue # << >> BY <1>1, EmptySeq
<1>3. /\ tail \in Seq(S) /\ Len(tail) = n - 1 /\ Head(queue) = queue[1]
      /\ \A i \in 1 .. n - 1 : tail[i] = queue[i + 1]
  BY <1>2, HeadTailProperties
<1>4. Len(new) \in Nat /\ DOMAIN new = 1 .. Len(new) BY LenProperties
<1> HIDE DEF n, tail, p
<1>5. rest \in Seq(S) BY <1>3, ConcatProperties
<1>6. /\ Len(rest) = (n - 1) + Len(new)
      /\ \A i \in 1 .. n - 1 : rest[i] = tail[i]
      /\ \A i \in 1 .. Len(new) : rest[(n - 1) + i] = new[i]
  <2>1. /\ Len(rest) = Len(tail) + Len(new)
        /\ \A i \in 1 .. Len(tail) : rest[i] = tail[i]
        /\ \A i \in 1 .. Len(new) : rest[Len(tail) + i] = new[i]
    <3>1. ASSUME NEW s \in Seq(S), NEW t \in Seq(S)
          PROVE  /\ Len(s \o t) = Len(s) + Len(t)
                 /\ \A i \in 1 .. Len(s) : (s \o t)[i] = s[i]
                 /\ \A i \in 1 .. Len(t) : (s \o t)[Len(s) + i] = t[i]
      BY ConcatLists
    <3>2. tail \in Seq(S) BY <1>3
    <3> QED BY <3>1, <3>2
  <2> QED BY <1>3, <2>1
<1> HIDE DEF rest
<1>7. p \in 0 .. Len(rest) BY <1>1, <1>4, <1>6
<1>8. \A i \in 1 .. n - 1 : rest[i] = queue[i + 1] BY <1>3, <1>6
<1>9. Ahead(queue, k) = {Head(queue)} \cup Ahead(rest, p)
  <2>1. ASSUME NEW i \in 1 .. k PROVE queue[i] \in {Head(queue)} \cup Ahead(rest, p)
    <3>1. CASE i = 1 BY <1>3, <3>1
    <3>2. CASE i # 1
      <4>1. i - 1 \in 1 .. p /\ i - 1 \in 1 .. n - 1 /\ (i - 1) + 1 = i BY <1>1, <3>2
      <4>2. rest[i - 1] = queue[i] BY <1>8, <4>1
      <4> QED BY <4>1, <4>2 DEF Ahead
    <3> QED BY <3>1, <3>2
  <2>2. ASSUME NEW i \in 1 .. p PROVE rest[i] \in Ahead(queue, k)
    <3>1. i + 1 \in 1 .. k /\ i \in 1 .. n - 1 BY <1>1
    <3> QED BY <1>8, <3>1 DEF Ahead
  <2>3. queue[1] \in Ahead(queue, k) BY <1>1 DEF Ahead
  <2> QED BY <1>3, <2>1, <2>2, <2>3 DEF Ahead
<1>10. Behind(rest, p) = Behind(queue, k) \cup ToSet(new)
  <2>1. ASSUME NEW i \in p + 1 .. Len(rest) PROVE rest[i] \in Behind(queue, k) \cup ToSet(new)
    <3>1. CASE i <= n - 1
      <4>1. i \in 1 .. n - 1 /\ i + 1 \in k + 1 .. n BY <1>1, <1>6, <3>1
      <4> QED BY <1>8, <4>1 DEF Behind, n
    <3>2. CASE ~ (i <= n - 1)
      <4>1. i - (n - 1) \in 1 .. Len(new) /\ (n - 1) + (i - (n - 1)) = i
        BY <1>1, <1>4, <1>6, <3>2
      <4>2. rest[i] = new[i - (n - 1)] BY <1>6, <4>1
      <4> QED BY <1>4, <4>1, <4>2 DEF ToSet
    <3> QED BY <3>1, <3>2
  <2>2. ASSUME NEW i \in k + 1 .. n PROVE queue[i] \in Behind(rest, p)
    <3>1. i - 1 \in p + 1 .. Len(rest) /\ i - 1 \in 1 .. n - 1 /\ (i - 1) + 1 = i
      BY <1>1, <1>4, <1>6
    <3>2. rest[i - 1] = queue[i] BY <1>8, <3>1
    <3> QED BY <3>1, <3>2 DEF Behind
  <2>3. ASSUME NEW i \in 1 .. Len(new) PROVE new[i] \in Behind(rest, p)
    <3>1. (n - 1) + i \in p + 1 .. Len(rest) BY <1>1, <1>4, <1>6
    <3>2. rest[(n - 1) + i] = new[i] BY <1>6
    <3> QED BY <3>1, <3>2 DEF Behind
  <2> QED BY <1>4, <2>1, <2>2, <2>3 DEF Behind, ToSet, n
<1>11. Head(queue) \in S /\ Head(queue) \in Ahead(queue, k) BY <1>1, <1>3, <1>9
<1>12. ASSUME new = << >> PROVE rest = tail
  BY <1>3, <1>12, ConcatEmptySeq DEF rest
<1>13. ASSUME k = n, new = << >> PROVE p = Len(rest)
  <2>1. Len(new) = 0 BY <1>13, EmptySeq
  <2> QED BY <1>1, <1>6, <1>13, <2>1
<1> QED BY <1>2, <1>5, <1>7, <1>9, <1>10, <1>11, <1>12, <1>13 DEF rest, tail, p, n

\* A queue of one entry, and a queue when all of one level were taken.
LEMMA QueueLevels ==
  ASSUME NEW S, NEW queue \in Seq(S)
  PROVE  /\ Ahead(queue, 0) = {} /\ Behind(queue, Len(queue)) = {}
         /\ Len(queue) \in Nat
         /\ Ahead(queue, Len(queue)) = Behind(queue, 0)
         /\ Behind(queue, 0) = {} => queue = << >>
<1>1. Len(queue) \in Nat BY LenProperties
<1>2. 1 .. 0 = {} /\ Len(queue) + 1 .. Len(queue) = {} /\ 0 + 1 = 1 BY <1>1
<1>3. ASSUME Behind(queue, 0) = {} PROVE queue = << >>
  <2>1. Len(queue) = 0 BY <1>1, <1>3 DEF Behind
  <2> QED BY <2>1, EmptySeq
<1> QED BY <1>1, <1>2, <1>3 DEF Ahead, Behind

\* J relates a level and the number of entries of this level that are left in a
\* queue to the variables of the loop that takes the queue apart.
TakesLevels(S, step, done, out, last, J, answers) ==
  /\ \A h \in 0 .. last, k \in Nat, st \in S :
       <<h, k, st>> \in J /\ k > 0
         => \/ st \in done /\ out[st] \in answers
            \/ st \notin done /\ <<h, k - 1, step[st]>> \in J
  /\ \A h \in 0 .. last, st \in S :
       <<h, 0, st>> \in J /\ h < last => \E k \in Nat : <<h + 1, k, st>> \in J
  /\ \A st \in S : <<last, 0, st>> \in J => st \in done /\ out[st] \in answers

LEMMA LoopByLevels ==
  ASSUME NEW S, NEW step, NEW done, NEW out, NEW loop, IsLoop(loop, S, step, done, out),
         NEW last \in Nat, NEW J, NEW answers,
         TakesLevels(S, step, done, out, last, J, answers)
  PROVE  \A h \in 0 .. last, k \in Nat, st \in S : <<h, k, st>> \in J => loop[st] \in answers
<1>0. /\ step \in [S -> S]
      /\ loop = [st \in S |-> IF st \in done THEN out[st] ELSE loop[step[st]]]
  BY DEF IsLoop
<1> DEFINE Holds(h, k) == \A st \in S : <<h, k, st>> \in J => loop[st] \in answers
           levels == {d \in Nat : d <= last => \A k \in Nat : Holds(last - d, k)}
<1>1. ASSUME NEW h \in 0 .. last, Holds(h, 0) PROVE \A k \in Nat : Holds(h, k)
  <2> DEFINE counts == {k \in Nat : Holds(h, k)}
  <2>1. 0 \in counts BY <1>1
  <2>2. ASSUME NEW k \in Nat, k \in counts PROVE k + 1 \in counts
    <3> SUFFICES ASSUME NEW st \in S, <<h, k + 1, st>> \in J PROVE loop[st] \in answers
      OBVIOUS
    <3>1. k + 1 \in Nat /\ k + 1 > 0 /\ (k + 1) - 1 = k OBVIOUS
    <3>2. \/ st \in done /\ out[st] \in answers
          \/ st \notin done /\ <<h, k, step[st]>> \in J
      BY <3>1 DEF TakesLevels
    <3>3. CASE st \in done /\ out[st] \in answers BY <1>0, <3>3
    <3>4. CASE st \notin done /\ <<h, k, step[st]>> \in J
      <4>1. step[st] \in S BY <1>0
      <4>2. loop[step[st]] \in answers BY <2>2, <3>4, <4>1
      <4> QED BY <1>0, <3>4, <4>2
    <3> QED BY <3>2, <3>3, <3>4
  <2> HIDE DEF counts
  <2>3. Nat \subseteq counts BY <2>1, <2>2, NatBySteps
  <2> QED BY <2>3 DEF counts
<1>2. 0 \in levels
  <2>1. last \in 0 .. last /\ last - 0 = last OBVIOUS
  <2>2. Holds(last, 0) BY <1>0 DEF TakesLevels
  <2> HIDE DEF Holds
  <2> QED BY <1>1, <2>1, <2>2
<1>3. ASSUME NEW d \in Nat, d \in levels PROVE d + 1 \in levels
  <2> SUFFICES ASSUME d + 1 <= last PROVE \A k \in Nat : Holds(last - (d + 1), k) OBVIOUS
  <2> DEFINE h == last - (d + 1)
  <2>1. h \in 0 .. last /\ h < last /\ h + 1 = last - d OBVIOUS
  <2>2. \A k \in Nat : Holds(h + 1, k)
    <3> HIDE DEF Holds, h
    <3> QED BY <1>3, <2>1
  <2> HIDE DEF h
  <2>3. Holds(h, 0) BY <2>1, <2>2 DEF TakesLevels
  <2> HIDE DEF Holds
  <2>4. \A k \in Nat : Holds(h, k) BY <1>1, <2>1, <2>3
  <2> QED BY <2>4 DEF h
<1> HIDE DEF levels
<1>4. Nat \subseteq levels BY <1>2, <1>3, NatBySteps
<1> SUFFICES ASSUME NEW h \in 0 .. last, NEW k \in Nat PROVE Holds(h, k) OBVIOUS
<1>5. last - h \in Nat /\ last - h <= last /\ last - (last - h) = h OBVIOUS
<1> HIDE DEF Holds
<1>6. last - h \in levels BY <1>4, <1>5
<1> QED BY <1>5, <1>6 DEF levels

------------------------------------------------------------------------------
\* Counting

LEMMA SameSize ==
  ASSUME NEW S, IsFiniteSet(S), NEW T, NEW map \in [S -> T],
         \A x, y \in S : map[x] = map[y] => x = y,
         \A t \in T : \E x \in S : map[x] = t
  PROVE  IsFiniteSet(T) /\ Cardinality(T) = Cardinality(S)
<1>1. map \in Bijection(S, T) BY DEF Bijection, Injection, Surjection, IsInjective
<1>2. ExistsBijection(S, T) BY <1>1 DEF ExistsBijection
<1> QED BY <1>2, FS_Bijection

\* A list without repetitions is as long as it has elements.
LEMMA InjectiveLength ==
  ASSUME NEW S, NEW list \in Seq(S), IsInjective(list)
  PROVE  IsFiniteSet(ToSet(list)) /\ Len(list) = Cardinality(ToSet(list))
<1>1. Len(list) \in Nat /\ DOMAIN list = 1 .. Len(list) /\ list \in [1 .. Len(list) -> S]
  BY LenProperties
<1>2. IsFiniteSet(1 .. Len(list)) /\ Cardinality(1 .. Len(list)) = Len(list)
  BY <1>1, FS_Interval
<1>3. list \in [1 .. Len(list) -> ToSet(list)] BY <1>1 DEF ToSet
<1>4. \A i, j \in 1 .. Len(list) : list[i] = list[j] => i = j BY <1>1 DEF IsInjective
<1>5. \A x \in ToSet(list) : \E i \in 1 .. Len(list) : list[i] = x BY <1>1 DEF ToSet
<1> QED BY <1>2, <1>3, <1>4, <1>5, SameSize

\* How often a value is met along a list without repetitions.
LEMMA TimesCount ==
  ASSUME NEW S, NEW list \in Seq(S), IsInjective(list), NEW f, NEW x
  PROVE  Times([i \in DOMAIN list |-> f[list[i]]], x)
           = Cardinality({e \in ToSet(list) : f[e] = x})
<1> DEFINE places == {i \in DOMAIN list : f[list[i]] = x}
           elements == {e \in ToSet(list) : f[e] = x}
           map == [i \in places |-> list[i]]
<1>1. Times([i \in DOMAIN list |-> f[list[i]]], x) = Cardinality(places) BY DEF Times
<1>2. IsFiniteSet(places)
  <2>1. Len(list) \in Nat /\ DOMAIN list = 1 .. Len(list) BY LenProperties
  <2>2. IsFiniteSet(1 .. Len(list)) BY <2>1, FS_Interval
  <2> QED BY <2>1, <2>2, FS_Subset
<1>3. map \in [places -> elements] BY DEF ToSet
<1>4. \A i, j \in places : map[i] = map[j] => i = j BY DEF IsInjective
<1>5. \A e \in elements : \E i \in places : map[i] = e BY DEF ToSet
<1> HIDE DEF places, elements, map
<1> QED BY <1>1, <1>2, <1>3, <1>4, <1>5, SameSize DEF elements

------------------------------------------------------------------------------
\* Sums

\* A set of as many elements as the sum of f over s.
Units(f, s) == {p \in s \X Nat : p[2] \in 1 .. f[p[1]]}

LEMMA UnitsOfOneMore ==
  ASSUME NEW S, NEW f \in [S -> Nat], NEW s \in SUBSET S, NEW x \in s,
         IsFiniteSet(Units(f, s \ {x}))
  PROVE  /\ IsFiniteSet(Units(f, s))
         /\ Cardinality(Units(f, s)) = f[x] + Cardinality(Units(f, s \ {x}))
<1> DEFINE others == Units(f, s \ {x})
           mine == {x} \X (1 .. f[x])
<1>1. f[x] \in Nat OBVIOUS
<1>2. Units(f, s) = mine \cup others /\ mine \cap others = {}
  <2>1. ASSUME NEW p \in Units(f, s) PROVE p \in mine \cup others BY DEF Units
  <2>2. ASSUME NEW p \in mine PROVE p \in Units(f, s) /\ p \notin others BY <1>1 DEF Units
  <2>3. others \subseteq Units(f, s) BY DEF Units
  <2> HIDE DEF mine, others
  <2> QED BY <2>1, <2>2, <2>3
<1>3. IsFiniteSet(mine) /\ Cardinality(mine) = f[x]
  <2>1. IsFiniteSet({x}) /\ Cardinality({x}) = 1 BY FS_Singleton
  <2>2. IsFiniteSet(1 .. f[x]) /\ Cardinality(1 .. f[x]) = f[x] BY <1>1, FS_Interval
  <2>3. IsFiniteSet(mine) /\ Cardinality(mine) = Cardinality({x}) * Cardinality(1 .. f[x])
    BY <2>1, <2>2, FS_Product
  <2> HIDE DEF mine
  <2> QED BY <1>1, <2>1, <2>2, <2>3
<1> HIDE DEF mine, others
<1>4. IsFiniteSet(others) /\ Cardinality(others) \in Nat BY FS_CardinalityType DEF others
<1>5. /\ IsFiniteSet(mine \cup others)
      /\ Cardinality(mine \cup others)
           = Cardinality(mine) + Cardinality(others) - Cardinality(mine \cap others)
  BY <1>3, <1>4, FS_Union
<1>6. Cardinality({}) = 0 BY FS_EmptySet
<1>7. IsFiniteSet(Units(f, s)) /\ Cardinality(Units(f, s)) = f[x] + Cardinality(others)
  <2> DEFINE size == Cardinality(others)
             all == Units(f, s)
  <2>1. size \in Nat /\ IsFiniteSet(all) /\ Cardinality(all) = f[x] + size - Cardinality({})
    BY <1>2, <1>3, <1>4, <1>5
  <2> HIDE DEF size, all
  <2>2. Cardinality(all) = f[x] + size BY <1>1, <1>6, <2>1
  <2> QED BY <2>1, <2>2 DEF size, all
<1> QED BY <1>7 DEF others

\* A property of every subset of a finite set, by the number of its elements.
LEMMA BySize ==
  ASSUME NEW S, IsFiniteSet(S), NEW G, {} \in G,
         \A s \in SUBSET S : s # {} => \E x \in s : s \ {x} \in G => s \in G
  PROVE  SUBSET S \subseteq G
<1> DEFINE good == {n \in Nat : \A s \in SUBSET S : Cardinality(s) = n => s \in G}
<1>1. \A s \in SUBSET S : IsFiniteSet(s) /\ Cardinality(s) \in Nat
  BY FS_Subset, FS_CardinalityType
<1>2. 0 \in good
  <2> SUFFICES ASSUME NEW s \in SUBSET S, Cardinality(s) = 0 PROVE s \in G OBVIOUS
  <2>1. s = {} BY <1>1, FS_EmptySet
  <2> QED BY <2>1
<1>3. ASSUME NEW n \in Nat, n \in good PROVE n + 1 \in good
  <2> SUFFICES ASSUME NEW s \in SUBSET S, Cardinality(s) = n + 1 PROVE s \in G OBVIOUS
  <2>1. s # {}
    <3>1. Cardinality({}) = 0 /\ n + 1 # 0 BY FS_EmptySet
    <3> QED BY <3>1
  <2>2. PICK x \in s : s \ {x} \in G => s \in G BY <2>1
  <2>3. Cardinality(s \ {x}) = n
    <3>1. Cardinality(s \ {x}) = Cardinality(s) - 1 BY <1>1, FS_RemoveElement
    <3>2. (n + 1) - 1 = n OBVIOUS
    <3> QED BY <3>1, <3>2
  <2>4. s \ {x} \in SUBSET S OBVIOUS
  <2> QED BY <1>3, <2>2, <2>3, <2>4
<1> HIDE DEF good
<1>4. Nat \subseteq good BY <1>2, <1>3, NatBySteps
<1> SUFFICES ASSUME NEW s \in SUBSET S PROVE s \in G OBVIOUS
<1> QED BY <1>1, <1>4 DEF good

LEMMA UnitsAreFinite ==
  ASSUME NEW S, IsFiniteSet(S), NEW f \in [S -> Nat]
  PROVE  \A s \in SUBSET S : IsFiniteSet(Units(f, s))
<1> DEFINE G == {s \in SUBSET S : IsFiniteSet(Units(f, s))}
<1>1. {} \in G
  <2>1. Units(f, {}) = {} BY DEF Units
  <2> QED BY <2>1, FS_EmptySet
<1>2. ASSUME NEW s \in SUBSET S, s # {} PROVE \E x \in s : s \ {x} \in G => s \in G
  <2>1. PICK x : x \in s BY <1>2
  <2>2. s \ {x} \in G => s \in G BY <2>1, UnitsOfOneMore
  <2> QED BY <2>1, <2>2
<1> HIDE DEF G
<1>3. SUBSET S \subseteq G BY <1>1, <1>2, BySize
<1> QED BY <1>3 DEF G

LEMMA SumIsCount ==
  ASSUME NEW S, IsFiniteSet(S), NEW f \in [S -> Nat]
  PROVE  SumFunction(f) = Cardinality(Units(f, S))
<1> DEFINE One(s) == CHOOSE x \in s : TRUE
           Total(g, s) == IF s = {} THEN 0 ELSE f[One(s)] + g[s \ {One(s)}]
           count == [s \in SUBSET S |-> Cardinality(Units(f, s))]
           total == CHOOSE g : g = [s \in SUBSET S |-> Total(g, s)]
<1>1. SumFunction(f) = total[S]
  BY DEF SumFunction, SumFunctionOnSet, FoldFunctionOnSet, MapThenFoldSet
<1>2. \A s \in SUBSET S : s # {} => One(s) \in s /\ s \ {One(s)} \in SUBSET S OBVIOUS
<1> HIDE DEF One
<1>3. count[{}] = 0
  <2>1. Units(f, {}) = {} BY DEF Units
  <2> QED BY <2>1, FS_EmptySet
<1>4. ASSUME NEW s \in SUBSET S, NEW x \in s PROVE count[s] = f[x] + count[s \ {x}]
  <2>1. IsFiniteSet(Units(f, s \ {x})) BY UnitsAreFinite
  <2> QED BY <2>1, UnitsOfOneMore
<1> HIDE DEF count
<1>5. \A s \in SUBSET S : count[s] = Total(count, s) BY <1>2, <1>3, <1>4
<1>6. count = [s \in SUBSET S |-> Total(count, s)]
  <2>1. count = [s \in SUBSET S |-> count[s]] BY DEF count
  <2> HIDE DEF Total
  <2> QED BY <1>5, <2>1
<1>7. total = [s \in SUBSET S |-> Total(total, s)] BY <1>6
<1> HIDE DEF total
<1>8. SUBSET S \subseteq {s \in SUBSET S : total[s] = count[s]}
  <2> DEFINE G == {s \in SUBSET S : total[s] = count[s]}
  <2>1. {} \in G BY <1>3, <1>7
  <2>2. ASSUME NEW s \in SUBSET S, s # {} PROVE \E x \in s : s \ {x} \in G => s \in G
    <3>1. One(s) \in s /\ s \ {One(s)} \in SUBSET S BY <1>2, <2>2
    <3>2. total[s] = f[One(s)] + total[s \ {One(s)}] BY <1>7, <2>2
    <3>3. count[s] = f[One(s)] + count[s \ {One(s)}] BY <1>4, <3>1
    <3> QED BY <3>1, <3>2, <3>3
  <2> HIDE DEF G
  <2>3. SUBSET S \subseteq G BY <2>1, <2>2, BySize
  <2> QED BY <2>3 DEF G
<1>9. total[S] = count[S] BY <1>8
<1> QED BY <1>1, <1>9 DEF count

\* A sum grows with its terms and with the set they are taken over.
LEMMA SumGrows ==
  ASSUME NEW T, IsFiniteSet(T), NEW S \in SUBSET T, NEW f \in [S -> Nat],
         NEW g \in [T -> Nat], \A x \in S : f[x] <= g[x]
  PROVE  /\ SumFunction(f) \in Nat /\ SumFunction(g) \in Nat
         /\ SumFunction(f) <= SumFunction(g)
<1>1. IsFiniteSet(S) BY FS_Subset
<1>2. SumFunction(f) = Cardinality(Units(f, S)) BY <1>1, SumIsCount
<1>3. SumFunction(g) = Cardinality(Units(g, T)) BY SumIsCount
<1>4. IsFiniteSet(Units(f, S)) /\ IsFiniteSet(Units(g, T)) BY <1>1, UnitsAreFinite
<1>5. Units(f, S) \subseteq Units(g, T)
  <2> SUFFICES ASSUME NEW x \in S, NEW i \in Nat, i \in 1 .. f[x] PROVE i \in 1 .. g[x]
    BY DEF Units
  <2>1. f[x] \in Nat /\ g[x] \in Nat /\ f[x] <= g[x] OBVIOUS
  <2> QED BY <2>1
<1>6. Cardinality(Units(f, S)) <= Cardinality(Units(g, T)) BY <1>4, <1>5, FS_Subset
<1> QED BY <1>2, <1>3, <1>4, <1>6, FS_CardinalityType
==============================================================================
