---------------------------- MODULE InductionLemmas ----------------------------
(***************************************************************************)
(* Induction over the natural numbers and over finite sets, stated for     *)
(* sets: G is the set of all the n, or of all the subsets, of which        *)
(* something holds.  Both follow from the fact that a well-founded         *)
(* ordering has no set without a minimal element (WFMin).                  *)
(***************************************************************************)
EXTENDS Integers, FiniteSetTheorems, WellFoundedInduction, TLAPS

\* Whatever holds of 0, and of n + 1 if it holds of n, holds of every n.
LEMMA InductionOverNaturals ==
  ASSUME NEW G, 0 \in G, \A n \in Nat : n \in G => n + 1 \in G
  PROVE  Nat \subseteq G
  <1> DEFINE Bad == {n \in Nat : n \notin G}
             Below == OpToRel(<, Nat)
  <1>1. SUFFICES ASSUME Bad # {} PROVE FALSE
    OBVIOUS
  <1>2. IsWellFoundedOn(Below, Nat)
    BY NatLessThanWellFounded
  <1>3. Bad \subseteq Nat
    OBVIOUS
  <1>4. \A m, n \in Nat : m < n => <<m, n>> \in Below
    BY Zenon DEF OpToRel
  <1>5. \A n \in Bad : n # 0 /\ n - 1 \in Bad /\ n - 1 \in Nat /\ n - 1 < n
    <2> TAKE n \in Bad
    <2>1. n \in Nat /\ n \notin G /\ n # 0
      OBVIOUS
    <2>2. n - 1 \in Nat /\ n = (n - 1) + 1
      BY <2>1
    <2>3. n - 1 \notin G
      BY <2>1, <2>2
    <2> QED
      BY <2>1, <2>2, <2>3
  <1> HIDE DEF Below, Bad
  <1>6. PICK n \in Bad : \A m \in Bad : ~ <<m, n>> \in Below
    BY <1>1, <1>2, <1>3, WFMin, Zenon
  <1> QED
    BY <1>3, <1>4, <1>5, <1>6

\* Whatever holds of the empty set, and of a set if it holds of the set without any
\* one of its elements, holds of every finite set.
LEMMA InductionOverSubsets ==
  ASSUME NEW S, IsFiniteSet(S), NEW G, {} \in G,
         \A T \in SUBSET S : (\A x \in T : T \ {x} \in G) /\ T # {} => T \in G
  PROVE  S \in G
  <1> DEFINE Bad == {T \in SUBSET S : T \notin G}
             Below == StrictSubsetOrdering(S)
             All == SUBSET S
  <1>1. SUFFICES ASSUME Bad # {} PROVE FALSE
    OBVIOUS
  <1>2. IsWellFoundedOn(Below, All)
    BY FS_StrictSubsetOrderingWellFounded, FS_FiniteSubsetsOfFinite
  <1>3. Bad \subseteq All
    OBVIOUS
  <1>4. \A T \in All : \A U \in SUBSET T : U # T => <<U, T>> \in Below
    BY DEF StrictSubsetOrdering
  <1>5. \A T \in Bad : \E x \in T : T \ {x} \in Bad
    OBVIOUS
  <1> HIDE DEF Below, Bad, All
  <1>6. PICK T \in Bad : \A U \in Bad : ~ <<U, T>> \in Below
    BY <1>1, <1>2, <1>3, WFMin, Zenon
  <1>7. PICK x \in T : T \ {x} \in Bad
    BY <1>5
  <1>8. T \in All /\ T \ {x} \in SUBSET T /\ T \ {x} # T
    BY <1>3
  <1> QED
    BY <1>4, <1>6, <1>7, <1>8

\* Among finitely many elements some element has none after it.
LEMMA SomethingIsLast ==
  ASSUME NEW S, IsFiniteSet(S), S # {}, NEW R,
         \A x \in S : <<x, x>> \notin R,
         \A x, y, z \in S : <<x, y>> \in R /\ <<y, z>> \in R => <<x, z>> \in R
  PROVE  \E x \in S : \A y \in S : <<x, y>> \notin R
  <1> DEFINE G == {T \in SUBSET S : T # {} => \E x \in T : \A y \in T : <<x, y>> \notin R}
  <1>1. ASSUME NEW T \in SUBSET S, T # {}, \A x \in T : T \ {x} \in G
        PROVE  T \in G
    <2>1. PICK z \in T : T \ {z} \in G
      BY <1>1
    <2>2. SUFFICES \E x \in T : \A y \in T : <<x, y>> \notin R
      OBVIOUS
    <2>3. CASE T \ {z} = {}
      BY <2>1, <2>3
    <2>4. CASE T \ {z} # {}
      <3>1. PICK x \in T \ {z} : \A y \in T \ {z} : <<x, y>> \notin R
        BY <2>1, <2>4
      <3>2. CASE <<x, z>> \notin R
        BY <3>1, <3>2
      <3>3. CASE <<x, z>> \in R
        <4>1. \A y \in T \ {z} : <<z, y>> \notin R
          BY <3>1, <3>3
        <4>2. <<z, z>> \notin R
          BY <2>1
        <4> QED
          BY <4>1, <4>2
      <3> QED
        BY <3>2, <3>3
    <2> QED
      BY <2>3, <2>4
  <1>2. {} \in G
    OBVIOUS
  <1> HIDE DEF G
  <1>3. S \in G
    BY <1>1, <1>2, InductionOverSubsets
  <1> QED
    BY <1>3 DEF G

\* f iterates a step `last' times from a base.
Iterates(f, step, base, last) ==
  \A n \in 0 .. last : f[n] = IF n = 0 THEN base ELSE step[f[n - 1]]

\* A step on D can be iterated from any base in D.
LEMMA IterationExists ==
  ASSUME NEW D, NEW step \in [D -> D], NEW base \in D, NEW last \in Nat
  PROVE  \E f \in [0 .. last -> D] : Iterates(f, step, base, last)
  <1> DEFINE G == {k \in Nat : \E f \in [0 .. k -> D] : Iterates(f, step, base, k)}
  <1> USE DEF Iterates
  <1>1. 0 \in G
    <2>1. [n \in 0 .. 0 |-> base] \in [0 .. 0 -> D] /\ Iterates([n \in 0 .. 0 |-> base], step, base, 0)
      OBVIOUS
    <2> QED
      BY <2>1
  <1>2. ASSUME NEW k \in Nat, k \in G PROVE k + 1 \in G
    <2>1. PICK f \in [0 .. k -> D] : Iterates(f, step, base, k)
      BY <1>2
    <2> DEFINE g == [n \in 0 .. k + 1 |-> IF n <= k THEN f[n] ELSE step[f[k]]]
    <2>2. f[k] \in D /\ step[f[k]] \in D /\ \A n \in 0 .. k : f[n] \in D
      OBVIOUS
    <2>3. g \in [0 .. k + 1 -> D]
      <3>1. \A n \in 0 .. k + 1 : n <= k => n \in 0 .. k
        OBVIOUS
      <3> QED
        BY <2>2, <3>1
    <2>4. \A n \in 0 .. k + 1 : g[n] = IF n <= k THEN f[n] ELSE step[f[k]]
      OBVIOUS
    <2> HIDE DEF g
    <2>5. ASSUME NEW n \in 0 .. k + 1
          PROVE  g[n] = IF n = 0 THEN base ELSE step[g[n - 1]]
      <3>1. CASE n = k + 1
        <4>1. n # 0 /\ n - 1 = k /\ k \in 0 .. k + 1 /\ ~(n <= k)
          BY <3>1
        <4> QED
          BY <2>4, <4>1
      <3>2. CASE n # k + 1
        <4>1. n \in 0 .. k /\ n <= k /\ (n # 0 => n - 1 \in 0 .. k + 1 /\ n - 1 <= k)
          BY <3>2
        <4> QED
          BY <2>1, <2>4, <4>1
      <3> QED
        BY <3>1, <3>2
    <2> QED
      BY <2>3, <2>5
  <1> HIDE DEF G
  <1>3. last \in G
    BY <1>1, <1>2, InductionOverNaturals
  <1> QED
    BY <1>3 DEF G

\* What grows at each step has grown at any later one.
LEMMA GrowthAccumulates ==
  ASSUME NEW last \in Nat, NEW f, \A n \in 1 .. last : f[n - 1] \subseteq f[n],
         NEW i \in 0 .. last, NEW j \in 0 .. last, i <= j
  PROVE  f[i] \subseteq f[j]
  <1> DEFINE G == {k \in Nat : i <= k /\ k <= last => f[i] \subseteq f[k]}
  <1>1. 0 \in G
    OBVIOUS
  <1>2. ASSUME NEW k \in Nat, k \in G PROVE k + 1 \in G
    <2>1. SUFFICES ASSUME i <= k + 1, k + 1 <= last PROVE f[i] \subseteq f[k + 1]
      OBVIOUS
    <2>2. CASE i = k + 1
      BY <2>2
    <2>3. CASE i # k + 1
      <3>1. i <= k /\ k <= last /\ k + 1 \in 1 .. last /\ (k + 1) - 1 = k
        BY <2>1, <2>3
      <3>2. f[i] \subseteq f[k]
        BY <1>2, <3>1
      <3>3. f[k] \subseteq f[k + 1]
        <4>1. f[(k + 1) - 1] \subseteq f[k + 1]
          BY <3>1
        <4> QED
          BY <3>1, <4>1
      <3> QED
        BY <3>2, <3>3
    <2> QED
      BY <2>2, <2>3
  <1> HIDE DEF G
  <1>3. j \in G
    BY <1>1, <1>2, InductionOverNaturals
  <1> QED
    BY <1>3 DEF G

\* What no step leaves, no iteration leaves.
LEMMA IterationStaysWithin ==
  ASSUME NEW D, NEW step \in [D -> D], NEW base \in D, NEW last \in Nat,
         NEW f \in [0 .. last -> D], Iterates(f, step, base, last),
         NEW C, base \subseteq C, \A A \in D : A \subseteq C => step[A] \subseteq C
  PROVE  f[last] \subseteq C
  <1> DEFINE G == {k \in Nat : k <= last => f[k] \subseteq C}
  <1>1. 0 \in G
    BY DEF Iterates
  <1>2. ASSUME NEW k \in Nat, k \in G PROVE k + 1 \in G
    <2>1. SUFFICES ASSUME k + 1 <= last PROVE f[k + 1] \subseteq C
      OBVIOUS
    <2>2. k \in 0 .. last /\ k + 1 \in 0 .. last /\ k + 1 # 0 /\ (k + 1) - 1 = k
      BY <2>1
    <2>3. f[k + 1] = step[f[k]]
      BY <2>2 DEF Iterates
    <2>4. f[k] \in D /\ f[k] \subseteq C
      BY <1>2, <2>2
    <2> QED
      BY <2>3, <2>4
  <1> HIDE DEF G
  <1>3. last \in G
    BY <1>1, <1>2, InductionOverNaturals
  <1> QED
    BY <1>3 DEF G

\* A growing step on the subsets of a finite set has come to rest after as many
\* iterations as the set has elements.
LEMMA IterationRests ==
  ASSUME NEW S, IsFiniteSet(S), NEW step \in [SUBSET S -> SUBSET S],
         \A A \in SUBSET S : A \subseteq step[A],
         NEW base \in SUBSET S, NEW f \in [0 .. Cardinality(S) -> SUBSET S],
         Iterates(f, step, base, Cardinality(S))
  PROVE  step[f[Cardinality(S)]] = f[Cardinality(S)]
  <1> DEFINE N == Cardinality(S)
             G == {k \in Nat : k <= N => step[f[k]] = f[k] \/ Cardinality(f[k]) >= k}
  <1>0. N \in Nat
    BY FS_CardinalityType
  <1>1. \A k \in 0 .. N : /\ f[k] \in SUBSET S /\ step[f[k]] \in SUBSET S
                          /\ f[k] \subseteq step[f[k]]
                          /\ IsFiniteSet(f[k]) /\ IsFiniteSet(step[f[k]])
                          /\ Cardinality(f[k]) \in Nat
    <2> TAKE k \in 0 .. N
    <2>1. f[k] \in SUBSET S /\ step[f[k]] \in SUBSET S /\ f[k] \subseteq step[f[k]]
      OBVIOUS
    <2> QED
      BY <2>1, FS_Subset, FS_CardinalityType
  <1>2. 0 \in G
    BY <1>0, <1>1
  <1>3. ASSUME NEW k \in Nat, k \in G PROVE k + 1 \in G
    <2>1. SUFFICES ASSUME k + 1 <= N
                   PROVE  step[f[k + 1]] = f[k + 1] \/ Cardinality(f[k + 1]) >= k + 1
      OBVIOUS
    <2>2. k \in 0 .. N /\ k + 1 \in 0 .. N /\ k + 1 # 0 /\ (k + 1) - 1 = k /\ k <= N
      BY <1>0, <2>1
    <2>3. f[k + 1] = step[f[k]]
      BY <2>2 DEF Iterates
    <2>4. CASE step[f[k]] = f[k]
      BY <2>3, <2>4
    <2>5. CASE step[f[k]] # f[k]
      <3>1. Cardinality(f[k]) >= k
        BY <1>3, <2>2, <2>5
      <3>2. /\ f[k] \in SUBSET step[f[k]] /\ IsFiniteSet(step[f[k]])
            /\ Cardinality(f[k]) \in Nat
        BY <1>1, <2>2
      <3>3. Cardinality(f[k]) < Cardinality(step[f[k]])
        BY <2>5, <3>2, FS_Subset, FS_CardinalityType
      <3> QED
        BY <1>1, <2>2, <2>3, <3>1, <3>2, <3>3
    <2> QED
      BY <2>4, <2>5
  <1> HIDE DEF G
  <1>4. N \in G
    BY <1>0, <1>2, <1>3, InductionOverNaturals
  <1>5. CASE step[f[N]] = f[N]
    BY <1>5
  <1>6. CASE Cardinality(f[N]) >= N
    <2>1. N \in 0 .. N
      BY <1>0
    <2>2. f[N] \in SUBSET S /\ Cardinality(f[N]) \in Nat /\ Cardinality(f[N]) <= N
      BY <1>0, <1>1, <2>1, FS_Subset
    <2>3. f[N] = S
      BY <1>0, <1>6, <2>2, FS_Subset
    <2> QED
      BY <1>1, <2>1, <2>3
  <1> QED
    BY <1>0, <1>4, <1>5, <1>6 DEF G

\* s lists the members of S, smallest first.
Lists(s, S) ==
  /\ s \in [1 .. Cardinality(S) -> S]
  /\ {s[i] : i \in DOMAIN s} = S
  /\ \A i, j \in DOMAIN s : i < j => s[i] < s[j]

\* Finitely many numbers can be listed.
LEMMA NumbersCanBeListed ==
  ASSUME NEW S \in SUBSET Nat, IsFiniteSet(S)
  PROVE  \E s : Lists(s, S)
  <1> DEFINE G == {T \in SUBSET S : \E s : Lists(s, T)}
  <1>1. {} \in G
    <2>1. Cardinality({}) = 0
      BY FS_EmptySet
    <2>2. 1 .. 0 = {}
      OBVIOUS
    <2>3. Lists([i \in {} |-> i], {})
      BY <2>1, <2>2 DEF Lists
    <2> QED
      BY <2>3
  <1>2. ASSUME NEW T \in SUBSET S, \A x \in T : T \ {x} \in G, T # {} PROVE T \in G
    <2>1. PICK x \in T : \A y \in T : y <= x
      <3> DEFINE R == {p \in T \X T : p[1] < p[2]}
      <3>1. IsFiniteSet(T)
        BY FS_Subset
      <3>2. \A y, z \in T : <<y, z>> \in R <=> y < z
        OBVIOUS
      <3>3. \A y, z, u \in T : <<y, z>> \in R /\ <<z, u>> \in R => <<y, u>> \in R
        BY <3>2
      <3>4. \A y \in T : <<y, y>> \notin R
        BY <3>2
      <3> HIDE DEF R
      <3>5. \E y \in T : \A z \in T : <<y, z>> \notin R
        BY <1>2, <3>1, <3>3, <3>4, SomethingIsLast
      <3>6. \A y, z \in T : y \in Nat /\ z \in Nat
        OBVIOUS
      <3>7. PICK y \in T : \A z \in T : <<y, z>> \notin R
        BY <3>5
      <3>8. \A z \in T : ~(y < z)
        BY <3>2, <3>7
      <3>9. \A z \in T : z <= y
        BY <3>6, <3>8
      <3> QED
        BY <3>9
    <2> DEFINE U == T \ {x}
               n == Cardinality(U)
    <2>2. IsFiniteSet(T) /\ IsFiniteSet(U) /\ n \in Nat /\ Cardinality(T) = n + 1
      <3>1. IsFiniteSet(T)
        BY FS_Subset
      <3>2. Cardinality(U) = Cardinality(T) - 1 /\ IsFiniteSet(U)
        BY <3>1, FS_RemoveElement
      <3> QED
        BY <3>1, <3>2, FS_CardinalityType
    <2>3. PICK s : Lists(s, U)
      BY <1>2
    <2>4. /\ s \in [1 .. n -> U] /\ {s[i] : i \in 1 .. n} = U
          /\ \A i, j \in 1 .. n : i < j => s[i] < s[j]
      BY <2>3 DEF Lists
    <2>5. U \subseteq T /\ x \notin U /\ T = U \union {x}
      OBVIOUS
    <2> HIDE DEF U, n
    <2> DEFINE t == [i \in 1 .. n + 1 |-> IF i = n + 1 THEN x ELSE s[i]]
    <2>6. \A i \in 1 .. n : i \in 1 .. n + 1 /\ i # n + 1
      BY <2>2
    <2>7. n + 1 \in 1 .. n + 1 /\ \A i \in 1 .. n + 1 : i # n + 1 => i \in 1 .. n
      BY <2>2
    <2>8. t[n + 1] = x /\ \A i \in 1 .. n : t[i] = s[i]
      BY <2>6, <2>7
    <2>9. t \in [1 .. n + 1 -> T]
      BY <2>4, <2>5, <2>7
    <2> HIDE DEF t
    <2>10. {t[i] : i \in 1 .. n + 1} = T
      BY <2>4, <2>5, <2>6, <2>7, <2>8, <2>9
    <2>11. ASSUME NEW i \in 1 .. n + 1, NEW j \in 1 .. n + 1, i < j PROVE t[i] < t[j]
      <3>1. i \in 1 .. n
        BY <2>2, <2>11
      <3>2. CASE j = n + 1
        <4>1. s[i] \in U /\ s[i] <= x /\ s[i] # x
          BY <2>1, <2>4, <2>5, <3>1
        <4>2. x \in Nat /\ s[i] \in Nat
          BY <2>5, <4>1
        <4> QED
          BY <2>8, <3>1, <3>2, <4>1, <4>2
      <3>3. CASE j # n + 1
        BY <2>4, <2>7, <2>8, <2>11, <3>1, <3>3
      <3> QED
        BY <3>2, <3>3
    <2>12. Lists(t, T)
      BY <2>2, <2>9, <2>10, <2>11 DEF Lists
    <2> QED
      BY <2>12
  <1> HIDE DEF G
  <1>3. S \in G
    BY <1>1, <1>2, InductionOverSubsets
  <1> QED
    BY <1>3 DEF G

-----------------------------------------------------------------------------
(***************************************************************************)
(* Trees.  What is below l in the set S, where p is the parent of each of  *)
(* its members: l, its children, their children, and so on, level by       *)
(* level.                                                                  *)
(***************************************************************************)
Levels(f, last, S, p, l) ==
  f = [n \in 0 .. last |->
         IF n = 0 THEN {l}
         ELSE f[n - 1] \union {k \in S : p[k] \in f[n - 1]}]

BelowIn(S, p, l) == (CHOOSE f : Levels(f, Cardinality(S), S, p, l))[Cardinality(S)]

\* No member of C has a child outside.
ClosedIn(S, p, C) == \A k \in S : p[k] \in C => k \in C

\* What is below l is the smallest closed set that has l.
LEMMA BelowIsSmallest ==
  ASSUME NEW S, IsFiniteSet(S), NEW p, NEW l \in S
  PROVE  /\ BelowIn(S, p, l) \subseteq S
         /\ l \in BelowIn(S, p, l)
         /\ ClosedIn(S, p, BelowIn(S, p, l))
         /\ \A C : l \in C /\ ClosedIn(S, p, C) => BelowIn(S, p, l) \subseteq C
  <1> DEFINE last == Cardinality(S)
             D == SUBSET S
             step == [A \in D |-> A \union {k \in S : p[k] \in A}]
             level == CHOOSE f : Levels(f, last, S, p, l)
  <1>1. BelowIn(S, p, l) = level[last]
    BY Zenon DEF BelowIn
  <1>2. last \in Nat
    BY FS_CardinalityType
  <1>3. step \in [D -> D] /\ {l} \in D
    OBVIOUS
  <1>4. \A A \in D : step[A] = A \union {k \in S : p[k] \in A}
    OBVIOUS
  <1> HIDE DEF last, D, step
  <1>5. PICK f \in [0 .. last -> D] : Iterates(f, step, {l}, last)
    BY <1>2, <1>3, IterationExists
  <1>6. Levels(f, last, S, p, l)
    <2>1. \A n \in 0 .. last : n # 0 => n - 1 \in 0 .. last
      BY <1>2
    <2>2. \A n \in 0 .. last : f[n] =
            IF n = 0 THEN {l} ELSE f[n - 1] \union {k \in S : p[k] \in f[n - 1]}
      BY <1>4, <1>5, <2>1 DEF Iterates
    <2>3. f = [n \in 0 .. last |-> f[n]]
      OBVIOUS
    <2> QED
      BY <2>2, <2>3, Zenon DEF Levels
  <1>7. Levels(level, last, S, p, l)
    BY <1>6, Zenon
  <1> HIDE DEF level
  <1>8. \A n \in 0 .. last : level[n] =
          IF n = 0 THEN {l}
          ELSE level[n - 1] \union {k \in S : p[k] \in level[n - 1]}
    BY <1>7 DEF Levels
  <1>9. level \in [0 .. last -> D] /\ Iterates(level, step, {l}, last)
    <2> DEFINE G == {n \in Nat : n <= last => level[n] \in D}
    <2>1. 0 \in G
      <3>1. 0 \in 0 .. last
        BY <1>2
      <3>2. level[0] = {l}
        BY <1>8, <3>1
      <3> QED
        BY <1>3, <3>2
    <2>2. ASSUME NEW n \in Nat, n \in G PROVE n + 1 \in G
      <3>1. SUFFICES ASSUME n + 1 <= last PROVE level[n + 1] \in D
        OBVIOUS
      <3>2. n + 1 \in 0 .. last /\ n + 1 # 0 /\ (n + 1) - 1 = n /\ n <= last
        BY <1>2, <3>1
      <3>3. level[n + 1] = level[n] \union {k \in S : p[k] \in level[n]}
        BY <1>8, <3>2
      <3>4. level[n] \in D
        BY <2>2, <3>2
      <3> QED
        BY <3>3, <3>4 DEF D
    <2> HIDE DEF G
    <2>3. Nat \subseteq G
      BY <2>1, <2>2, InductionOverNaturals
    <2>4. \A n \in 0 .. last : level[n] \in D
      BY <1>2, <2>3 DEF G
    <2>5. level = [n \in 0 .. last |-> level[n]]
      BY <1>7 DEF Levels
    <2>6. \A n \in 0 .. last : n # 0 => n - 1 \in 0 .. last
      BY <1>2
    <2>7. \A n \in 0 .. last : n # 0 => level[n] = step[level[n - 1]]
      BY <1>4, <1>8, <2>4, <2>6
    <2> QED
      BY <1>8, <2>4, <2>5, <2>7 DEF Iterates
  <1>10. 0 \in 0 .. last /\ last \in 0 .. last /\ 0 <= last
    BY <1>2
  <1>11. level[last] \in D /\ level[last] \subseteq S
    BY <1>9, <1>10 DEF D
  <1>12. l \in level[last]
    <2>1. \A n \in 1 .. last : level[n - 1] \subseteq level[n]
      <3>1. \A n \in 1 .. last : n \in 0 .. last /\ n # 0
        BY <1>2
      <3> QED
        BY <1>8, <3>1
    <2>2. level[0] \subseteq level[last]
      BY <1>2, <1>10, <2>1, GrowthAccumulates
    <2> QED
      BY <1>8, <1>10, <2>2
  <1>13. step[level[last]] = level[last]
    <2>1. \A A \in D : A \subseteq step[A]
      BY <1>4
    <2> QED
      BY <1>3, <1>9, <2>1, IterationRests DEF D, last
  <1>14. ClosedIn(S, p, level[last])
    BY <1>4, <1>11, <1>13 DEF ClosedIn
  <1>15. ASSUME NEW C, l \in C, ClosedIn(S, p, C) PROVE level[last] \subseteq C
    <2>1. \A A \in D : A \subseteq C => step[A] \subseteq C
      BY <1>4, <1>15 DEF ClosedIn
    <2>2. {l} \subseteq C
      BY <1>15
    <2> QED
      BY <1>2, <1>3, <1>9, <2>1, <2>2, IterationStaysWithin
  <1> QED
    BY <1>1, <1>11, <1>12, <1>14, <1>15

===============================================================================
