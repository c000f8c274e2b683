---------------------------- MODULE PostingLemmas ----------------------------
(***************************************************************************)
(* What the proofs use of the vocabulary of postings: what a posting does  *)
(* to one bucket, how a total over the ledger changes with one entry, and  *)
(* that an admissible posting keeps a ledger sound.                        *)
(***************************************************************************)
EXTENDS QuantityPosting, InductionLemmas

\* The buckets a posting touches are buckets.
LEMMA TouchedBuckets ==
  ASSUME NEW r \in Posting
  PROVE  /\ Touched(r) \subseteq Bucket
         /\ NoBucket \notin Bucket
         /\ r.quantity \in Nat /\ r.quantity > 0
         /\ r.expected \in Nat
  <1>1. /\ r.source \in Bucket \union {NoBucket}
        /\ r.target \in Bucket \union {NoBucket}
        /\ r.quantity \in Quantity
        /\ r.expected \in Nat
    BY DEF Posting
  <1>2. Touched(r) \subseteq Bucket
    BY <1>1 DEF Touched
  <1>3. NoBucket \notin Bucket /\ Quantity \subseteq Nat \ {0}
    BY PostingConstants DEF PostingConstants, Bucket
  <1>4. r.quantity \in Nat \ {0}
    BY <1>1, <1>3
  <1> QED
    BY <1>1, <1>2, <1>3, <1>4

\* Every bucket of a posting can bear it: what is saved is not negative, and
\* a bucket left with stock is the posting's target or held stock before.
LEMMA NewQuantityNat ==
  ASSUME NEW r \in Posting, WellFormed(r), NEW b \in Touched(r),
         NEW v \in Nat, BucketAllows(r, b, v)
  PROVE  /\ NewQuantity(r, b, v) \in Nat
         /\ NewQuantity(r, b, v) > 0 => b = r.target \/ v > 0
  <1>1. r.quantity \in Nat /\ r.expected \in Nat
    BY TouchedBuckets
  <1>2. b \in {r.source, r.target} /\ r.source # r.target /\ b # NoBucket
    BY DEF Touched, WellFormed
  <1>3. CASE b = r.target
    <2>1. Effect(r, b) = r.quantity
      BY <1>1, <1>2, <1>3 DEF Effect
    <2> QED
      BY <1>1, <1>3, <2>1 DEF NewQuantity
  <1>4. CASE b = r.source
    <2>1. Effect(r, b) = -r.quantity
      BY <1>1, <1>2, <1>4 DEF Effect
    <2>2. r.quantity <= v
      BY <1>4 DEF BucketAllows
    <2>3. r.type = "COUNT_RECONCILIATION" => v = r.expected
      BY DEF BucketAllows
    <2> QED
      BY <1>1, <2>1, <2>2, <2>3 DEF NewQuantity
  <1> QED
    BY <1>2, <1>3, <1>4

-----------------------------------------------------------------------------
(***************************************************************************)
(* Totals.  Total folds over its set with a recursive function, of which   *)
(* TotalUnfolds recovers one step for every finite set.                    *)
(***************************************************************************)

\* The element a total takes first, and what it is to compute totals by g, on a set
\* c of sets.
Picked(s) == CHOOSE x \in s : TRUE
Computes(g, c) ==
  g = [s \in c |-> IF s = {} THEN 0 ELSE Picked(s)[2] + g[s \ {Picked(s)}]]

\* A total is what such a function says, the one for the subsets of its own set.
LEMMA TotalChosen ==
  ASSUME NEW entries
  PROVE  Total(entries) = (CHOOSE g : Computes(g, SUBSET entries))[entries]
  BY Zenon DEF Total, MapThenSumSet, MapThenFoldSet, Computes, Picked

\* There is such a function for the subsets of a finite set.
LEMMA TotalComputed ==
  ASSUME NEW S, IsFiniteSet(S)
  PROVE  \E g : Computes(g, SUBSET S)
  <1> DEFINE Small(n) == {T \in SUBSET S : Cardinality(T) <= n}
             G == {n \in Nat : \E g : Computes(g, Small(n))}
  <1>1. \A T \in SUBSET S : IsFiniteSet(T) /\ Cardinality(T) \in Nat
    BY FS_Subset, FS_CardinalityType
  <1>2. 0 \in G
    <2>1. \A T \in Small(0) : T = {}
      BY <1>1, FS_EmptySet
    <2>2. Computes([s \in Small(0) |-> 0], Small(0))
      BY <2>1 DEF Computes
    <2> QED
      BY <2>2
  <1>3. ASSUME NEW n \in Nat, n \in G PROVE n + 1 \in G
    <2>1. PICK g : Computes(g, Small(n))
      BY <1>3
    <2> DEFINE h == [s \in Small(n + 1) |->
                       IF s = {} THEN 0 ELSE Picked(s)[2] + g[s \ {Picked(s)}]]
    <2>2. ASSUME NEW s \in Small(n + 1), s # {}
          PROVE  s \ {Picked(s)} \in Small(n) /\ s \ {Picked(s)} \in Small(n + 1)
      <3>1. Picked(s) \in s
        BY <2>2 DEF Picked
      <3>2. Cardinality(s \ {Picked(s)}) = Cardinality(s) - 1
        BY <1>1, <3>1, FS_RemoveElement
      <3>3. Cardinality(s) \in Nat /\ Cardinality(s) <= n + 1
        BY <1>1
      <3> QED
        BY <3>2, <3>3
    <2>3. \A s \in Small(n) : g[s] = IF s = {} THEN 0
                                     ELSE Picked(s)[2] + g[s \ {Picked(s)}]
      BY <2>1 DEF Computes
    <2>4. \A s \in Small(n) : s \in Small(n + 1)
      BY <1>1
    <2>5. \A s \in Small(n) : h[s] = g[s]
      BY <2>3, <2>4
    <2> HIDE DEF Small
    <2>6. \A s \in Small(n + 1) :
            h[s] = IF s = {} THEN 0 ELSE Picked(s)[2] + h[s \ {Picked(s)}]
      BY <2>2, <2>5
    <2>7. h = [s \in Small(n + 1) |-> h[s]]
      OBVIOUS
    <2> HIDE DEF h
    <2>8. [s \in Small(n + 1) |-> h[s]] =
            [s \in Small(n + 1) |->
               IF s = {} THEN 0 ELSE Picked(s)[2] + h[s \ {Picked(s)}]]
      BY <2>6
    <2>9. Computes(h, Small(n + 1))
      BY <2>7, <2>8 DEF Computes
    <2> QED
      BY <2>9
  <1>4. Nat \subseteq G
    BY <1>2, <1>3, InductionOverNaturals
  <1>5. Cardinality(S) \in Nat /\ SUBSET S = Small(Cardinality(S))
    BY <1>1, FS_Subset
  <1> QED
    BY <1>4, <1>5

\* Two such functions agree wherever both are defined, so any of them says the total.
LEMMA TotalsAgree ==
  ASSUME NEW S, IsFiniteSet(S), NEW g, Computes(g, SUBSET S), NEW T \in SUBSET S
  PROVE  Total(T) = g[T]
  <1> DEFINE h == CHOOSE f : Computes(f, SUBSET T)
             G == {U \in SUBSET T : g[U] = h[U]}
  <1>1. IsFiniteSet(T)
    BY FS_Subset
  <1>2. \E f : Computes(f, SUBSET T)
    BY <1>1, TotalComputed
  <1>3. Computes(h, SUBSET T)
    BY <1>2, Zenon
  <1> HIDE DEF h
  <1>4. /\ \A U \in SUBSET T : g[U] = IF U = {} THEN 0
                                      ELSE Picked(U)[2] + g[U \ {Picked(U)}]
        /\ \A U \in SUBSET T : h[U] = IF U = {} THEN 0
                                      ELSE Picked(U)[2] + h[U \ {Picked(U)}]
    BY <1>3 DEF Computes
  <1>5. {} \in G
    BY <1>4
  <1>6. ASSUME NEW U \in SUBSET T, \A x \in U : U \ {x} \in G, U # {}
        PROVE  U \in G
    <2>1. Picked(U) \in U
      BY <1>6 DEF Picked
    <2>2. g[U \ {Picked(U)}] = h[U \ {Picked(U)}]
      BY <1>6, <2>1
    <2> QED
      BY <1>4, <1>6, <2>2
  <1> HIDE DEF G
  <1>7. T \in G
    BY <1>1, <1>5, <1>6, InductionOverSubsets
  <1> QED
    BY <1>7, TotalChosen DEF G, h

\* The total of nothing is 0; any other is one summand and the total of the rest.
LEMMA TotalUnfolds ==
  ASSUME NEW S, IsFiniteSet(S)
  PROVE  /\ Total({}) = 0
         /\ S # {} => Total(S) = Picked(S)[2] + Total(S \ {Picked(S)})
  <1>1. PICK g : Computes(g, SUBSET S)
    BY TotalComputed
  <1>2. \A T \in SUBSET S : Total(T) = g[T]
    BY <1>1, TotalsAgree
  <1>3. \A T \in SUBSET S : g[T] = IF T = {} THEN 0
                                   ELSE Picked(T)[2] + g[T \ {Picked(T)}]
    BY <1>1 DEF Computes
  <1>4. {} \in SUBSET S /\ S \in SUBSET S /\ S \ {Picked(S)} \in SUBSET S
    OBVIOUS
  <1> QED
    BY <1>2, <1>3, <1>4

\* The total of integers is one.
LEMMA TotalInt ==
  ASSUME NEW S, IsFiniteSet(S), \A e \in S : e[2] \in Int
  PROVE  Total(S) \in Int
  <1> DEFINE G == {T \in SUBSET S : Total(T) \in Int}
  <1>0. Total({}) = 0
    BY TotalUnfolds, FS_EmptySet
  <1>1. {} \in G
    BY <1>0
  <1>2. ASSUME NEW T \in SUBSET S, \A x \in T : T \ {x} \in G, T # {}
        PROVE  T \in G
    <2>1. Picked(T) \in T
      BY <1>2 DEF Picked
    <2>2. Total(T) = Picked(T)[2] + Total(T \ {Picked(T)})
      BY <1>2, TotalUnfolds, FS_Subset
    <2> QED
      BY <1>2, <2>1, <2>2
  <1> HIDE DEF G
  <1>3. S \in G
    BY <1>1, <1>2, InductionOverSubsets
  <1> QED
    BY <1>3 DEF G

\* The order of the summands does not matter: any one may be taken first.
LEMMA TotalRemove ==
  ASSUME NEW S, IsFiniteSet(S), \A e \in S : e[2] \in Int, NEW e \in S
  PROVE  Total(S) = e[2] + Total(S \ {e})
  <1> DEFINE G == {T \in SUBSET S : \A x \in T : Total(T) = x[2] + Total(T \ {x})}
  <1>1. {} \in G
    OBVIOUS
  <1>2. ASSUME NEW T \in SUBSET S, \A x \in T : T \ {x} \in G, T # {}
        PROVE  T \in G
    <2> DEFINE p == Picked(T)
    <2>1. p \in T
      BY <1>2 DEF Picked
    <2>2. Total(T) = p[2] + Total(T \ {p})
      BY <1>2, TotalUnfolds, FS_Subset
    <2>3. \A U \in SUBSET S : Total(U) \in Int
      BY TotalInt, FS_Subset
    <2> HIDE DEF p
    <2>4. ASSUME NEW x \in T PROVE Total(T) = x[2] + Total(T \ {x})
      <3>1. CASE x = p
        BY <2>2, <3>1
      <3>2. CASE x # p
        <4>1. Total(T \ {p}) = x[2] + Total((T \ {p}) \ {x})
          BY <1>2, <2>1, <3>2
        <4>2. Total(T \ {x}) = p[2] + Total((T \ {x}) \ {p})
          BY <1>2, <2>1, <3>2
        <4>3. (T \ {p}) \ {x} = (T \ {x}) \ {p}
          OBVIOUS
        <4>4. /\ Total((T \ {x}) \ {p}) \in Int
              /\ x[2] \in Int /\ p[2] \in Int
          BY <2>1, <2>3
        <4>5. \A a, b, c \in Int : a + (b + c) = b + (a + c)
          OBVIOUS
        <4>6. p[2] + (x[2] + Total((T \ {x}) \ {p}))
                = x[2] + (p[2] + Total((T \ {x}) \ {p}))
          BY <4>4, <4>5, Zenon
        <4> QED
          BY <2>2, <4>1, <4>2, <4>3, <4>6, Zenon
      <3> QED
        BY <3>1, <3>2
    <2> QED
      BY <2>4
  <1> HIDE DEF G
  <1>3. S \in G
    BY <1>1, <1>2, InductionOverSubsets
  <1> QED
    BY <1>3 DEF G

\* A summand that joins the set adds itself.
LEMMA TotalAdd ==
  ASSUME NEW S, IsFiniteSet(S), \A e \in S : e[2] \in Int, NEW e, e \notin S,
         e[2] \in Int
  PROVE  Total(S \union {e}) = Total(S) + e[2]
  <1>1. IsFiniteSet(S \union {e}) /\ (S \union {e}) \ {e} = S
    BY FS_AddElement
  <1>2. Total(S \union {e}) = e[2] + Total((S \union {e}) \ {e})
    BY <1>1, TotalRemove
  <1>3. Total(S) \in Int
    BY TotalInt
  <1>4. \A a, b \in Int : a + b = b + a
    OBVIOUS
  <1>5. Total(S \union {e}) = e[2] + Total(S)
    BY <1>1, <1>2, Zenon
  <1> QED
    BY <1>3, <1>4, <1>5, Zenon

\* Zeros add up to zero.
LEMMA TotalOfZeros ==
  ASSUME NEW S, IsFiniteSet(S), \A e \in S : e[2] = 0
  PROVE  Total(S) = 0
  <1> DEFINE G == {T \in SUBSET S : Total(T) = 0}
  <1>0. Total({}) = 0
    BY TotalUnfolds, FS_EmptySet
  <1>1. {} \in G
    BY <1>0
  <1>2. ASSUME NEW T \in SUBSET S, \A x \in T : T \ {x} \in G, T # {}
        PROVE  T \in G
    <2>1. Picked(T) \in T
      BY <1>2 DEF Picked
    <2>2. Total(T) = Picked(T)[2] + Total(T \ {Picked(T)})
      BY <1>2, TotalUnfolds, FS_Subset
    <2> QED
      BY <1>2, <2>1, <2>2
  <1> HIDE DEF G
  <1>3. S \in G
    BY <1>1, <1>2, InductionOverSubsets
  <1> QED
    BY <1>3 DEF G


-----------------------------------------------------------------------------
(***************************************************************************)
(* Totals of one entry for each operation of a finite set, where f says    *)
(* what the entry is.                                                      *)
(***************************************************************************)
Entries(f, S) == {<<p, f[p]>> : p \in S}

\* The entries of a finite set are finitely many, and their total is an integer.
LEMMA EntriesFinite ==
  ASSUME NEW S, IsFiniteSet(S), NEW f, \A p \in S : f[p] \in Int
  PROVE  /\ IsFiniteSet(Entries(f, S))
         /\ \A e \in Entries(f, S) : e[2] \in Int
         /\ Total(Entries(f, S)) \in Int
  <1> DEFINE g == [p \in S |-> <<p, f[p]>>]
  <1>1. g \in Surjection(S, Entries(f, S))
    BY DEF Surjection, Entries
  <1>2. IsFiniteSet(Entries(f, S))
    BY <1>1, FS_Surjection
  <1>3. \A e \in Entries(f, S) : e[2] \in Int
    BY DEF Entries
  <1> QED
    BY <1>2, <1>3, TotalInt

\* An operation that joins the set adds its entry.
LEMMA TotalExtended ==
  ASSUME NEW S, IsFiniteSet(S), NEW o, o \notin S,
         NEW f, \A p \in S \union {o} : f[p] \in Int
  PROVE  Total(Entries(f, S \union {o})) = Total(Entries(f, S)) + f[o]
  <1> DEFINE e == <<o, f[o]>>
             E == Entries(f, S)
  <1>1. IsFiniteSet(E) /\ \A x \in E : x[2] \in Int
    BY EntriesFinite
  <1>2. e \notin E /\ e[2] = f[o] /\ e[2] \in Int
    BY DEF Entries
  <1>3. Entries(f, S \union {o}) = E \union {e}
    BY DEF Entries
  <1> HIDE DEF e, E
  <1>4. Total(E \union {e}) = Total(E) + e[2]
    BY <1>1, <1>2, TotalAdd
  <1> QED
    BY <1>2, <1>3, <1>4 DEF E

\* The entry of one operation changes, and the total by the difference.
LEMMA TotalChanged ==
  ASSUME NEW S, IsFiniteSet(S), NEW o \in S,
         NEW f, NEW g, \A p \in S : f[p] \in Int /\ g[p] \in Int,
         \A p \in S \ {o} : g[p] = f[p]
  PROVE  Total(Entries(g, S)) = Total(Entries(f, S)) - f[o] + g[o]
  <1> DEFINE R == S \ {o}
             rest == Total(Entries(f, R))
  <1>1. IsFiniteSet(R) /\ o \notin R /\ R \union {o} = S
    BY FS_Subset
  <1>2. Entries(g, R) = Entries(f, R)
    BY DEF Entries
  <1>3. /\ Total(Entries(f, S)) = rest + f[o]
        /\ Total(Entries(g, S)) = rest + g[o]
    BY <1>1, <1>2, TotalExtended
  <1>4. rest \in Int
    BY <1>1, EntriesFinite
  <1> HIDE DEF rest
  <1>5. rest + g[o] = (rest + f[o]) - f[o] + g[o]
    BY <1>4
  <1> QED
    BY <1>3, <1>5, Zenon

\* The total of two sets of operations without one in common.
LEMMA TotalOfUnion ==
  ASSUME NEW S, IsFiniteSet(S), NEW T, IsFiniteSet(T), S \intersect T = {},
         NEW f, \A p \in S \union T : f[p] \in Int
  PROVE  Total(Entries(f, S \union T)) = Total(Entries(f, S)) + Total(Entries(f, T))
  <1> DEFINE G == {U \in SUBSET T : Total(Entries(f, S \union U))
                                      = Total(Entries(f, S)) + Total(Entries(f, U))}
  <1>1. {} \in G
    <2>1. Entries(f, {}) = {} /\ S \union {} = S
      BY DEF Entries
    <2>2. Total(Entries(f, S)) \in Int
      BY EntriesFinite
    <2>3. Total({}) = 0
      BY TotalUnfolds, FS_EmptySet
    <2> QED
      BY <2>1, <2>2, <2>3
  <1>2. ASSUME NEW U \in SUBSET T, \A x \in U : U \ {x} \in G, U # {}
        PROVE  U \in G
    <2>1. PICK x : x \in U
      BY <1>2
    <2> DEFINE V == U \ {x}
    <2>2. V \in G
      BY <1>2, <2>1
    <2>3. /\ IsFiniteSet(V) /\ x \notin V /\ V \union {x} = U
          /\ IsFiniteSet(S \union V) /\ x \notin S \union V
          /\ (S \union V) \union {x} = S \union U
      BY <2>1, FS_Subset, FS_Union
    <2>4. \A p \in V \union {x} : f[p] \in Int
      BY <2>1
    <2>5. \A p \in (S \union V) \union {x} : f[p] \in Int
      BY <2>1
    <2>6. Total(Entries(f, U)) = Total(Entries(f, V)) + f[x]
      BY <2>3, <2>4, TotalExtended
    <2>7. Total(Entries(f, S \union U)) = Total(Entries(f, S \union V)) + f[x]
      BY <2>3, <2>5, TotalExtended
    <2>8. Total(Entries(f, S \union V)) = Total(Entries(f, S)) + Total(Entries(f, V))
      BY <2>2
    <2>9. Total(Entries(f, S)) \in Int /\ Total(Entries(f, V)) \in Int /\ f[x] \in Int
      BY <2>1, <2>3, <2>4, EntriesFinite
    <2>10. \A a, b, c \in Int : (a + b) + c = a + (b + c)
      OBVIOUS
    <2> QED
      BY <2>6, <2>7, <2>8, <2>9, <2>10
  <1> HIDE DEF G
  <1>3. T \in G
    BY <1>1, <1>2, InductionOverSubsets
  <1> QED
    BY <1>3 DEF G

\* The total of a set whose elements are renamed, each by a name of its own, with the
\* sign of every entry kept.
LEMMA TotalRenamed ==
  ASSUME NEW S, IsFiniteSet(S), NEW h, NEW f, NEW g,
         \A p \in S : f[p] \in Int /\ g[h[p]] = f[p],
         \A p, q \in S : h[p] = h[q] => p = q
  PROVE  /\ IsFiniteSet({h[p] : p \in S})
         /\ Total(Entries(g, {h[p] : p \in S})) = Total(Entries(f, S))
  <1> DEFINE G == {U \in SUBSET S : /\ IsFiniteSet({h[p] : p \in U})
                                    /\ Total(Entries(g, {h[p] : p \in U})) = Total(Entries(f, U))}
  <1>1. {} \in G
    <2>1. {h[p] : p \in {}} = {} /\ Entries(f, {}) = {} /\ Entries(g, {}) = {}
      BY DEF Entries
    <2> QED
      BY <2>1, FS_EmptySet
  <1>2. ASSUME NEW U \in SUBSET S, \A x \in U : U \ {x} \in G, U # {}
        PROVE  U \in G
    <2>1. PICK x : x \in U
      BY <1>2
    <2> DEFINE V == U \ {x}
               names == {h[p] : p \in V}
    <2>2. V \in G
      BY <1>2, <2>1
    <2>3. IsFiniteSet(V) /\ x \notin V /\ V \union {x} = U
      BY <2>1, FS_Subset
    <2>10. IsFiniteSet(names) /\ h[x] \notin names /\ names \union {h[x]} = {h[p] : p \in U}
      BY <2>1, <2>2
    <2>4. \A p \in V \union {x} : f[p] \in Int
      BY <2>1
    <2>5. \A n \in names \union {h[x]} : g[n] \in Int
      <3>1. \A p \in U : g[h[p]] \in Int
        OBVIOUS
      <3> QED
        BY <2>1, <3>1
    <2> HIDE DEF names, V
    <2>6. Total(Entries(f, U)) = Total(Entries(f, V)) + f[x]
      BY <2>3, <2>4, TotalExtended, Zenon
    <2>7. Total(Entries(g, names \union {h[x]})) = Total(Entries(g, names)) + g[h[x]]
      <3> DEFINE y == h[x]
      <3>1. IsFiniteSet(names) /\ y \notin names /\ \A n \in names \union {y} : g[n] \in Int
        BY <2>5, <2>10
      <3> HIDE DEF y
      <3>2. Total(Entries(g, names \union {y})) = Total(Entries(g, names)) + g[y]
        BY <3>1, TotalExtended
      <3> QED
        BY <3>2 DEF y
    <2>8. Total(Entries(g, names)) = Total(Entries(f, V)) /\ g[h[x]] = f[x]
      BY <2>1, <2>2 DEF names, V
    <2>9. IsFiniteSet(names \union {h[x]})
      BY <2>10, FS_AddElement
    <2> QED
      BY <2>10, <2>6, <2>7, <2>8, <2>9
  <1> HIDE DEF G
  <1>3. S \in G
    BY <1>1, <1>2, InductionOverSubsets
  <1> QED
    BY <1>3 DEF G

\* The total of entries whose signs are turned.
LEMMA TotalNegated ==
  ASSUME NEW S, IsFiniteSet(S), NEW f, NEW g, \A p \in S : f[p] \in Int /\ g[p] = -f[p]
  PROVE  Total(Entries(g, S)) = -Total(Entries(f, S))
  <1> DEFINE G == {U \in SUBSET S : Total(Entries(g, U)) = -Total(Entries(f, U))}
  <1>1. {} \in G
    <2>1. Entries(f, {}) = {} /\ Entries(g, {}) = {}
      BY DEF Entries
    <2>2. Total({}) = 0
      BY TotalUnfolds, FS_EmptySet
    <2> QED
      BY <2>1, <2>2
  <1>2. ASSUME NEW U \in SUBSET S, \A x \in U : U \ {x} \in G, U # {}
        PROVE  U \in G
    <2>1. PICK x : x \in U
      BY <1>2
    <2> DEFINE V == U \ {x}
    <2>2. V \in G
      BY <1>2, <2>1
    <2>3. IsFiniteSet(V) /\ x \notin V /\ V \union {x} = U
      BY <2>1, FS_Subset
    <2>4. \A p \in V \union {x} : f[p] \in Int /\ g[p] \in Int
      BY <2>1
    <2>5. Total(Entries(f, U)) = Total(Entries(f, V)) + f[x]
      BY <2>3, <2>4, TotalExtended
    <2>6. Total(Entries(g, U)) = Total(Entries(g, V)) + g[x]
      BY <2>3, <2>4, TotalExtended
    <2>7. /\ Total(Entries(g, V)) = -Total(Entries(f, V)) /\ g[x] = -f[x]
          /\ Total(Entries(f, V)) \in Int /\ f[x] \in Int
      BY <2>1, <2>2, <2>3, <2>4, EntriesFinite
    <2>8. \A a, b \in Int : (-a) + (-b) = -(a + b)
      OBVIOUS
    <2> QED
      BY <2>5, <2>6, <2>7, <2>8
  <1> HIDE DEF G
  <1>3. S \in G
    BY <1>1, <1>2, InductionOverSubsets
  <1> QED
    BY <1>3 DEF G

\* Two things are two.
LEMMA TwoOfThem ==
  ASSUME NEW x, NEW y, x # y
  PROVE  Cardinality({x, y}) = 2
  <1>1. IsFiniteSet({x}) /\ Cardinality({x}) = 1
    BY FS_Singleton
  <1>2. Cardinality({x} \union {y}) = 2
    BY <1>1, FS_AddElement
  <1>3. {x} \union {y} = {x, y}
    OBVIOUS
  <1> QED
    BY <1>2, <1>3

-----------------------------------------------------------------------------
(***************************************************************************)
(* The ledger: what an admissible posting keeps.  Stock is what the ledger *)
(* says (Balanced), no issue is returned twice (Capped), no posting is     *)
(* corrected below nothing (Floored).  That a posting is added with        *)
(* nothing against it needs one thing more: postings refer to postings     *)
(* that were there before them (Grounded).                                 *)
(***************************************************************************)
Balanced(l, s) == \A b \in Bucket : s[b] = LedgerBalance(l, b)

Capped(l) == \A o \in OperationId : l[o].type = "ISSUE" => Returnable(l, o) >= 0

Floored(l) == \A o \in OperationId : l[o] # NoPosting => Equivalent(l, o) >= 0

Grounded(l) ==
  \A p \in OperationId : l[p].original # NoOperation =>
    l[p].original \in OperationId /\ l[l[p].original] # NoPosting

Sound(l, s) == Balanced(l, s) /\ Capped(l) /\ Floored(l) /\ Grounded(l)

\* The ledger with r posted under o, and the stock after it.
Posted(l, o, r) == [l EXCEPT ![o] = r]

\* Stock after posting r, as StockLedger says it.
StockAfter(s, r) ==
  [b \in Bucket |-> IF b \in Touched(r) THEN NewQuantity(r, b, s[b]) ELSE s[b]]

\* What a posting does to a bucket is an integer, and nothing where it touches none.
LEMMA EffectInt ==
  ASSUME NEW r \in Posting \union {NoPosting}, NEW b \in Bucket
  PROVE  /\ Effect(r, b) \in Int
         /\ r = NoPosting => Effect(r, b) = 0
         /\ b \notin Touched(r) => Effect(r, b) = 0
         /\ r.quantity \in Int
  <1>1. b # NoBucket
    BY PostingConstants DEF PostingConstants, Bucket
  <1>2. CASE r \in Posting
    BY <1>1, <1>2, TouchedBuckets DEF Effect, Touched, Posting, NoPosting, Shape
  <1>3. CASE r = NoPosting
    BY <1>1, <1>3 DEF Effect, NoPosting, Shape
  <1> QED
    BY <1>2, <1>3

\* A posting adds to the balance of every bucket what it does to it.
LEMMA BalancePosted ==
  ASSUME NEW l \in [OperationId -> Posting \union {NoPosting}],
         NEW o \in OperationId, l[o] = NoPosting,
         NEW r \in Posting, NEW b \in Bucket
  PROVE  LedgerBalance(Posted(l, o, r), b) = LedgerBalance(l, b) + Effect(r, b)
  <1> DEFINE m == Posted(l, o, r)
             f == [p \in OperationId |-> Effect(l[p], b)]
             g == [p \in OperationId |-> Effect(m[p], b)]
  <1>1. /\ LedgerBalance(l, b) = Total(Entries(f, OperationId))
        /\ LedgerBalance(m, b) = Total(Entries(g, OperationId))
    <2>1. /\ Entries(f, OperationId) = {<<p, Effect(l[p], b)>> : p \in OperationId}
          /\ Entries(g, OperationId) = {<<p, Effect(m[p], b)>> : p \in OperationId}
      BY DEF Entries
    <2> QED
      BY <2>1 DEF LedgerBalance
  <1>2. \A p \in OperationId : m[p] = IF p = o THEN r ELSE l[p]
    BY DEF Posted
  <1>3. \A p \in OperationId : m[p] \in Posting \union {NoPosting}
    BY <1>2
  <1> HIDE DEF m
  <1>4. \A p \in OperationId : f[p] \in Int /\ g[p] \in Int
    BY <1>3, EffectInt
  <1>5. f[o] = 0 /\ g[o] = Effect(r, b) /\ \A p \in OperationId \ {o} : g[p] = f[p]
    BY <1>2, EffectInt
  <1> HIDE DEF f, g
  <1>6. Total(Entries(g, OperationId)) = Total(Entries(f, OperationId)) - f[o] + g[o]
    BY <1>4, <1>5, TotalChanged, FiniteOperations DEF FiniteOperations
  <1>7. Total(Entries(f, OperationId)) \in Int
    BY <1>4, EntriesFinite, FiniteOperations DEF FiniteOperations
  <1>8. Total(Entries(f, OperationId)) - f[o] + g[o] =
          Total(Entries(f, OperationId)) + g[o]
    BY <1>4, <1>5, <1>7
  <1> QED
    BY <1>1, <1>5, <1>6, <1>8, Zenon DEF m

\* Stock stays what the ledger says: what a posting saves is the old quantity and
\* its effect, the counted quantity of a reconciliation included.
LEMMA BalancedPosted ==
  ASSUME NEW l \in [OperationId -> Posting \union {NoPosting}],
         NEW s \in [Bucket -> Nat],
         NEW o \in OperationId, l[o] = NoPosting,
         NEW r \in Posting, \A b \in Touched(r) : BucketAllows(r, b, s[b]),
         Balanced(l, s)
  PROVE  Balanced(Posted(l, o, r), StockAfter(s, r))
  <1> SUFFICES ASSUME NEW b \in Bucket
               PROVE  StockAfter(s, r)[b] = LedgerBalance(Posted(l, o, r), b)
    BY DEF Balanced
  <1>1. LedgerBalance(Posted(l, o, r), b) = s[b] + Effect(r, b)
    BY BalancePosted DEF Balanced
  <1>2. s[b] \in Nat /\ Effect(r, b) \in Int
    BY EffectInt
  <1>3. CASE b \in Touched(r)
    <2>1. r.type = "COUNT_RECONCILIATION" => s[b] = r.expected
      BY <1>3 DEF BucketAllows
    <2>2. NewQuantity(r, b, s[b]) = s[b] + Effect(r, b)
      BY <2>1 DEF NewQuantity
    <2> QED
      BY <1>1, <1>3, <2>2 DEF StockAfter
  <1>4. CASE b \notin Touched(r)
    BY <1>1, <1>2, <1>4, EffectInt DEF StockAfter
  <1> QED
    BY <1>3, <1>4

\* What refers to a posting when r is posted under o: r does, to its original,
\* and nothing does to o.
LEMMA ReferencesPosted ==
  ASSUME NEW l \in [OperationId -> Posting \union {NoPosting}],
         NEW o \in OperationId, l[o] = NoPosting,
         NEW r \in Posting, WellFormed(r), OriginalAllows(l, r), Grounded(l),
         NEW k \in OperationId
  PROVE  LET m == Posted(l, o, r) IN
         /\ IF r.type = "RETURN" /\ r.original = k
              THEN ReturnsOf(m, k) = ReturnsOf(l, k) \union {o}
              ELSE ReturnsOf(m, k) = ReturnsOf(l, k)
         /\ IF r.type = "CONTROLLED_CORRECTION" /\ r.original = k
              THEN CorrectionsOf(m, k) = CorrectionsOf(l, k) \union {o}
              ELSE CorrectionsOf(m, k) = CorrectionsOf(l, k)
         /\ o \notin ReturnsOf(l, k) /\ o \notin CorrectionsOf(l, k)
         /\ ReturnsOf(l, k) \subseteq OperationId
         /\ CorrectionsOf(l, k) \subseteq OperationId
         /\ k = o => /\ ReturnsOf(m, k) = {} /\ CorrectionsOf(m, k) = {}
                     /\ r.original # o
  <1> DEFINE m == Posted(l, o, r)
  <1>1. \A p \in OperationId : m[p] = IF p = o THEN r ELSE l[p]
    BY DEF Posted
  <1> HIDE DEF m
  <1>2. l[o].type = "NONE" /\ l[o].original = NoOperation
    BY DEF NoPosting, Shape
  <1>3. /\ IF r.type = "RETURN" /\ r.original = k
             THEN ReturnsOf(m, k) = ReturnsOf(l, k) \union {o}
             ELSE ReturnsOf(m, k) = ReturnsOf(l, k)
        /\ IF r.type = "CONTROLLED_CORRECTION" /\ r.original = k
             THEN CorrectionsOf(m, k) = CorrectionsOf(l, k) \union {o}
             ELSE CorrectionsOf(m, k) = CorrectionsOf(l, k)
        /\ o \notin ReturnsOf(l, k) /\ o \notin CorrectionsOf(l, k)
    BY <1>1, <1>2 DEF ReturnsOf, CorrectionsOf
  <1>4. \A p \in OperationId : l[p].original # o
    BY PostingConstants DEF PostingConstants, Grounded
  <1>5. r.original # o
    <2>1. CASE r.type \in {"RETURN", "CONTROLLED_CORRECTION"}
      BY <1>2, <2>1 DEF OriginalAllows, ReturnAllowed, CorrectionAllowed
    <2>2. CASE r.type \notin {"RETURN", "CONTROLLED_CORRECTION"}
      BY <2>2, PostingConstants DEF WellFormed, PostingConstants
    <2> QED
      BY <2>1, <2>2
  <1>6. k = o => ReturnsOf(l, k) = {} /\ CorrectionsOf(l, k) = {}
    BY <1>4 DEF ReturnsOf, CorrectionsOf
  <1> QED
    BY <1>3, <1>5, <1>6 DEF m, ReturnsOf, CorrectionsOf

\* A posting refers to one that was there before it.
LEMMA GroundedPosted ==
  ASSUME NEW l \in [OperationId -> Posting \union {NoPosting}],
         NEW o \in OperationId, l[o] = NoPosting,
         NEW r \in Posting, WellFormed(r), OriginalAllows(l, r), Grounded(l)
  PROVE  Grounded(Posted(l, o, r))
  <1> DEFINE m == Posted(l, o, r)
  <1>1. \A p \in OperationId : m[p] = IF p = o THEN r ELSE l[p]
    BY DEF Posted
  <1>2. r # NoPosting
    BY DEF Posting, NoPosting, Shape
  <1>3. r.original # NoOperation => r.original \in OperationId /\ l[r.original] # NoPosting
    BY DEF WellFormed, OriginalAllows, ReturnAllowed, CorrectionAllowed, Posting,
           NoPosting, Shape
  <1> HIDE DEF m
  <1>4. Grounded(m)
    BY <1>1, <1>2, <1>3 DEF Grounded
  <1> QED
    BY <1>4 DEF m

\* The totals of quantities over the postings of a set, and over one more.
LEMMA QuantitiesPosted ==
  ASSUME NEW l \in [OperationId -> Posting \union {NoPosting}],
         NEW o \in OperationId, NEW r \in Posting,
         NEW S \in SUBSET OperationId, o \notin S
  PROVE  LET m == Posted(l, o, r) IN
         /\ Total(EntriesOf(l, S)) \in Int
         /\ Total(EntriesOf(m, S)) = Total(EntriesOf(l, S))
         /\ Total(EntriesOf(m, S \union {o})) = Total(EntriesOf(l, S)) + r.quantity
  <1> DEFINE m == Posted(l, o, r)
             f == [p \in OperationId |-> l[p].quantity]
             g == [p \in OperationId |-> m[p].quantity]
  <1>1. \A p \in OperationId : m[p] = IF p = o THEN r ELSE l[p]
    BY DEF Posted
  <1>2. \A x \in Posting \union {NoPosting} : x.quantity \in Int
    BY TouchedBuckets DEF NoPosting, Shape
  <1> HIDE DEF m
  <1>3. /\ EntriesOf(l, S) = Entries(f, S)
        /\ EntriesOf(m, S) = Entries(g, S)
        /\ EntriesOf(m, S \union {o}) = Entries(g, S \union {o})
        /\ Entries(f, S) = Entries(g, S)
    BY <1>1 DEF EntriesOf, Entries
  <1>4. \A p \in OperationId : f[p] \in Int /\ g[p] \in Int
    BY <1>1, <1>2
  <1>5. IsFiniteSet(S)
    BY FS_Subset, FiniteOperations DEF FiniteOperations
  <1>6. g[o] = r.quantity
    BY <1>1
  <1> HIDE DEF f, g
  <1>7. Total(Entries(f, S)) \in Int
    BY <1>4, <1>5, EntriesFinite
  <1>8. Total(Entries(g, S \union {o})) = Total(Entries(g, S)) + g[o]
    BY <1>4, <1>5, TotalExtended
  <1> QED
    BY <1>3, <1>6, <1>7, <1>8, Zenon DEF m

\* The totals of quantities of postings are integers.
LEMMA QuantitiesInt ==
  ASSUME NEW l \in [OperationId -> Posting \union {NoPosting}], NEW S \in SUBSET OperationId
  PROVE  Total(EntriesOf(l, S)) \in Int
  <1> DEFINE f == [p \in S |-> l[p].quantity]
  <1>1. \A x \in Posting \union {NoPosting} : x.quantity \in Int
    BY TouchedBuckets DEF NoPosting, Shape
  <1>2. \A p \in S : f[p] \in Int
    BY <1>1
  <1>3. EntriesOf(l, S) = Entries(f, S)
    BY DEF EntriesOf, Entries
  <1> HIDE DEF f
  <1>4. IsFiniteSet(S)
    BY FS_Subset, FiniteOperations DEF FiniteOperations
  <1> QED
    BY <1>2, <1>3, <1>4, EntriesFinite

LEMMA ReturnedTotalInt ==
  ASSUME NEW l \in [OperationId -> Posting \union {NoPosting}], NEW o \in OperationId
  PROVE  Total(EntriesOf(l, ReturnsOf(l, o))) \in Int
  <1>1. ReturnsOf(l, o) \in SUBSET OperationId
    BY DEF ReturnsOf
  <1> QED
    BY <1>1, QuantitiesInt

LEMMA EquivalentInt ==
  ASSUME NEW l \in [OperationId -> Posting \union {NoPosting}], NEW o \in OperationId
  PROVE  Equivalent(l, o) \in Int
  <1> DEFINE low == {p \in CorrectionsOf(l, o) : l[p].source # NoBucket}
             rai == CorrectionsOf(l, o) \ low
  <1>1. low \in SUBSET OperationId /\ rai \in SUBSET OperationId
    BY DEF CorrectionsOf
  <1>2. Equivalent(l, o)
          = l[o].quantity - Total(EntriesOf(l, low)) + Total(EntriesOf(l, rai))
    BY DEF Equivalent
  <1>3. \A x \in Posting \union {NoPosting} : x.quantity \in Int
    BY TouchedBuckets DEF NoPosting, Shape
  <1> HIDE DEF low, rai
  <1>4. Total(EntriesOf(l, low)) \in Int /\ Total(EntriesOf(l, rai)) \in Int
    BY <1>1, QuantitiesInt
  <1>5. l[o].quantity \in Int
    BY <1>3
  <1> QED
    BY <1>2, <1>4, <1>5

\* No postings have no quantity.
LEMMA NothingTotal ==
  ASSUME NEW l
  PROVE  Total(EntriesOf(l, {})) = 0
  <1>1. EntriesOf(l, {}) = {}
    BY DEF EntriesOf
  <1> QED
    BY <1>1, TotalUnfolds, FS_EmptySet

\* An allowed return leaves every issue covered, and no other posting takes from
\* what is returnable.
LEMMA CappedPosted ==
  ASSUME NEW l \in [OperationId -> Posting \union {NoPosting}],
         NEW o \in OperationId, l[o] = NoPosting,
         NEW r \in Posting, WellFormed(r), OriginalAllows(l, r), Grounded(l),
         Capped(l)
  PROVE  Capped(Posted(l, o, r))
  <1> DEFINE m == Posted(l, o, r)
  <1> SUFFICES ASSUME NEW k \in OperationId, m[k].type = "ISSUE"
               PROVE  Returnable(m, k) >= 0
    BY DEF Capped
  <1> DEFINE R == ReturnsOf(l, k)
             before == Total(EntriesOf(l, R))
             refers == r.type = "RETURN" /\ r.original = k
  <1>1. m[k] = IF k = o THEN r ELSE l[k]
    BY DEF Posted
  <1>2. m[k].quantity \in Int /\ r.quantity \in Nat /\ l[k].quantity \in Int
    <2>1. \A x \in Posting \union {NoPosting} : x.quantity \in Int
      BY TouchedBuckets DEF NoPosting, Shape
    <2>2. m[k] \in Posting \union {NoPosting}
      BY <1>1
    <2> QED
      BY <2>1, <2>2, TouchedBuckets
  <1>3. /\ Returnable(m, k) = m[k].quantity - Total(EntriesOf(m, ReturnsOf(m, k)))
        /\ Returnable(l, k) = l[k].quantity - before
    BY DEF Returnable
  <1>4. /\ R \in SUBSET OperationId /\ o \notin R
        /\ refers => ReturnsOf(m, k) = R \union {o}
        /\ ~refers => ReturnsOf(m, k) = R
        /\ k = o => ReturnsOf(m, k) = {} /\ r.original # o
    <2>1. /\ IF refers THEN ReturnsOf(m, k) = R \union {o} ELSE ReturnsOf(m, k) = R
          /\ o \notin R /\ R \subseteq OperationId
          /\ k = o => ReturnsOf(m, k) = {} /\ r.original # o
      BY ReferencesPosted
    <2> QED
      BY <2>1
  <1> HIDE DEF R, refers
  <1>5. /\ before \in Int
        /\ Total(EntriesOf(m, R)) = before
        /\ Total(EntriesOf(m, R \union {o})) = before + r.quantity
    <2>1. R \in SUBSET OperationId /\ o \notin R
      BY <1>4
    <2> QED
      BY <2>1, QuantitiesPosted
  <1> HIDE DEF before
  <1>6. CASE k = o
    <2>1. Total(EntriesOf(m, {})) = 0
      BY NothingTotal
    <2>2. m[k] = r /\ ReturnsOf(m, k) = {}
      BY <1>1, <1>4, <1>6
    <2> QED
      BY <1>2, <1>3, <2>1, <2>2
  <1>7. CASE k # o /\ refers
    <2>1. r.quantity <= Returnable(l, k)
      BY <1>7 DEF OriginalAllows, ReturnAllowed, refers
    <2> QED
      BY <1>1, <1>2, <1>3, <1>4, <1>5, <1>7, <2>1
  <1>8. CASE k # o /\ ~refers
    <2>1. Returnable(l, k) >= 0
      BY <1>1, <1>8 DEF Capped
    <2> QED
      BY <1>1, <1>3, <1>4, <1>5, <1>8, <2>1
  <1> QED
    BY <1>6, <1>7, <1>8

\* An allowed correction leaves every equivalent non-negative, and nothing else
\* lowers one.
LEMMA FlooredPosted ==
  ASSUME NEW l \in [OperationId -> Posting \union {NoPosting}],
         NEW o \in OperationId, l[o] = NoPosting,
         NEW r \in Posting, WellFormed(r), OriginalAllows(l, r), Grounded(l),
         Floored(l)
  PROVE  Floored(Posted(l, o, r))
  <1> DEFINE m == Posted(l, o, r)
  <1> SUFFICES ASSUME NEW k \in OperationId, m[k] # NoPosting
               PROVE  Equivalent(m, k) >= 0
    BY DEF Floored
  <1> DEFINE C   == CorrectionsOf(l, k)
             lo  == {p \in C : l[p].source # NoBucket}
             hi  == C \ lo
             D   == CorrectionsOf(m, k)
             lo2 == {p \in D : m[p].source # NoBucket}
             hi2 == D \ lo2
             lowered == Total(EntriesOf(l, lo))
             raised  == Total(EntriesOf(l, hi))
             refers  == r.type = "CONTROLLED_CORRECTION" /\ r.original = k
  <1>1. \A p \in OperationId : m[p] = IF p = o THEN r ELSE l[p]
    BY DEF Posted
  <1>2. m[k].quantity \in Int /\ r.quantity \in Nat /\ l[k].quantity \in Int
    <2>1. \A x \in Posting \union {NoPosting} : x.quantity \in Int
      BY TouchedBuckets DEF NoPosting, Shape
    <2>2. m[k] \in Posting \union {NoPosting}
      BY <1>1
    <2> QED
      BY <2>1, <2>2, TouchedBuckets
  <1>3. /\ Equivalent(m, k) = m[k].quantity - Total(EntriesOf(m, lo2))
                                            + Total(EntriesOf(m, hi2))
        /\ Equivalent(l, k) = l[k].quantity - lowered + raised
    BY DEF Equivalent
  <1>4. /\ C \in SUBSET OperationId /\ o \notin C
        /\ refers => D = C \union {o}
        /\ ~refers => D = C
        /\ k = o => D = {} /\ r.original # o
    <2>1. /\ IF refers THEN D = C \union {o} ELSE D = C
          /\ o \notin C /\ C \subseteq OperationId
          /\ k = o => D = {} /\ r.original # o
      BY ReferencesPosted
    <2> QED
      BY <2>1
  <1>5. lo \in SUBSET OperationId /\ o \notin lo /\ hi \in SUBSET OperationId /\ o \notin hi
    BY <1>4
  <1> HIDE DEF C, D, refers
  <1>6. /\ refers /\ r.source # NoBucket => lo2 = lo \union {o} /\ hi2 = hi
        /\ refers /\ r.source = NoBucket => lo2 = lo /\ hi2 = hi \union {o}
        /\ ~refers => lo2 = lo /\ hi2 = hi
        /\ D = {} => lo2 = {} /\ hi2 = {}
    BY <1>1, <1>4
  <1> HIDE DEF lo, hi, lo2, hi2
  <1>7. /\ lowered \in Int
        /\ Total(EntriesOf(m, lo)) = lowered
        /\ Total(EntriesOf(m, lo \union {o})) = lowered + r.quantity
    BY <1>5, QuantitiesPosted
  <1>8. /\ raised \in Int
        /\ Total(EntriesOf(m, hi)) = raised
        /\ Total(EntriesOf(m, hi \union {o})) = raised + r.quantity
    BY <1>5, QuantitiesPosted
  <1> HIDE DEF lowered, raised
  <1>9. CASE k = o
    <2>1. Total(EntriesOf(m, {})) = 0
      BY NothingTotal
    <2>2. m[k] = r /\ lo2 = {} /\ hi2 = {}
      BY <1>1, <1>4, <1>6, <1>9
    <2>3. Equivalent(m, k) = r.quantity - 0 + 0
      BY <1>3, <2>1, <2>2, Zenon
    <2> QED
      BY <1>2, <2>3
  <1>10. CASE k # o /\ refers
    <2>1. Equivalent(l, k) + Proposed(r) >= 0
      BY <1>10 DEF OriginalAllows, CorrectionAllowed, refers
    <2>2. m[k].quantity = l[k].quantity
      BY <1>1, <1>10
    <2>3. CASE r.source = NoBucket
      <3>1. Equivalent(m, k) = l[k].quantity - lowered + (raised + r.quantity)
        BY <1>3, <1>6, <1>7, <1>8, <1>10, <2>2, <2>3, Zenon
      <3> QED
        BY <1>2, <1>3, <1>7, <1>8, <2>1, <2>3, <3>1 DEF Proposed
    <2>4. CASE r.source # NoBucket
      <3>1. Equivalent(m, k) = l[k].quantity - (lowered + r.quantity) + raised
        BY <1>3, <1>6, <1>7, <1>8, <1>10, <2>2, <2>4, Zenon
      <3> QED
        BY <1>2, <1>3, <1>7, <1>8, <2>1, <2>4, <3>1 DEF Proposed
    <2> QED
      BY <2>3, <2>4
  <1>11. CASE k # o /\ ~refers
    <2>1. Equivalent(l, k) >= 0
      BY <1>1, <1>11 DEF Floored
    <2> QED
      BY <1>1, <1>3, <1>6, <1>7, <1>8, <1>11, <2>1
  <1> QED
    BY <1>9, <1>10, <1>11

\* An admissible posting keeps a ledger sound.
LEMMA SoundPosted ==
  ASSUME NEW l \in [OperationId -> Posting \union {NoPosting}],
         NEW s \in [Bucket -> Nat],
         NEW o \in OperationId, l[o] = NoPosting,
         NEW r \in Posting, WellFormed(r), OriginalAllows(l, r),
         \A b \in Touched(r) : BucketAllows(r, b, s[b]),
         Sound(l, s)
  PROVE  Sound(Posted(l, o, r), StockAfter(s, r))
  BY BalancedPosted, CappedPosted, FlooredPosted, GroundedPosted DEF Sound

\* An empty ledger with no stock is sound.
LEMMA SoundEmpty ==
  Sound([o \in OperationId |-> NoPosting], [b \in Bucket |-> 0])
  <1> DEFINE l == [o \in OperationId |-> NoPosting]
             s == [b \in Bucket |-> 0]
  <1>1. ASSUME NEW b \in Bucket PROVE LedgerBalance(l, b) = 0
    <2> DEFINE E == {<<o, Effect(l[o], b)>> : o \in OperationId}
               f == [o \in OperationId |-> Effect(l[o], b)]
    <2>1. \A o \in OperationId : f[o] = 0
      BY EffectInt
    <2>2. E = Entries(f, OperationId)
      BY DEF Entries
    <2> HIDE DEF f
    <2> HIDE DEF E
    <2>3. IsFiniteSet(E)
      <3>1. \A o \in OperationId : f[o] \in Int
        BY <2>1
      <3> QED
        BY <2>2, <3>1, EntriesFinite, FiniteOperations DEF FiniteOperations
    <2>4. \A e \in E : e[2] = 0
      BY <2>1, <2>2 DEF Entries
    <2>5. Total(E) = 0
      BY <2>3, <2>4, TotalOfZeros
    <2> QED
      BY <2>5 DEF E, LedgerBalance
  <1>2. Balanced(l, s)
    BY <1>1 DEF Balanced
  <1>3. \A o \in OperationId : l[o] = NoPosting
    OBVIOUS
  <1>4. NoPosting.type = "NONE" /\ NoPosting.original = NoOperation
    BY DEF NoPosting, Shape
  <1> HIDE DEF l
  <1>5. Capped(l) /\ Floored(l) /\ Grounded(l)
    BY <1>3, <1>4 DEF Capped, Floored, Grounded
  <1> QED
    BY <1>2, <1>5 DEF Sound, l
=============================================================================
