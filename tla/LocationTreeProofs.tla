------------------------- MODULE LocationTreeProofs --------------------------
(***************************************************************************)
(* What holds of the location tree for every finite set of locations,      *)
(* every number of workers and every order in which they take their locks. *)
(*                                                                         *)
(* The argument: locks that conflict are never held together               *)
(* (LocksExclusive), and what a request has found out is covered by locks  *)
(* that it holds (Sound): nobody moves a location while another holds the  *)
(* hierarchy lock or shares the table, so a parent that was validated is   *)
(* outside the subtree when it is written, and the rows of a scope are     *)
(* those that were read.                                                   *)
(***************************************************************************)
EXTENDS LocationTree, SequenceTheorems, InductionLemmas, TLAPS

-----------------------------------------------------------------------------
(***************************************************************************)
(* Location trees: what Subtree is, for parents p.                         *)
(***************************************************************************)
Below(p, l) == BelowIn(Location, p, l)

Closed(p, C) == ClosedIn(Location, p, C)

\* Subtree is Below of the parents that there are.
LEMMA SubtreeIsBelow == \A l \in Location : Subtree(l) = Below(parent, l)
  BY Zenon DEF Subtree, Below, BelowIn, Levels

\* The subtree of l is the smallest closed set that has l.
LEMMA BelowIsClosure ==
  ASSUME NEW p, NEW l \in Location
  PROVE  /\ Below(p, l) \subseteq Location
         /\ l \in Below(p, l)
         /\ Closed(p, Below(p, l))
         /\ \A C : l \in C /\ Closed(p, C) => Below(p, l) \subseteq C
  <1>1. IsFiniteSet(Location)
    BY FiniteLocations DEF FiniteLocations
  <1> QED
    BY <1>1, BelowIsSmallest DEF Below, Closed

Places == Location \union {Root, Absent}

\* Parents exist, and no set of locations is closed upwards.
IsTree(p) ==
  /\ \A l \in Location : p[l] \in Location => p[p[l]] # Absent
  /\ \A S \in SUBSET Location : S # {} => \E l \in S : p[l] \notin S

\* In a tree each location that exists is below a topmost one.
LEMMA TreeHasTops ==
  ASSUME NEW p \in [Location -> Places], IsTree(p), NEW l \in Location, p[l] # Absent
  PROVE  \E top \in Location : p[top] = Root /\ l \in Below(p, top)
  <1> DEFINE Hangs(k) == \E top \in Location : p[top] = Root /\ k \in Below(p, top)
             Adrift == {k \in Location : p[k] # Absent /\ ~Hangs(k)}
  <1>1. SUFFICES ASSUME ~Hangs(l) PROVE FALSE
    OBVIOUS
  <1>2. l \in Adrift
    BY <1>1
  <1>3. ASSUME NEW k \in Adrift PROVE p[k] \in Adrift
    <2>1. k \in Location /\ p[k] # Absent /\ ~Hangs(k)
      OBVIOUS
    <2>2. p[k] # Root
      BY <2>1, BelowIsClosure
    <2>3. p[k] \in Location /\ p[p[k]] # Absent
      BY <2>1, <2>2 DEF IsTree, Places
    <2>4. ASSUME Hangs(p[k]) PROVE FALSE
      <3>1. PICK top \in Location : p[top] = Root /\ p[k] \in Below(p, top)
        BY <2>4
      <3>2. k \in Below(p, top)
        BY <2>1, <3>1, BelowIsClosure DEF Closed, ClosedIn
      <3> QED
        BY <2>1, <3>1, <3>2
    <2> QED
      BY <2>3, <2>4
  <1>4. Adrift \in SUBSET Location
    OBVIOUS
  <1> HIDE DEF Adrift
  <1> QED
    BY <1>2, <1>3, <1>4 DEF IsTree

\* A tree stays one if a location is hung below one that exists outside its subtree,
\* or at the top.
LEMMA HangingKeepsTree ==
  ASSUME NEW p \in [Location -> Places], IsTree(p), NEW l \in Location,
         NEW to \in Location \union {Root},
         to # Root => p[to] # Absent /\ to \notin Below(p, l)
  PROVE  IsTree([p EXCEPT ![l] = to])
  <1> DEFINE q == [p EXCEPT ![l] = to]
  <1>1. q[l] = to /\ \A k \in Location \ {l} : q[k] = p[k]
    OBVIOUS
  <1>2. /\ l \in Below(p, l) /\ Closed(p, Below(p, l)) /\ Below(p, l) \subseteq Location
    BY BelowIsClosure
  <1>3. to # Absent /\ Root \notin Location /\ Absent \notin Location
    BY TreeConstants DEF TreeConstants
  <1> HIDE DEF q
  <1>4. \A k \in Location : q[k] \in Location => q[q[k]] # Absent
    <2>1. to \in Location => to # l /\ q[to] = p[to] /\ p[to] # Absent
      BY <1>1, <1>2, <1>3
    <2>2. \A k \in Location \ {l} : q[k] \in Location => p[q[k]] # Absent
      BY <1>1 DEF IsTree
    <2> QED
      BY <1>1, <1>3, <2>1, <2>2
  <1>5. ASSUME NEW S \in SUBSET Location, S # {}, \A k \in S : q[k] \in S PROVE FALSE
    <2>1. CASE l \notin S
      <3>1. \A k \in S : p[k] \in S
        BY <1>1, <1>5, <2>1
      <3> QED
        BY <1>5, <3>1 DEF IsTree
    <2>2. CASE l \in S
      <3> DEFINE T == S \ Below(p, l)
      <3>1. to \in S /\ to \in Location
        BY <1>1, <1>5, <2>2
      <3>2. to \in T
        BY <1>3, <3>1
      <3>3. ASSUME NEW k \in T PROVE p[k] \in T
        <4>1. k # l /\ k \in Location
          BY <1>2
        <4>2. p[k] \in S
          BY <1>1, <1>5, <4>1
        <4>3. p[k] \notin Below(p, l)
          BY <1>2, <4>1 DEF Closed, ClosedIn
        <4> QED
          BY <4>2, <4>3
      <3>4. T \in SUBSET Location
        OBVIOUS
      <3> HIDE DEF T
      <3> QED
        BY <3>2, <3>3, <3>4 DEF IsTree
    <2> QED
      BY <2>1, <2>2
  <1>6. IsTree(q)
    BY <1>4, <1>5 DEF IsTree
  <1> QED
    BY <1>6 DEF q

\* A location that is created at the top comes below nobody.
LEMMA NewTopBelowNobody ==
  ASSUME NEW p \in [Location -> Places], NEW k \in Location, NEW l \in Location
  PROVE  Below([p EXCEPT ![k] = Root], l) \subseteq Below(p, l)
  <1> DEFINE q == [p EXCEPT ![k] = Root]
  <1>1. q[k] = Root /\ \A j \in Location \ {k} : q[j] = p[j]
    OBVIOUS
  <1>2. l \in Below(p, l) /\ Closed(p, Below(p, l)) /\ Below(p, l) \subseteq Location
    BY BelowIsClosure
  <1>3. Root \notin Location
    BY TreeConstants DEF TreeConstants
  <1> HIDE DEF q
  <1>4. Closed(q, Below(p, l))
    BY <1>1, <1>2, <1>3 DEF Closed, ClosedIn
  <1>5. Below(q, l) \subseteq Below(p, l)
    BY <1>2, <1>4, BelowIsClosure
  <1> QED
    BY <1>5 DEF q

(***************************************************************************)
(* Location trees: what each request and its locks have to do with the     *)
(* tree.                                                                   *)
(***************************************************************************)

\* Locks of different kinds or rows are different.
LEMMA LocksDiffer ==
  /\ Hierarchy # TableWrite /\ Hierarchy # TableShare /\ TableWrite # TableShare
  /\ CountScope \notin {Hierarchy, TableWrite, TableShare}
  /\ \A l : /\ RowUpdate(l) \notin {Hierarchy, TableWrite, TableShare, CountScope}
            /\ RowKeyShare(l) \notin {Hierarchy, TableWrite, TableShare, CountScope}
  /\ \A l, k : /\ RowUpdate(l) = RowUpdate(k) => l = k
               /\ RowUpdate(l) # RowKeyShare(k)
  /\ {Hierarchy, TableWrite, TableShare, CountScope} \subseteq Lock
  /\ \A l \in Location : RowUpdate(l) \in Lock /\ RowKeyShare(l) \in Lock
  BY DEF Hierarchy, TableWrite, TableShare, CountScope, RowUpdate, RowKeyShare, Lock

\* Locks of which two requests never have one each.
LEMMA LocksConflict ==
  /\ Conflicting(Hierarchy, Hierarchy)
  /\ Conflicting(TableWrite, TableShare) /\ Conflicting(TableShare, TableWrite)
  /\ \A l : Conflicting(RowUpdate(l), RowUpdate(l))
  BY DEF Hierarchy, TableWrite, TableShare, RowUpdate, Conflicting

\* Two locks conflict or not, whichever is asked first.
LEMMA ConflictsAreMutual == \A x, y : Conflicting(x, y) <=> Conflicting(y, x)
  <1>1. \A x, y : {x[3], y[3]} = {y[3], x[3]}
    OBVIOUS
  <1> QED
    BY <1>1 DEF Conflicting

\* The elements of a sequence are its head and those of its tail.
LEMMA RangeOfTail ==
  ASSUME NEW X, NEW s \in Seq(X), s # <<>>
  PROVE  /\ Head(s) \in X /\ Tail(s) \in Seq(X)
         /\ Range(s) = {Head(s)} \union Range(Tail(s))
  <1>1. /\ Head(s) \in X /\ Tail(s) \in Seq(X) /\ Len(s) \in Nat /\ Len(s) # 0
        /\ Len(Tail(s)) = Len(s) - 1 /\ Head(s) = s[1]
        /\ \A i \in 1 .. Len(s) - 1 : Tail(s)[i] = s[i + 1]
    BY HeadTailProperties, LenProperties, EmptySeq
  <1>2. DOMAIN s = 1 .. Len(s) /\ DOMAIN Tail(s) = 1 .. Len(s) - 1
    BY <1>1
  <1>3. \A i \in 1 .. Len(s) : i = 1 \/ (i - 1 \in 1 .. Len(s) - 1 /\ (i - 1) + 1 = i)
    BY <1>1
  <1>4. 1 \in 1 .. Len(s) /\ \A i \in 1 .. Len(s) - 1 : i + 1 \in 1 .. Len(s)
    BY <1>1
  <1>5. \A i \in 1 .. Len(s) : s[i] = Head(s) \/ \E j \in 1 .. Len(s) - 1 : s[i] = Tail(s)[j]
    BY <1>1, <1>3
  <1>6. \A j \in 1 .. Len(s) - 1 : \E i \in 1 .. Len(s) : Tail(s)[j] = s[i]
    BY <1>1, <1>4
  <1>7. /\ Range(s) = {s[i] : i \in 1 .. Len(s)}
        /\ Range(Tail(s)) = {Tail(s)[i] : i \in 1 .. Len(s) - 1}
    BY <1>2, Zenon DEF Range
  <1>8. Head(s) \in {s[i] : i \in 1 .. Len(s)}
    BY <1>1, <1>4
  <1>9. Range(s) = {Head(s)} \union Range(Tail(s))
    BY <1>5, <1>6, <1>7, <1>8, Zenon
  <1> QED
    BY <1>1, <1>9

\* The elements of a sequence that is written out.
LEMMA RangesOfShort ==
  /\ Range(<<>>) = {}
  /\ \A x : Range(<<x>>) = {x}
  /\ \A x, y : Range(<<x, y>>) = {x, y}
  /\ \A x, y, z : Range(<<x, y, z>>) = {x, y, z}
  /\ \A x, y, z, u : Range(<<x, y, z, u>>) = {x, y, z, u}
  <1>1. Range(<<>>) = {}
    BY DEF Range
  <1>2. \A x : Range(<<x>>) = {x}
    BY DEF Range
  <1>3. \A x, y : Range(<<x, y>>) = {x, y}
    BY DEF Range
  <1>4. \A x, y, z : Range(<<x, y, z>>) = {x, y, z}
    BY DEF Range
  <1>5. \A x, y, z, u : Range(<<x, y, z, u>>) = {x, y, z, u}
    BY DEF Range
  <1> QED
    BY <1>1, <1>2, <1>3, <1>4, <1>5

\* Locks appended to a list that is written out.
LEMMA ShortsJoined ==
  /\ \A x, y, z \in Lock : <<x, y>> \o <<z>> = <<x, y, z>>
  /\ \A x, y, z, u \in Lock : <<x, y, z>> \o <<u>> = <<x, y, z, u>>
  <1>1. ASSUME NEW x \in Lock, NEW y \in Lock, NEW z \in Lock
        PROVE  <<x, y>> \o <<z>> = <<x, y, z>>
    <2>1. <<x, y>> \in Seq(Lock) /\ <<z>> \in Seq(Lock) /\ <<x, y, z>> \in Seq(Lock)
      OBVIOUS
    <2>2. /\ Len(<<x, y>> \o <<z>>) = 3
          /\ \A i \in 1 .. 3 : (<<x, y>> \o <<z>>)[i] = <<x, y, z>>[i]
      BY <2>1, ConcatProperties
    <2> QED
      BY <2>1, <2>2, ConcatProperties, SeqEqual
  <1>2. ASSUME NEW x \in Lock, NEW y \in Lock, NEW z \in Lock, NEW u \in Lock
        PROVE  <<x, y, z>> \o <<u>> = <<x, y, z, u>>
    <2>1. /\ <<x, y, z>> \in Seq(Lock) /\ <<u>> \in Seq(Lock)
          /\ <<x, y, z, u>> \in Seq(Lock)
      OBVIOUS
    <2>2. /\ Len(<<x, y, z>> \o <<u>>) = 4
          /\ \A i \in 1 .. 4 : (<<x, y, z>> \o <<u>>)[i] = <<x, y, z, u>>[i]
      BY <2>1, ConcatProperties
    <2> QED
      BY <2>1, <2>2, ConcatProperties, SeqEqual
  <1> QED
    BY <1>1, <1>2

\* The locks of a request from its beginning.
LEMMA LocksOfRequest ==
  ASSUME NEW r \in Request
  PROVE  /\ LocksOf(r) \in Seq(Lock)
         /\ r.kind = "create" => /\ TableWrite \in Range(LocksOf(r))
                                 /\ r.to # Root => Hierarchy \in Range(LocksOf(r))
         /\ r.kind = "move" => {RowUpdate(r.location), Hierarchy, TableWrite}
                                 \subseteq Range(LocksOf(r))
         /\ r.kind # "count" => TableShare \notin Range(LocksOf(r))
         /\ r.kind = "count" => \A l : RowUpdate(l) \notin Range(LocksOf(r))
  <1>1. /\ r.kind \in {"create", "move", "edit", "count"} /\ r.location \in Location
        /\ r.to \in Location \union {Root}
    BY DEF Request
  <1>2. CASE r.kind = "create" /\ r.to = Root
    <2>1. LocksOf(r) = <<TableWrite>>
      BY <1>2 DEF LocksOf
    <2> QED
      BY <1>2, <2>1, LocksDiffer, RangesOfShort
  <1>3. CASE r.kind = "create" /\ r.to # Root
    <2>1. LocksOf(r) = <<Hierarchy, TableWrite, RowKeyShare(r.to)>>
      BY <1>1, <1>3, ShortsJoined, LocksDiffer DEF LocksOf, ParentCheck
    <2> QED
      BY <1>1, <1>3, <2>1, LocksDiffer, RangesOfShort
  <1>4. CASE r.kind = "move" /\ r.to = Root
    <2>1. LocksOf(r) = <<RowUpdate(r.location), Hierarchy, TableWrite>>
      BY <1>4 DEF LocksOf, ParentCheck
    <2> QED
      BY <1>1, <1>4, <2>1, LocksDiffer, RangesOfShort
  <1>5. CASE r.kind = "move" /\ r.to # Root
    <2>1. LocksOf(r) =
            <<RowUpdate(r.location), Hierarchy, TableWrite, RowKeyShare(r.to)>>
      BY <1>1, <1>5, ShortsJoined, LocksDiffer DEF LocksOf, ParentCheck
    <2> QED
      BY <1>1, <1>5, <2>1, LocksDiffer, RangesOfShort
  <1>6. CASE r.kind = "edit"
    <2>1. LocksOf(r) = <<RowUpdate(r.location), TableWrite>>
      BY <1>6 DEF LocksOf
    <2> QED
      BY <1>1, <1>6, <2>1, LocksDiffer, RangesOfShort
  <1>7. CASE r.kind = "count"
    <2>1. LocksOf(r) = <<CountScope, TableShare>>
      BY <1>7 DEF LocksOf
    <2> QED
      BY <1>7, <2>1, LocksDiffer, RangesOfShort
  <1> QED
    BY <1>1, <1>2, <1>3, <1>4, <1>5, <1>6, <1>7

\* All locks that a request holds or is still to take.
Taking(h, t) == h \union Range(t)

\* How request r stands to the tree p, with locks h, locks t to be taken and
\* refusal f: its locks are those that it needs, what it was validated for holds, and
\* a count has the rows that make up its scope.
Sound(p, r, h, t, f) ==
  /\ r = NoRequest => h = {} /\ t = <<>>
  /\ r.kind = "create" =>
       /\ p[r.location] = Absent
       /\ TableWrite \in Taking(h, t)
       /\ r.to # Root => Hierarchy \in Taking(h, t)
  /\ r.kind \in {"move", "edit", "count"} => p[r.location] # Absent
  /\ r.kind = "move" =>
       /\ {TableWrite, RowUpdate(r.location)} \subseteq Taking(h, t)
       /\ \/ Hierarchy \in Taking(h, t)
          \/ RowUpdate(r.location) \in h /\ p[r.location] = r.to
  /\ r.kind # "count" => TableShare \notin Taking(h, t)
  /\ Hierarchy \in h /\ ~f /\ r.to # Root =>
       p[r.to] # Absent /\ r.to \notin Below(p, r.location)
  /\ r.kind = "count" /\ TableShare \notin h => \A l : RowUpdate(l) \notin Taking(h, t)
  /\ TableShare \in h =>
       {l \in Location : RowUpdate(l) \in Taking(h, t)} = Below(p, r.location)

\* A worker without a request stands on nothing.
LEMMA NobodyIsSound == ASSUME NEW p, NEW f PROVE Sound(p, NoRequest, {}, <<>>, f)
  BY RangesOfShort DEF Sound, NoRequest, Taking

\* A request that has begun has all of its locks before it.
LEMMA BeginningIsSound ==
  ASSUME NEW p, NEW r \in Request, NEW f,
         r.kind = "create" => p[r.location] = Absent,
         r.kind # "create" => p[r.location] # Absent
  PROVE  Sound(p, r, {}, LocksOf(r), f)
  <1>1. r.kind \in {"create", "move", "edit", "count"} /\ r # NoRequest
    BY DEF Request, NoRequest
  <1>2. Taking({}, LocksOf(r)) = Range(LocksOf(r))
    BY DEF Taking
  <1> QED
    BY <1>1, <1>2, LocksOfRequest DEF Sound

\* Changing one parent leaves sound what another request stands on: neither the row of
\* that location nor the tree is locked for it.
LEMMA SoundElsewhere ==
  ASSUME NEW p \in [Location -> Places], NEW r \in Request \union {NoRequest},
         NEW h, NEW t, NEW f, Sound(p, r, h, t, f),
         NEW l \in Location, NEW to \in Location \union {Root},
         p[l] = Absent \/ RowUpdate(l) \notin h,
         r.kind = "create" => r.location # l,
         TableShare \notin h,
         Hierarchy \notin h \/ (p[l] = Absent /\ to = Root)
  PROVE  Sound([p EXCEPT ![l] = to], r, h, t, f)
  <1> DEFINE q == [p EXCEPT ![l] = to]
  <1>1. q[l] = to /\ \A k \in Location \ {l} : q[k] = p[k]
    OBVIOUS
  <1>2. to # Absent
    BY TreeConstants DEF TreeConstants
  <1>3. r # NoRequest => r.location \in Location /\ r.to \in Location \union {Root}
    BY DEF Request
  <1>4. r = NoRequest => r.kind \notin {"create", "move", "edit", "count"}
    BY DEF NoRequest
  <1>5. ASSUME Hierarchy \in h, ~f, r.to # Root
        PROVE  q[r.to] # Absent /\ r.to \notin Below(q, r.location)
    <2>1. r # NoRequest
      BY <1>5 DEF NoRequest
    <2>2. p[r.to] # Absent /\ r.to \notin Below(p, r.location)
      BY <1>5 DEF Sound
    <2>3. q[r.to] # Absent
      BY <1>1, <1>2, <1>3, <1>5, <2>1, <2>2
    <2>4. q = [p EXCEPT ![l] = Root]
      BY <1>5
    <2>5. Below(q, r.location) \subseteq Below(p, r.location)
      BY <1>3, <2>1, <2>4, NewTopBelowNobody
    <2> QED
      BY <2>2, <2>3, <2>5
  <1> HIDE DEF q
  <1>6. r.kind = "create" => q[r.location] = p[r.location]
    BY <1>1, <1>3, <1>4
  <1>7. r.kind \in {"move", "edit", "count"} /\ p[r.location] # Absent =>
          q[r.location] # Absent
    BY <1>1, <1>2, <1>3, <1>4
  <1>8. r.kind = "move" /\ RowUpdate(r.location) \in h /\ p[r.location] # Absent =>
          q[r.location] = p[r.location]
    BY <1>1, <1>3, <1>4
  <1>9. Sound(q, r, h, t, f)
    BY <1>5, <1>6, <1>7, <1>8 DEF Sound
  <1> QED
    BY <1>9 DEF q

\* InOrder lists a set of locations.
LEMMA InOrderLists ==
  ASSUME NEW S \in SUBSET Location
  PROVE  InOrder(S) \in [1 .. Cardinality(S) -> S] /\ Range(InOrder(S)) = S
         /\ Cardinality(S) \in Nat
  <1>1. S \in SUBSET Nat /\ IsFiniteSet(S)
    BY TreeConstants, FiniteLocations, FS_Subset DEF TreeConstants, FiniteLocations
  <1>2. PICK s : Lists(s, S)
    BY <1>1, NumbersCanBeListed
  <1>3. /\ s \in [1 .. Cardinality(S) -> S] /\ Range(s) = S
        /\ \A i, j \in DOMAIN s : i < j => s[i] < s[j]
    BY <1>2 DEF Lists, Range
  <1>4. InOrder(S) \in [1 .. Cardinality(S) -> S] /\ Range(InOrder(S)) = S
    BY <1>3, Zenon DEF InOrder
  <1> QED
    BY <1>1, <1>4, FS_CardinalityType

RowsOf(S) == [i \in 1 .. Cardinality(S) |-> RowUpdate(InOrder(S)[i])]

\* The rows of a scope are locked one by one, all of them.
LEMMA RowsLocked ==
  ASSUME NEW S \in SUBSET Location
  PROVE  RowsOf(S) \in Seq(Lock) /\ Range(RowsOf(S)) = {RowUpdate(k) : k \in S}
  <1>1. /\ InOrder(S) \in [1 .. Cardinality(S) -> S] /\ Range(InOrder(S)) = S
        /\ Cardinality(S) \in Nat
    BY InOrderLists
  <1>2. \A i \in 1 .. Cardinality(S) : InOrder(S)[i] \in S
    BY <1>1
  <1>3. RowsOf(S) \in [1 .. Cardinality(S) -> Lock]
    BY <1>2, LocksDiffer DEF RowsOf
  <1>4. RowsOf(S) \in Seq(Lock)
    BY <1>1, <1>3, SeqDef
  <1>5. Range(RowsOf(S)) = {RowUpdate(InOrder(S)[i]) : i \in 1 .. Cardinality(S)}
    BY Zenon DEF Range, RowsOf
  <1>6. S = {InOrder(S)[i] : i \in 1 .. Cardinality(S)}
    BY <1>1 DEF Range
  <1> QED
    BY <1>4, <1>5, <1>6

\* What the request holds and will take once it has x.
FollowingOf(p, r, t, x) ==
  IF r.kind = "move" /\ x = RowUpdate(r.location) /\ p[r.location] = r.to
  THEN <<TableWrite>>
  ELSE IF x = TableShare THEN RowsOf(Below(p, r.location)) ELSE Tail(t)

RefusedOf(p, r, x) ==
  x = Hierarchy /\ ~(r.to # Root => p[r.to] # Absent /\ r.to \notin Below(p, r.location))

LEMMA TakingIsSound ==
  ASSUME NEW p \in [Location -> Places], NEW r \in Request \union {NoRequest},
         NEW h, NEW t \in Seq(Lock), t # <<>>, Sound(p, r, h, t, FALSE)
  PROVE  /\ FollowingOf(p, r, t, Head(t)) \in Seq(Lock)
         /\ Sound(p, r, h \union {Head(t)}, FollowingOf(p, r, t, Head(t)),
                  RefusedOf(p, r, Head(t)))
  <1> DEFINE x == Head(t)
             u == FollowingOf(p, r, t, x)
             g == h \union {x}
             f == RefusedOf(p, r, x)
  <1>1. r \in Request /\ r # NoRequest /\ r.kind \in {"create", "move", "edit", "count"}
        /\ r.location \in Location /\ r.to \in Location \union {Root}
    BY DEF Sound, Request, NoRequest
  <1>2. Taking(h, t) = {x} \union h \union Range(Tail(t)) /\ Tail(t) \in Seq(Lock)
        /\ x \in Taking(h, t)
    BY RangeOfTail DEF Taking
  <1>3. Hierarchy \in g /\ ~f /\ r.to # Root =>
          p[r.to] # Absent /\ r.to \notin Below(p, r.location)
    BY DEF Sound, RefusedOf
  <1>4. CASE r.kind = "move" /\ x = RowUpdate(r.location) /\ p[r.location] = r.to
    <2>1. u = <<TableWrite>>
      BY <1>4 DEF FollowingOf
    <2>2. Taking(g, u) = g \union {TableWrite}
      BY <2>1, RangesOfShort DEF Taking
    <2>3. TableShare \notin h
      BY <1>2, <1>4 DEF Sound
    <2>4. TableShare \notin Taking(g, u) /\ {TableWrite, RowUpdate(r.location)} \subseteq Taking(g, u)
          /\ RowUpdate(r.location) \in g
      BY <1>4, <2>2, <2>3, LocksDiffer
    <2>5. p[r.location] # Absent
      BY <1>4 DEF Sound
    <2>6. u \in Seq(Lock)
      <3>1. TableWrite \in Lock
        BY LocksDiffer
      <3>2. \A y \in Lock : <<y>> \in Seq(Lock)
        OBVIOUS
      <3> QED
        BY <2>1, <3>1, <3>2
    <2> HIDE DEF u, g, f, x
    <2>7. TableShare \notin g
      BY <2>4 DEF Taking
    <2>8. Sound(p, r, g, u, f)
      BY <1>1, <1>3, <1>4, <2>4, <2>5, <2>7 DEF Sound
    <2> QED
      BY <2>6, <2>8 DEF u, g, f, x
  <1>5. CASE x = TableShare
    <2>1. r.kind = "count"
      BY <1>2, <1>5 DEF Sound
    <2>2. u = RowsOf(Below(p, r.location))
      BY <1>5, <2>1 DEF FollowingOf
    <2>3. Below(p, r.location) \in SUBSET Location
      BY <1>1, BelowIsClosure
    <2>4. u \in Seq(Lock) /\ Range(u) = {RowUpdate(k) : k \in Below(p, r.location)}
      BY <2>2, <2>3, RowsLocked
    <2>5. \A k \in Location : RowUpdate(k) \in h => k \in Below(p, r.location)
      <3>1. CASE TableShare \in h
        BY <1>2, <3>1 DEF Sound
      <3>2. CASE TableShare \notin h
        BY <1>2, <2>1, <3>2 DEF Sound
      <3> QED
        BY <3>1, <3>2
    <2>6. p[r.location] # Absent
      BY <2>1 DEF Sound
    <2> HIDE DEF u
    <2>7. \A k \in Location : RowUpdate(k) \in Taking(g, u) <=> k \in Below(p, r.location)
      <3>1. \A k : RowUpdate(k) # x
        BY <1>5, LocksDiffer
      <3>2. \A k \in Location : RowUpdate(k) \in Range(u) <=> k \in Below(p, r.location)
        BY <2>4, LocksDiffer
      <3> QED
        BY <2>5, <3>1, <3>2 DEF Taking
    <2>8. {k \in Location : RowUpdate(k) \in Taking(g, u)} = Below(p, r.location)
      BY <2>3, <2>7
    <2>9. TableShare \in g
      BY <1>5
    <2> HIDE DEF g, f, x
    <2>10. Sound(p, r, g, u, f)
      BY <1>1, <1>3, <2>1, <2>6, <2>8, <2>9 DEF Sound
    <2> QED
      BY <2>4, <2>10 DEF u, g, f, x
  <1>6. CASE ~(r.kind = "move" /\ x = RowUpdate(r.location) /\ p[r.location] = r.to)
             /\ x # TableShare
    <2>1. u = Tail(t)
      BY <1>6 DEF FollowingOf
    <2>2. Taking(g, u) = Taking(h, t)
      BY <1>2, <2>1 DEF Taking
    <2>3. h \subseteq g /\ (TableShare \in g <=> TableShare \in h)
      BY <1>6
    <2> HIDE DEF u, g, f, x
    <2>4. /\ r.kind = "create" =>
               /\ p[r.location] = Absent
               /\ TableWrite \in Taking(g, u)
               /\ r.to # Root => Hierarchy \in Taking(g, u)
          /\ r.kind \in {"move", "edit", "count"} => p[r.location] # Absent
          /\ r.kind # "count" => TableShare \notin Taking(g, u)
      BY <2>2 DEF Sound
    <2>5. r.kind = "move" =>
            /\ {TableWrite, RowUpdate(r.location)} \subseteq Taking(g, u)
            /\ \/ Hierarchy \in Taking(g, u)
               \/ RowUpdate(r.location) \in g /\ p[r.location] = r.to
      BY <2>2, <2>3 DEF Sound
    <2>6. r.kind = "count" /\ TableShare \notin g => \A k : RowUpdate(k) \notin Taking(g, u)
      BY <2>2, <2>3 DEF Sound
    <2>7. TableShare \in g =>
            {k \in Location : RowUpdate(k) \in Taking(g, u)} = Below(p, r.location)
      BY <2>2, <2>3 DEF Sound
    <2>8. Sound(p, r, g, u, f)
      BY <1>1, <1>3, <2>4, <2>5, <2>6, <2>7 DEF Sound
    <2>9. u \in Seq(Lock)
      BY <1>2, <2>1
    <2> QED
      BY <2>8, <2>9 DEF u, g, f, x
  <1> QED
    BY <1>4, <1>5, <1>6

-----------------------------------------------------------------------------
(***************************************************************************)
(* Location trees: the invariant.                                          *)
(***************************************************************************)
LocksExclusive ==
  \A v, w \in Worker : v # w =>
    \A x \in held[v], y \in held[w] : ~Conflicting(x, y)

\* Nobody else asks for a location that is being created.
CreationsApart ==
  \A v, w \in Worker : v # w /\ request[w].kind = "create" =>
    request[v].location # request[w].location

AllSound == \A w \in Worker : Sound(parent, request[w], held[w], todo[w], refused[w])

LocationInv ==
  TypeOK /\ LocksExclusive /\ CreationsApart /\ AllSound /\ IsTree(parent)

\* What the types say of requests, and what the tree of a state is.
LEMMA SubtreesOfNow ==
  ASSUME TypeOK
  PROVE  /\ \A l \in Location : Subtree(l) = Below(parent, l)
         /\ \A w \in Worker :
              /\ request[w] \in Request \union {NoRequest}
              /\ todo[w] \in Seq(Lock)
              /\ request[w] # NoRequest => /\ request[w] \in Request
                                           /\ request[w].location \in Location
                                           /\ request[w].to \in Location \union {Root}
                                           /\ request[w].kind \in
                                                {"create", "move", "edit", "count"}
         /\ parent \in [Location -> Places]
  <1>1. \A w \in Worker : request[w] \in Request \union {NoRequest} /\ todo[w] \in Seq(Lock)
    BY DEF TypeOK
  <1>2. \A r \in Request : /\ r.location \in Location /\ r.to \in Location \union {Root}
                           /\ r.kind \in {"create", "move", "edit", "count"}
    BY DEF Request
  <1>3. parent \in [Location -> Places]
    BY DEF TypeOK, Places
  <1> QED
    BY <1>1, <1>2, <1>3, SubtreeIsBelow

\* A request that ends, leaving the tree as it is, leaves everything sound.
LEMMA FinishKeeps ==
  ASSUME LocationInv, NEW w \in Worker, Finish(w), UNCHANGED parent
  PROVE  LocationInv'
  <1> USE DEF LocationInv
  <1>1. /\ request'[w] = NoRequest /\ held'[w] = {} /\ todo'[w] = <<>> /\ refused'[w] = FALSE
        /\ \A v \in Worker \ {w} : /\ request'[v] = request[v] /\ held'[v] = held[v]
                                   /\ todo'[v] = todo[v] /\ refused'[v] = refused[v]
    BY DEF Finish, TypeOK
  <1>2. TypeOK'
    <2>1. <<>> \in Seq(Lock)
      BY EmptySeq
    <2> QED
      BY <2>1 DEF Finish, TypeOK
  <1>3. LocksExclusive'
    BY <1>1 DEF LocksExclusive
  <1>4. CreationsApart'
    <2>1. NoRequest.kind # "create" /\ NoRequest.location \notin Location
      BY TreeConstants DEF TreeConstants, NoRequest
    <2>2. \A v \in Worker : request[v].kind = "create" => request[v].location \in Location
      BY <2>1, SubtreesOfNow
    <2> QED
      BY <1>1, <2>1, <2>2 DEF CreationsApart
  <1>5. AllSound'
    <2>1. Sound(parent, NoRequest, {}, <<>>, FALSE)
      BY NobodyIsSound
    <2> QED
      BY <1>1, <2>1 DEF AllSound
  <1> QED
    BY <1>2, <1>3, <1>4, <1>5

\* A request that begins keeps the invariant.
LEMMA SubmitKeeps ==
  ASSUME LocationInv, NEW w \in Worker, NEW r \in Request, Submit(w, r)
  PROVE  LocationInv'
  <1> USE DEF LocationInv
  <1>1. /\ request'[w] = r /\ todo'[w] = LocksOf(r) /\ request[w] = NoRequest
        /\ UNCHANGED <<parent, held, refused>>
        /\ \A v \in Worker \ {w} : request'[v] = request[v] /\ todo'[v] = todo[v]
    BY DEF Submit, TypeOK
  <1>2. TypeOK'
    BY LocksOfRequest DEF Submit, TypeOK
  <1>3. LocksExclusive'
    BY <1>1 DEF LocksExclusive
  <1>4. /\ r.kind = "create" => /\ parent[r.location] = Absent
                                /\ \A v \in Worker : request[v].location # r.location
        /\ r.kind # "create" => parent[r.location] # Absent
    BY DEF Submit, Exists
  <1>5. \A v \in Worker : request[v].kind = "create" => parent[request[v].location] = Absent
    BY DEF AllSound, Sound
  <1>6. CreationsApart'
    BY <1>1, <1>4, <1>5 DEF CreationsApart
  <1>7. AllSound'
    <2>1. held[w] = {}
      BY <1>1 DEF AllSound, Sound
    <2>2. Sound(parent, r, {}, LocksOf(r), refused[w])
      BY <1>4, BeginningIsSound
    <2> QED
      BY <1>1, <2>1, <2>2 DEF AllSound
  <1> QED
    BY <1>1, <1>2, <1>3, <1>6, <1>7

\* So does taking the next lock,
LEMMA TakeKeeps ==
  ASSUME LocationInv, NEW w \in Worker, Take(w)
  PROVE  LocationInv'
  <1> USE DEF LocationInv
  <1> DEFINE x == Head(todo[w])
             r == request[w]
  <1>1. todo[w] # <<>> /\ refused[w] = FALSE /\ Free(w, x) /\ UNCHANGED <<parent, request>>
    BY DEF Take, TypeOK
  <1>2. r # NoRequest
    BY <1>1 DEF AllSound, Sound
  <1>3. /\ r \in Request /\ r.location \in Location /\ r.to \in Location \union {Root}
        /\ Subtree(r.location) = Below(parent, r.location)
        /\ todo[w] \in Seq(Lock) /\ parent \in [Location -> Places]
    BY <1>2, SubtreesOfNow
  <1>4. /\ held' = [held EXCEPT ![w] = @ \union {x}]
        /\ todo' = [todo EXCEPT ![w] = Following(w, x)]
        /\ refused' = [refused EXCEPT ![w] = Validating(w, x) /\ ~MayHang(r.location, r.to)]
    BY DEF Take
  <1>5. Following(w, x) = FollowingOf(parent, r, todo[w], x)
    <2>1. RowsOf(Subtree(r.location)) = RowsOf(Below(parent, r.location))
      BY <1>3
    <2> HIDE DEF x
    <2> QED
      BY <2>1, Zenon DEF Following, FollowingOf, RowsOf
  <1>6. (Validating(w, x) /\ ~MayHang(r.location, r.to)) = RefusedOf(parent, r, x)
    <2>1. MayHang(r.location, r.to) <=>
            (r.to # Root => parent[r.to] # Absent /\ r.to \notin Below(parent, r.location))
      BY <1>3 DEF MayHang, Exists
    <2> QED
      BY <2>1 DEF Validating, RefusedOf
  <1>7. Sound(parent, r, held[w], todo[w], FALSE)
    BY <1>1 DEF AllSound
  <1> DEFINE u == FollowingOf(parent, r, todo[w], x)
             f == RefusedOf(parent, r, x)
  <1>8. u \in Seq(Lock) /\ Sound(parent, r, held[w] \union {x}, u, f)
    BY <1>1, <1>3, <1>7, TakingIsSound
  <1>9. x \in Lock
    BY <1>1, <1>3, RangeOfTail
  <1>10. f \in BOOLEAN
    BY DEF RefusedOf
  <1>11. /\ held' = [held EXCEPT ![w] = held[w] \union {x}]
         /\ todo' = [todo EXCEPT ![w] = u] /\ refused' = [refused EXCEPT ![w] = f]
    BY <1>4, <1>5, <1>6
  <1> HIDE DEF x, u, f
  <1>12. /\ held'[w] = held[w] \union {x} /\ todo'[w] = u /\ refused'[w] = f
         /\ \A v \in Worker \ {w} : /\ held'[v] = held[v] /\ todo'[v] = todo[v]
                                    /\ refused'[v] = refused[v]
    BY <1>11 DEF TypeOK
  <1>13. TypeOK'
    BY <1>1, <1>8, <1>9, <1>10, <1>11 DEF TypeOK
  <1>14. LocksExclusive'
    <2>1. \A v \in Worker \ {w} : \A y \in held[v] : ~Conflicting(x, y) /\ ~Conflicting(y, x)
      BY <1>1, ConflictsAreMutual DEF Free
    <2> QED
      BY <1>12, <2>1 DEF LocksExclusive
  <1>15. CreationsApart'
    BY <1>1 DEF CreationsApart
  <1>16. AllSound'
    BY <1>1, <1>8, <1>12 DEF AllSound, r
  <1> QED
    BY <1>1, <1>13, <1>14, <1>15, <1>16

\* and writing what was asked for once all are held.
LEMMA CommitKeeps ==
  ASSUME LocationInv, NEW w \in Worker, Commit(w)
  PROVE  LocationInv'
  <1> USE DEF LocationInv
  <1> DEFINE r == request[w]
             l == request[w].location
             to == request[w].to
  <1>1. r # NoRequest /\ todo[w] = <<>> /\ refused[w] = FALSE /\ Finish(w)
    BY DEF Commit, TypeOK
  <1>2. /\ r \in Request /\ l \in Location /\ to \in Location \union {Root}
        /\ parent \in [Location -> Places]
    BY <1>1, SubtreesOfNow
  <1>3. Sound(parent, r, held[w], <<>>, FALSE)
    BY <1>1 DEF AllSound
  <1>4. Taking(held[w], <<>>) = held[w]
    BY RangesOfShort DEF Taking
  <1>5. CASE r.kind \notin {"create", "move"} \/ parent[l] = to
    <2>1. parent' = parent
      BY <1>2, <1>5 DEF Commit
    <2> QED
      BY <1>1, <2>1, FinishKeeps
  <1>6. CASE r.kind \in {"create", "move"} /\ parent[l] # to
    <2>1. parent' = [parent EXCEPT ![l] = to]
      BY <1>6 DEF Commit
    <2>2. /\ TableWrite \in held[w]
          /\ Hierarchy \in held[w] \/ (r.kind = "create" /\ to = Root)
          /\ to # Root => parent[to] # Absent /\ to \notin Below(parent, l)
          /\ r.kind = "create" => parent[l] = Absent
          /\ r.kind = "move" => RowUpdate(l) \in held[w]
      BY <1>3, <1>4, <1>6 DEF Sound
    <2>3. IsTree(parent')
      BY <1>2, <2>1, <2>2, HangingKeepsTree
    <2>4. /\ request'[w] = NoRequest /\ held'[w] = {} /\ todo'[w] = <<>> /\ refused'[w] = FALSE
          /\ \A v \in Worker \ {w} : /\ request'[v] = request[v] /\ held'[v] = held[v]
                                     /\ todo'[v] = todo[v] /\ refused'[v] = refused[v]
      BY <1>1 DEF Finish, TypeOK
    <2>5. ASSUME NEW v \in Worker \ {w}
          PROVE  Sound(parent', request[v], held[v], todo[v], refused[v])
      <3>1. \A x \in held[w], y \in held[v] : ~Conflicting(x, y)
        BY DEF LocksExclusive
      <3>2. TableShare \notin held[v]
        BY <2>2, <3>1, LocksConflict
      <3>3. Hierarchy \notin held[v] \/ (parent[l] = Absent /\ to = Root)
        BY <2>2, <3>1, LocksConflict
      <3>4. parent[l] = Absent \/ RowUpdate(l) \notin held[v]
        BY <1>6, <2>2, <3>1, LocksConflict
      <3>5. request[v].kind = "create" => request[v].location # l
        BY DEF CreationsApart
      <3>6. request[v] \in Request \union {NoRequest}
        BY SubtreesOfNow
      <3>7. Sound(parent, request[v], held[v], todo[v], refused[v])
        BY DEF AllSound
      <3> HIDE DEF l, to
      <3> QED
        BY <1>2, <2>1, <3>2, <3>3, <3>4, <3>5, <3>6, <3>7, SoundElsewhere
    <2>6. AllSound'
      <3>1. Sound(parent', NoRequest, {}, <<>>, FALSE)
        BY NobodyIsSound
      <3> QED
        BY <2>4, <2>5, <3>1 DEF AllSound
    <2>7. TypeOK'
      <3>1. <<>> \in Seq(Lock)
        BY EmptySeq
      <3> QED
        BY <1>1, <1>2, <2>1, <3>1 DEF Finish, TypeOK
    <2>8. LocksExclusive'
      BY <2>4 DEF LocksExclusive
    <2>9. CreationsApart'
      <3>1. NoRequest.kind # "create" /\ NoRequest.location \notin Location
        BY TreeConstants DEF TreeConstants, NoRequest
      <3>2. \A v \in Worker : request[v].kind = "create" => request[v].location \in Location
        BY <3>1, SubtreesOfNow
      <3> QED
        BY <2>4, <3>1, <3>2 DEF CreationsApart
    <2> QED
      BY <2>3, <2>6, <2>7, <2>8, <2>9
  <1> QED
    BY <1>5, <1>6

\* Every step keeps the invariant.
LEMMA LocationStepKeeps ==
  ASSUME LocationInv, [Next]_vars
  PROVE  LocationInv'
  <1>1. ASSUME NEW w \in Worker, Reject(w) \/ Crash(w) \/ BreakDeadlock(w)
        PROVE  LocationInv'
    BY <1>1, FinishKeeps DEF Reject, Crash, BreakDeadlock
  <1>2. CASE UNCHANGED vars
    BY <1>2 DEF vars, LocationInv, TypeOK, LocksExclusive, CreationsApart, AllSound
  <1> QED
    BY <1>1, <1>2, SubmitKeeps, TakeKeeps, CommitKeeps DEF Next, Step

\* The invariant holds in the beginning,
LEMMA LocationsBegin == Init => LocationInv
  <1> SUFFICES ASSUME Init PROVE LocationInv
    OBVIOUS
  <1>1. Root \notin Location /\ Root # Absent
    BY TreeConstants DEF TreeConstants
  <1>2. TypeOK
    <2>1. <<>> \in Seq(Lock)
      BY EmptySeq
    <2> QED
      BY <2>1 DEF Init, TypeOK
  <1>3. IsTree(parent)
    BY <1>1, TreeConstants DEF TreeConstants, Init, IsTree
  <1>4. CreationsApart /\ LocksExclusive
    BY DEF Init, CreationsApart, LocksExclusive, NoRequest
  <1>5. AllSound
    BY NobodyIsSound DEF Init, AllSound
  <1> QED
    BY <1>2, <1>3, <1>4, <1>5 DEF LocationInv

\* and in every state.
LEMMA LocationInvariance == Spec => []LocationInv
  <1>1. LocationInv /\ [Next]_vars => LocationInv'
    BY LocationStepKeeps
  <1> QED
    BY <1>1, LocationsBegin, PTL DEF Spec

\* However creations and moves of locations interleave, there is no location from which
\* one does not come up to the top: a parent that was validated under the hierarchy lock
\* stays outside the subtree until the commit.
THEOREM LocationsStayATree == Spec => []TreeStaysATree
  <1>1. LocationInv => TreeStaysATree
    <2> SUFFICES ASSUME LocationInv, NEW l \in Location, parent[l] # Absent
                 PROVE  \E top \in Location : parent[top] = Root /\ l \in Subtree(top)
      BY DEF TreeStaysATree, Exists
    <2>1. \E top \in Location : parent[top] = Root /\ l \in Below(parent, top)
      BY SubtreesOfNow, TreeHasTops DEF LocationInv
    <2> QED
      BY <2>1, SubtreesOfNow DEF LocationInv
  <1> QED
    BY <1>1, LocationInvariance, PTL

\* From the moment at which a count has read its scope to its end the rows that it locks
\* are those of the scope.
THEOREM ScopesStandStill == Spec => []ScopeStandsStill
  <1>1. LocationInv => ScopeStandsStill
    <2> SUFFICES ASSUME LocationInv, NEW w \in Worker, TableShare \in held[w]
                 PROVE  {l \in Location : RowUpdate(l) \in held[w] \union Range(todo[w])}
                          = Subtree(request[w].location)
      BY DEF ScopeStandsStill
    <2>1. Sound(parent, request[w], held[w], todo[w], refused[w])
      BY DEF LocationInv, AllSound
    <2>2. request[w].location \in Location
      BY <2>1, SubtreesOfNow DEF LocationInv, Sound
    <2>3. Subtree(request[w].location) = Below(parent, request[w].location)
      BY <2>2, SubtreesOfNow DEF LocationInv
    <2> QED
      BY <2>1, <2>3 DEF Sound, Taking
  <1> QED
    BY <1>1, LocationInvariance, PTL
=============================================================================
