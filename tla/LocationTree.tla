----------------------------- MODULE LocationTree -----------------------------
(***************************************************************************)
(* The location tree: create_location, update_location and                 *)
(* set_location_active of locations/services, and the start of a physical  *)
(* count, which must see a tree that stands still.  Production lines       *)
(* (inventory/services/production_lines.py) repeat the first three with a  *)
(* lock of their own.                                                      *)
(*                                                                         *)
(* What keeps the tree a tree is a choice of locks of different kinds, so  *)
(* the locks are modelled one by one with their modes: rows FOR UPDATE, an *)
(* advisory lock for changes of parents, the table lock that every write   *)
(* takes, the SHARE lock of a count, and the FOR KEY SHARE lock that       *)
(* PostgreSQL takes on the new parent when it checks the deferred foreign  *)
(* key at commit.                                                          *)
(***************************************************************************)
EXTENDS Naturals, Sequences, FiniteSets, Functions

CONSTANTS
  Worker,
  Location,    \* all identifiers, of present and future locations
  Present,     \* those that exist at first, side by side
  Root,        \* NULL: the parent of a topmost location
  Absent       \* no row

ASSUME TreeConstants ==
  /\ Location \subseteq Nat
  /\ Present \subseteq Location
  /\ Root # Absent /\ {Root, Absent} \intersect Location = {}

\* A table has finitely many rows.
ASSUME FiniteLocations == IsFiniteSet(Location)

VARIABLES
  parent,    \* [Location -> Location, Root or Absent]
  request,   \* [Worker -> Request or NoRequest]
  held,      \* [Worker -> set of locks]
  todo,      \* [Worker -> Seq(locks)]: to be taken in this order
  refused    \* [Worker -> BOOLEAN]: the tree as it was read forbids it

vars == <<parent, request, held, todo, refused>>

NoRequest == [kind |-> "none", location |-> Root, to |-> Root]
Request ==
  [kind : {"create", "move"}, location : Location, to : Location \union {Root}]
    \union [kind : {"edit", "count"}, location : Location, to : {Root}]

-----------------------------------------------------------------------------
(***************************************************************************)
(* Locks                                                                   *)
(***************************************************************************)
RowUpdate(l)   == <<"location", l, "update">>
RowKeyShare(l) == <<"location", l, "key share">>
Hierarchy      == <<"hierarchy", 0, "exclusive">>
CountScope     == <<"count scope", 0, "exclusive">>
TableWrite     == <<"table", 0, "row exclusive">>
TableRowShare  == <<"table", 0, "row share">>   \* mutant: LOCK TABLE in a weak mode
TableShare     == <<"table", 0, "share">>

Lock == {RowUpdate(l) : l \in Location} \union {RowKeyShare(l) : l \in Location}
          \union {Hierarchy, CountScope, TableWrite, TableShare}

Conflicting(x, y) ==
  /\ x[1] = y[1] /\ x[2] = y[2]
  /\ {x[3], y[3]} \in {{"update"}, {"update", "key share"}, {"exclusive"},
                       {"share", "row exclusive"}}

Free(w, x) ==
  \A v \in Worker \ {w} : \A y \in held[v] : ~Conflicting(x, y)

ParentCheck(p) == IF p = Root THEN <<>> ELSE <<RowKeyShare(p)>>

LocksOf(r) ==
  CASE r.kind = "create" ->
         IF r.to = Root THEN <<TableWrite>>
         ELSE <<Hierarchy, TableWrite>> \o ParentCheck(r.to)
    [] r.kind = "move"  -> <<RowUpdate(r.location), Hierarchy, TableWrite>>
                             \o ParentCheck(r.to)
    [] r.kind = "edit"  -> <<RowUpdate(r.location), TableWrite>>
    [] r.kind = "count" -> <<CountScope, TableShare>>

-----------------------------------------------------------------------------
(***************************************************************************)
(* The tree                                                                *)
(***************************************************************************)
Exists(l) == parent[l] # Absent

\* The locations from which one comes to l by going up, l among them.
Subtree(l) ==
  LET level[n \in 0 .. Cardinality(Location)] ==
        IF n = 0 THEN {l}
        ELSE level[n - 1] \union {k \in Location : parent[k] \in level[n - 1]}
  IN level[Cardinality(Location)]

\* _validate_parent_exists and _revalidate_hierarchy_after_lock.
MayHang(l, p) == p # Root => Exists(p) /\ p \notin Subtree(l)

-----------------------------------------------------------------------------
TypeOK ==
  /\ parent \in [Location -> Location \union {Root, Absent}]
  /\ request \in [Worker -> Request \union {NoRequest}]
  /\ held \in [Worker -> SUBSET Lock]
  /\ todo \in [Worker -> Seq(Lock)]
  /\ refused \in [Worker -> BOOLEAN]

Init ==
  /\ parent = [l \in Location |-> IF l \in Present THEN Root ELSE Absent]
  /\ request = [w \in Worker |-> NoRequest]
  /\ held = [w \in Worker |-> {}]
  /\ todo = [w \in Worker |-> <<>>]
  /\ refused = [w \in Worker |-> FALSE]

FinishInSession(w) ==   \* mutant: pg_advisory_lock instead of the _xact_ lock
  /\ request' = [request EXCEPT ![w] = NoRequest]
  /\ held' = [held EXCEPT ![w] = @ \intersect {Hierarchy}]
  /\ todo' = [todo EXCEPT ![w] = <<>>]
  /\ refused' = [refused EXCEPT ![w] = FALSE]

Finish(w) ==
  /\ request' = [request EXCEPT ![w] = NoRequest]
  /\ held' = [held EXCEPT ![w] = {}]
  /\ todo' = [todo EXCEPT ![w] = <<>>]
  /\ refused' = [refused EXCEPT ![w] = FALSE]

\* A user creates a location (with an identifier of its own), edits or moves
\* one, or starts a count of it.
Submit(w, r) ==
  /\ request[w] = NoRequest
  /\ IF r.kind = "create"
     THEN ~Exists(r.location) /\ \A v \in Worker : request[v].location # r.location
     ELSE Exists(r.location)
  /\ request' = [request EXCEPT ![w] = r]
  /\ todo' = [todo EXCEPT ![w] = LocksOf(r)]
  /\ UNCHANGED <<parent, held, refused>>

\* The members of S, smallest first.
InOrder(S) ==
  CHOOSE s \in [1 .. Cardinality(S) -> S] :
    Range(s) = S /\ \A i, j \in DOMAIN s : i < j => s[i] < s[j]

\* What follows once x is locked: an update that leaves the parent as the
\* locked row has it changes no parent; a count reads the tree and locks the
\* rows of its scope in order.
Following(w, x) ==
  LET r == request[w] IN
  IF r.kind = "move" /\ x = RowUpdate(r.location) /\ parent[r.location] = r.to
  THEN <<TableWrite>>
  ELSE IF x = TableShare
  THEN [i \in 1 .. Cardinality(Subtree(r.location)) |->
          RowUpdate(InOrder(Subtree(r.location))[i])]
  ELSE Tail(todo[w])

ValidatingEarly(w, x) ==   \* mutant: validated before the hierarchy is locked
  x = RowUpdate(request[w].location)

\* The lock under which the parent is validated.
Validating(w, x) == x = Hierarchy

Take(w) ==
  /\ todo[w] # <<>> /\ ~refused[w]
  /\ LET x == Head(todo[w])  r == request[w] IN
       /\ Free(w, x)
       /\ held' = [held EXCEPT ![w] = @ \union {x}]
       /\ todo' = [todo EXCEPT ![w] = Following(w, x)]
       /\ refused' = [refused EXCEPT
            ![w] = Validating(w, x) /\ ~MayHang(r.location, r.to)]
  /\ UNCHANGED <<parent, request>>

Reject(w) ==
  /\ refused[w]
  /\ Finish(w)
  /\ UNCHANGED parent

Commit(w) ==
  LET r == request[w] IN
  /\ r # NoRequest /\ todo[w] = <<>> /\ ~refused[w]
  /\ parent' = IF r.kind \in {"create", "move"}
               THEN [parent EXCEPT ![r.location] = r.to]
               ELSE parent
  /\ Finish(w)

\* The process or its connection dies.
Crash(w) ==
  /\ request[w] # NoRequest
  /\ Finish(w)
  /\ UNCHANGED parent

WaitsFor(w, v) ==
  /\ v # w /\ todo[w] # <<>> /\ ~refused[w]
  /\ \E y \in held[v] : Conflicting(Head(todo[w]), y)

Deadlocked(S) ==
  S # {} /\ \A w \in S : \E v \in S : WaitsFor(w, v)

\* PostgreSQL's deadlock detector makes one member of a cycle fail.
BreakDeadlock(w) ==
  /\ \E S \in SUBSET Worker : /\ w \in S /\ Deadlocked(S)
                              /\ \E v \in S : WaitsFor(v, w)
  /\ Finish(w)
  /\ UNCHANGED parent

Step(w) == Take(w) \/ Reject(w) \/ Commit(w)

Next ==
  \/ \E w \in Worker : \E r \in Request : Submit(w, r)
  \/ \E w \in Worker : Step(w) \/ Crash(w) \/ BreakDeadlock(w)

Spec == Init /\ [][Next]_vars

\* PostgreSQL queues waiters and looks for deadlocks after deadlock_timeout.
Fairness == \A w \in Worker : SF_vars(Step(w)) /\ WF_vars(BreakDeadlock(w))

FairSpec == Spec /\ Fairness

-----------------------------------------------------------------------------
(***************************************************************************)
(* Properties                                                              *)
(***************************************************************************)

\* From every location one comes up to the root over existing locations,
\* however moves of several locations, each of them legal alone, interleave.
TreeStaysATree ==
  \A l \in Location : Exists(l) =>
    \E top \in Location : parent[top] = Root /\ l \in Subtree(top)

\* A count that has read its scope locks exactly the locations that make it
\* up at every later moment of its start: the snapshot misses none and takes
\* no stranger.
ScopeStandsStill ==
  \A w \in Worker : TableShare \in held[w] =>
    {l \in Location : RowUpdate(l) \in held[w] \union Range(todo[w])}
      = Subtree(request[w].location)

\* A move, an edit and a count may wait for each other in a cycle; still every
\* request ends, and no lock outlives it.
EveryRequestEnds ==
  \A w \in Worker : request[w] # NoRequest ~> request[w] = NoRequest
=============================================================================
