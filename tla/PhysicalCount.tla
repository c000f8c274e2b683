---------------------------- MODULE PhysicalCount ----------------------------
(***************************************************************************)
(* Physical counts (counting/services.py): a session snapshots the stock   *)
(* of one subtree of locations, users count it while stock goes on moving, *)
(* and a manager approves or rejects each discrepancy of quantity.         *)
(*                                                                         *)
(* Every service locks the session row first and holds it to its commit,   *)
(* and those that look at other sessions or at the location tree hold the  *)
(* count-scope advisory lock and a SHARE lock of the location table, so    *)
(* each is one step.  A request that is refused changes nothing and is no  *)
(* step at all.                                                            *)
(***************************************************************************)
EXTENDS Integers, FiniteSets

CONSTANTS
  User,         \* those who count
  Manager,      \* those of them with counting.decide_discrepancy
  Session,      \* sessions that may be created
  OperationId,  \* identifiers that approval forms carry
  Material, Location, Condition,
  Asset,        \* codes of serialized assets
  MaxQuantity,  \* bound of stock and of counts
  MaxTime,      \* bound of the clock
  Nothing       \* SQL NULL

Bucket == Material \X Location \X Condition
Place == Location \X Condition

ASSUME CountConstants ==
  /\ Manager \subseteq User
  /\ MaxQuantity \in Nat
  /\ MaxTime \in Nat
  /\ Nothing \notin Nat \union User \union Location \union OperationId
  /\ Nothing \notin Session \union Bucket \union Asset
  /\ Asset \intersect Bucket = {}

ASSUME FiniteLocations == IsFiniteSet(Location)

VARIABLES
  session,   \* [Session -> PhysicalCountSession, status "NONE" before it exists]
  line,      \* [Session -> [Bucket -> PhysicalCountQuantityLine or NoLine]]
  item,      \* [Session -> [Asset -> PhysicalCountSerializedLine or NoItem]]
  form,      \* [User -> the count a user has on the screen, or NoForm]
  effect,    \* [OperationId -> the COUNT_RECONCILIATION posted, or NoEffect]
  parent,    \* [Location -> Location or Nothing]
  active,    \* the active locations (those that cannot hold stock are left out)
  stock,     \* [Bucket -> quantity]
  place      \* [Asset -> <<location, condition>> in stock, Out or Unknown]

vars == <<session, line, item, form, effect, parent, active, stock, place>>

LocationOf(b) == b[2]
Out == <<"issued">>           \* an asset that is registered and not in stock
Unknown == <<"unknown">>      \* one that nobody has registered
Missing == <<"missing">>      \* what is observed of an asset that is not there
Time == 0 .. MaxTime
Count == 0 .. MaxQuantity

-----------------------------------------------------------------------------
SessionShape(status, reconciliation, scope, baseline) ==
  [status |-> status, reconciliation |-> reconciliation,
   scope |-> scope, baseline |-> baseline]

NoSession == SessionShape("NONE", "NOT_STARTED", Nothing, FALSE)

\* `by' and `at' are counted_by_user and counted_at.
LineShape(expected, counted, by, at, resolution) ==
  [expected |-> expected, counted |-> counted, by |-> by, at |-> at,
   resolution |-> resolution]

NoLine == LineShape(0, Nothing, Nothing, Nothing, "NONE")

\* `known' says whether the line refers to a registered asset, or to a code
\* that nobody had registered; an expected or observed place may be missing.
ItemShape(known, expected, observed, by, at, resolution) ==
  [known |-> known, expected |-> expected, observed |-> observed, by |-> by,
   at |-> at, resolution |-> resolution]

NoItem == ItemShape(FALSE, Nothing, Nothing, Nothing, Nothing, "NONE")

\* What a counter's page shows of a line, `at' being its hidden token.
FormShape(s, x, count, at) == [session |-> s, of |-> x, count |-> count, at |-> at]
NoForm == FormShape(Nothing, Nothing, Nothing, Nothing)

EffectShape(s, b, delta, by) == [session |-> s, bucket |-> b, delta |-> delta, by |-> by]
NoEffect == EffectShape(Nothing, Nothing, 0, Nothing)

Resolution == {"PENDING_COUNT", "NOT_COUNTED", "NO_DISCREPANCY",
               "PENDING_APPROVAL", "APPROVED"}

TypeOK ==
  /\ session \in [Session ->
       [status : {"NONE", "DRAFT", "STARTED", "COMPLETED"},
        reconciliation : {"NOT_STARTED", "PENDING", "COMPLETED"},
        scope : Location \union {Nothing},
        baseline : BOOLEAN]]
  /\ line \in [Session -> [Bucket ->
       [expected : Count, counted : Count \union {Nothing},
        by : User \union {Nothing}, at : Time \union {Nothing},
        resolution : Resolution \union {"NONE"}]]]
  /\ item \in [Session -> [Asset ->
       [known : BOOLEAN, expected : Place \union {Nothing},
        observed : Place \union {Missing, Nothing},
        by : User \union {Nothing}, at : Time \union {Nothing},
        resolution : (Resolution \ {"APPROVED"}) \union {"NONE"}]]]
  /\ effect \in [OperationId ->
       [session : Session \union {Nothing}, bucket : Bucket \union {Nothing},
        delta : -MaxQuantity .. MaxQuantity, by : User \union {Nothing}]]
  /\ parent \in [Location -> Location \union {Nothing}]
  /\ active \subseteq Location
  /\ stock \in [Bucket -> Count]
  /\ place \in [Asset -> Place \union {Out, Unknown}]

-----------------------------------------------------------------------------
(***************************************************************************)
(* The location tree.                                                      *)
(***************************************************************************)

\* Does the walk from l to the root come by `ancestor'?
IsAncestor(ancestor, l) ==
  LET reaches[n \in 0 .. Cardinality(Location), x \in Location] ==
        \/ x = ancestor
        \/ /\ n > 0
           /\ parent[x] # Nothing
           /\ reaches[n - 1, parent[x]]
  IN  reaches[Cardinality(Location), l]

\* The root, its children, and so on, as resolve_location_subtree_ids finds them.
Subtree(root) ==
  LET level[n \in 0 .. Cardinality(Location)] ==
        IF n = 0 THEN {root}
        ELSE level[n - 1] \union {k \in Location : parent[k] \in level[n - 1]}
  IN level[Cardinality(Location)]

SubtreesOverlap(l, m) == IsAncestor(l, m) \/ IsAncestor(m, l)

Open(s) == session[s].status \in {"DRAFT", "STARTED"}

OverlapsOpenSession(s, scope) ==
  \E t \in Session \ {s} : Open(t) /\ SubtreesOverlap(scope, session[t].scope)

-----------------------------------------------------------------------------
(***************************************************************************)
(* The life of a session.                                                  *)
(***************************************************************************)
Init ==
  /\ session = [s \in Session |-> NoSession]
  /\ line = [s \in Session |-> [b \in Bucket |-> NoLine]]
  /\ item = [s \in Session |-> [a \in Asset |-> NoItem]]
  /\ form = [u \in User |-> NoForm]
  /\ effect = [o \in OperationId |-> NoEffect]
  /\ parent = [l \in Location |-> Nothing]
  /\ active = Location
  /\ stock = [b \in Bucket |-> 0]
  /\ place = [a \in Asset |-> Unknown]

Create(s, scope, baseline) ==
  /\ session[s].status = "NONE"
  /\ scope \in active
  /\ ~OverlapsOpenSession(s, scope)
  /\ session' = [session EXCEPT
       ![s] = SessionShape("DRAFT", "NOT_STARTED", scope, baseline)]
  /\ UNCHANGED <<line, item, form, effect, parent, active, stock, place>>

\* The snapshot: a line for every bucket with stock, and one for every asset
\* in stock, within the subtree.
Start(s) ==
  /\ session[s].status = "DRAFT"
  /\ session[s].scope \in active
  /\ ~OverlapsOpenSession(s, session[s].scope)
  /\ LET scope == Subtree(session[s].scope) IN
     /\ line' = [line EXCEPT ![s] = [b \in Bucket |->
          IF LocationOf(b) \in scope /\ stock[b] > 0
          THEN LineShape(stock[b], Nothing, Nothing, Nothing, "PENDING_COUNT")
          ELSE NoLine]]
     /\ item' = [item EXCEPT ![s] = [a \in Asset |->
          IF place[a] \in Place /\ place[a][1] \in scope
          THEN ItemShape(TRUE, place[a], Nothing, Nothing, Nothing, "PENDING_COUNT")
          ELSE NoItem]]
  /\ session' = [session EXCEPT ![s].status = "STARTED"]
  /\ UNCHANGED <<form, effect, parent, active, stock, place>>

\* Resolutions that keep a session from being completed.
Blocking(s) ==
  IF session[s].baseline THEN {"PENDING_COUNT", "NOT_COUNTED"}
                         ELSE {"PENDING_COUNT"}

HasLines(s, resolutions) ==
  \/ \E b \in Bucket : line[s][b].resolution \in resolutions
  \/ \E a \in Asset : item[s][a].resolution \in resolutions

CompleteUnlessBlind(s) ==   \* mutant: serialized lines do not block
  /\ session[s].status = "STARTED"
  /\ \A b \in Bucket : line[s][b].resolution \notin Blocking(s)
  /\ session' = [session EXCEPT
       ![s].status = "COMPLETED",
       ![s].reconciliation =
         IF session[s].baseline \/ HasLines(s, {"PENDING_APPROVAL"})
         THEN "PENDING" ELSE "COMPLETED"]
  /\ UNCHANGED <<line, item, form, effect, parent, active, stock, place>>

Complete(s) ==
  /\ session[s].status = "STARTED"
  /\ ~HasLines(s, Blocking(s))
  /\ session' = [session EXCEPT
       ![s].status = "COMPLETED",
       ![s].reconciliation =
         IF session[s].baseline \/ HasLines(s, {"PENDING_APPROVAL"})
         THEN "PENDING" ELSE "COMPLETED"]
  /\ UNCHANGED <<line, item, form, effect, parent, active, stock, place>>

-----------------------------------------------------------------------------
(***************************************************************************)
(* Counting.  A page shows a line with its counted_at; the request that    *)
(* comes back names that token, and is a conflict if the line has another  *)
(* by then.  A page may come back more than once.                          *)
(***************************************************************************)
OpenLine(u, s, b) ==
  /\ line[s][b] # NoLine
  /\ form' = [form EXCEPT
       ![u] = FormShape(s, b, line[s][b].counted, line[s][b].at)]
  /\ UNCHANGED <<session, line, item, effect, parent, active, stock, place>>

OpenItem(u, s, a) ==
  /\ item[s][a] # NoItem
  /\ form' = [form EXCEPT
       ![u] = FormShape(s, a, item[s][a].observed, item[s][a].at)]
  /\ UNCHANGED <<session, line, item, effect, parent, active, stock, place>>

\* counted_at of an entry made when the clock shows `now', which may stand
\* still or go back.
NextCountedAtByClock(previous, now) == now   \* mutant: the clock alone

NextCountedAt(previous, now) ==
  IF previous # Nothing /\ now <= previous THEN previous + 1 ELSE now

Discrepancy(expected, counted) ==
  IF counted = expected THEN "NO_DISCREPANCY" ELSE "PENDING_APPROVAL"

\* Does the form of u show line x of a session that takes entries?
ShowsAnyState(u, s, x, shown) ==   \* mutant: neither the session's state nor
  /\ form[u].session = s           \*   the line's is looked at
  /\ form[u].of = x

Shows(u, s, x, shown) ==
  /\ session[s].status = "STARTED"
  /\ form[u].session = s
  /\ form[u].of = x
  /\ shown.resolution # "APPROVED"

MayEnter(u, s, x, shown) ==
  /\ Shows(u, s, x, shown)
  /\ form[u].at = shown.at

RecordQuantity(u, s, b, counted, now) ==
  LET old == line[s][b]
      at  == NextCountedAt(old.at, now)
  IN  /\ MayEnter(u, s, b, old)
      /\ at \in Time
      /\ line' = [line EXCEPT ![s][b] =
           LineShape(old.expected, counted, u, at, Discrepancy(old.expected, counted))]
      /\ UNCHANGED <<session, item, form, effect, parent, active, stock, place>>

\* The page of a line nobody has counted shows no token, and the request that
\* marks a line as not counted takes the line's own for a token that is empty.
MarkNotCounted(u, s, b, now) ==
  LET old == line[s][b]
      at  == NextCountedAt(old.at, now)
  IN  /\ Shows(u, s, b, old)
      /\ form[u].at \in {Nothing, old.at}
      /\ old.expected # 0
      /\ at \in Time
      /\ line' = [line EXCEPT ![s][b] =
           LineShape(old.expected, Nothing, u, at, "NOT_COUNTED")]
      /\ UNCHANGED <<session, item, form, effect, parent, active, stock, place>>

\* Stock that was found where the snapshot had none.
AddUnexpected(u, s, b, counted, now) ==
  /\ session[s].status = "STARTED"
  /\ LocationOf(b) \in Subtree(session[s].scope) \intersect active
  /\ line[s][b] = NoLine
  /\ line' = [line EXCEPT ![s][b] =
       LineShape(0, counted, u, now, Discrepancy(0, counted))]
  /\ UNCHANGED <<session, item, form, effect, parent, active, stock, place>>

\* A serialized asset that is registered was seen at p: an entry of its line,
\* or a new line if the snapshot had none.
RecordAsset(u, s, a, p, now) ==
  LET old == item[s][a]
      at  == NextCountedAt(old.at, now)
  IN  /\ session[s].status = "STARTED"
      /\ p[1] \in Subtree(session[s].scope) \intersect active
      /\ place[a] # Unknown
      /\ \/ /\ old = NoItem
            /\ item' = [item EXCEPT ![s][a] =
                 ItemShape(TRUE, Nothing, p, u, now, "PENDING_APPROVAL")]
         \/ /\ old.known
            /\ MayEnter(u, s, a, old)
            /\ at \in Time
            /\ item' = [item EXCEPT ![s][a] =
                 ItemShape(TRUE, old.expected, p, u, at, Discrepancy(old.expected, p))]
      /\ UNCHANGED <<session, line, form, effect, parent, active, stock, place>>

\* An expected asset was not found, or not looked for.
MarkAsset(u, s, a, observed, resolution, now) ==
  LET old == item[s][a]
      at  == NextCountedAt(old.at, now)
  IN  /\ MayEnter(u, s, a, old)
      /\ old.expected # Nothing
      /\ at \in Time
      /\ item' = [item EXCEPT ![s][a] =
           ItemShape(TRUE, old.expected, observed, u, at, resolution)]
      /\ UNCHANGED <<session, line, form, effect, parent, active, stock, place>>

MarkAssetMissing(u, s, a, now) ==
  MarkAsset(u, s, a, Missing, "PENDING_APPROVAL", now)

MarkAssetNotCounted(u, s, a, now) ==
  MarkAsset(u, s, a, Nothing, "NOT_COUNTED", now)

\* An asset nobody registered was seen at p.
AddCandidate(u, s, a, p, now) ==
  /\ session[s].status = "STARTED"
  /\ p[1] \in Subtree(session[s].scope) \intersect active
  /\ place[a] = Unknown
  /\ item[s][a] = NoItem
  /\ item' = [item EXCEPT ![s][a] =
       ItemShape(FALSE, Nothing, p, u, now, "PENDING_APPROVAL")]
  /\ UNCHANGED <<session, line, form, effect, parent, active, stock, place>>

-----------------------------------------------------------------------------
(***************************************************************************)
(* Deciding on a discrepancy of quantity.                                  *)
(***************************************************************************)
EligibleCandidate(s, b) ==   \* mutant: baseline candidates are decided too
  /\ session[s].status = "COMPLETED"
  /\ session[s].reconciliation = "PENDING"
  /\ line[s][b].resolution = "PENDING_APPROVAL"

Eligible(s, b) ==
  /\ session[s].status = "COMPLETED"
  /\ ~session[s].baseline
  /\ session[s].reconciliation = "PENDING"
  /\ line[s][b].resolution = "PENDING_APPROVAL"

\* Is any discrepancy of s pending once that of b is approved?
PendingQuantityBut(s, b) ==   \* mutant: serialized lines are forgotten
  \E c \in Bucket \ {b} : line[s][c].resolution = "PENDING_APPROVAL"

PendingBut(s, b) ==
  \/ \E c \in Bucket \ {b} : line[s][c].resolution = "PENDING_APPROVAL"
  \/ \E a \in Asset : item[s][a].resolution = "PENDING_APPROVAL"

\* reconcile_quantity_count: the operation is new, the stock is what the
\* snapshot said, and only an active location may gain.
MayPost(basis, b, o) ==
  /\ effect[o] = NoEffect
  /\ stock[b] = basis.expected
  /\ basis.counted > basis.expected => LocationOf(b) \in active

ApproveDrifted(u, s, b, o) ==   \* mutant: the difference is added, unchecked
  LET basis == line[s][b] IN
  /\ u \in Manager
  /\ Eligible(s, b)
  /\ basis.by # u
  /\ effect[o] = NoEffect
  /\ effect' = [effect EXCEPT
       ![o] = EffectShape(s, b, basis.counted - basis.expected, u)]
  /\ stock' = [stock EXCEPT ![b] = @ + basis.counted - basis.expected]
  /\ line' = [line EXCEPT ![s][b].resolution = "APPROVED"]
  /\ session' = [session EXCEPT ![s].reconciliation =
       IF PendingBut(s, b) THEN @ ELSE "COMPLETED"]
  /\ UNCHANGED <<item, form, parent, active, place>>

Approve(u, s, b, o) ==
  LET basis == line[s][b] IN
  /\ u \in Manager
  /\ Eligible(s, b)
  /\ basis.by # u
  /\ MayPost(basis, b, o)
  /\ effect' = [effect EXCEPT
       ![o] = EffectShape(s, b, basis.counted - basis.expected, u)]
  /\ stock' = [stock EXCEPT ![b] = basis.counted]
  /\ line' = [line EXCEPT ![s][b].resolution = "APPROVED"]
  /\ session' = [session EXCEPT ![s].reconciliation =
       IF PendingBut(s, b) THEN @ ELSE "COMPLETED"]
  /\ UNCHANGED <<item, form, parent, active, place>>

Reject(u, s, b) ==
  /\ u \in Manager
  /\ Eligible(s, b)
  /\ session' = [session EXCEPT ![s].status = "STARTED",
                                ![s].reconciliation = "NOT_STARTED"]
  /\ UNCHANGED <<line, item, form, effect, parent, active, stock, place>>

-----------------------------------------------------------------------------
(***************************************************************************)
(* Meanwhile: stock and assets move, the location tree changes.            *)
(***************************************************************************)
MoveStock(b, q) ==
  /\ q > stock[b] => LocationOf(b) \in active
  /\ stock' = [stock EXCEPT ![b] = q]
  /\ UNCHANGED <<session, line, item, form, effect, parent, active, place>>

MoveAsset(a, p) ==
  /\ p # Out => p[1] \in active
  /\ place' = [place EXCEPT ![a] = p]
  /\ UNCHANGED <<session, line, item, form, effect, parent, active, stock>>

MoveLocation(l, p) ==
  /\ p # Nothing => ~IsAncestor(l, p)
  /\ parent' = [parent EXCEPT ![l] = p]
  /\ UNCHANGED <<session, line, item, form, effect, active, stock, place>>

SetLocationActive(l) ==
  /\ \/ /\ l \notin active
        /\ active' = active \union {l}
     \/ /\ \A b \in Bucket : LocationOf(b) = l => stock[b] = 0
        /\ \A a \in Asset : place[a] \in Place => place[a][1] # l
        /\ active' = active \ {l}
  /\ UNCHANGED <<session, line, item, form, effect, parent, stock, place>>

Enter(u) ==
  \E s \in Session, now \in Time :
    \/ \E b \in Bucket :
         \/ OpenLine(u, s, b)
         \/ MarkNotCounted(u, s, b, now)
         \/ \E q \in Count : RecordQuantity(u, s, b, q, now)
                             \/ AddUnexpected(u, s, b, q, now)
    \/ \E a \in Asset :
         \/ OpenItem(u, s, a)
         \/ MarkAssetMissing(u, s, a, now)
         \/ MarkAssetNotCounted(u, s, a, now)
         \/ \E p \in Place : RecordAsset(u, s, a, p, now)
                             \/ AddCandidate(u, s, a, p, now)

Decide(u) ==
  \E s \in Session, b \in Bucket :
    \/ Reject(u, s, b)
    \/ \E o \in OperationId : Approve(u, s, b, o)

Meanwhile ==
  \/ \E b \in Bucket, q \in Count : MoveStock(b, q)
  \/ \E a \in Asset, p \in Place \union {Out} : MoveAsset(a, p)
  \/ \E l \in Location : SetLocationActive(l)
  \/ \E l \in Location, p \in Location \union {Nothing} : MoveLocation(l, p)

Next ==
  \/ \E s \in Session :
       \/ \E scope \in Location, baseline \in BOOLEAN : Create(s, scope, baseline)
       \/ Start(s)
       \/ Complete(s)
  \/ \E u \in User : Enter(u) \/ Decide(u)
  \/ Meanwhile

Spec == Init /\ [][Next]_vars

-----------------------------------------------------------------------------
(***************************************************************************)
(* Properties                                                              *)
(***************************************************************************)

\* The count and the ledger agree, through recounts, rejections and reopened
\* sessions: a line is approved exactly if one COUNT_RECONCILIATION of its
\* difference was posted for it, by somebody other than its counter
\* (counting_result_link_guard and counting_result_required_guard).
EffectsMatchApprovals ==
  \A s \in Session, b \in Bucket :
    LET own == {o \in OperationId : effect[o].session = s /\ effect[o].bucket = b}
    IN  IF line[s][b].resolution = "APPROVED"
        THEN \E o \in own :
               /\ own = {o}
               /\ effect[o].delta = line[s][b].counted - line[s][b].expected
               /\ effect[o].by # line[s][b].by
        ELSE own = {}

\* What is completed stays counted: no line of a completed session is still to
\* be counted, and none of a baseline candidate was skipped, whatever entries
\* arrive late (complete_physical_count).
CountedBeforeCompleted ==
  \A s \in Session :
    session[s].status = "COMPLETED" => ~HasLines(s, Blocking(s))

\* The reconciliation of a session is pending exactly while a discrepancy is,
\* quantity or serialized (or for good, in a baseline candidate), and has not
\* started while the session is open.
ReconciliationSettled ==
  \A s \in Session :
    session[s].reconciliation =
      IF session[s].status # "COMPLETED" THEN "NOT_STARTED"
      ELSE IF session[s].baseline \/ HasLines(s, {"PENDING_APPROVAL"})
           THEN "PENDING" ELSE "COMPLETED"

\* No count is lost to another: a count replaces only what its user had on
\* the screen, even though two users count one line and the clock may stand
\* still or go back (counted_at as a compare-and-set token).
NoLostCount ==
  [][ \A s \in Session :
        /\ \A b \in Bucket :
             \/ line[s][b] = NoLine
             \/ line'[s][b] = line[s][b]
             \/ line'[s][b].resolution \in {"APPROVED", "NOT_COUNTED"}
             \/ form[line'[s][b].by] =
                  FormShape(s, b, line[s][b].counted, line[s][b].at)
        /\ \A a \in Asset :
             \/ item[s][a] = NoItem
             \/ item'[s][a] = item[s][a]
             \/ form[item'[s][a].by] =
                  FormShape(s, a, item[s][a].observed, item[s][a].at) ]_vars

\* Nor is it lost to a mark: who marks a line as not counted has seen the count
\* of another that the mark erases
\* (test_count_entry_and_explicit_not_counted_cannot_silently_overwrite).
NoErasedCount ==
  [][ \A s \in Session, b \in Bucket :
        ( /\ line[s][b].counted # Nothing
          /\ line'[s][b].resolution = "NOT_COUNTED"
          /\ line'[s][b].by # line[s][b].by )
        => form[line'[s][b].by] =
             FormShape(s, b, line[s][b].counted, line[s][b].at) ]_vars

\* Open sessions have disjoint subtrees (CNT-011).
OpenScopesDisjoint ==
  \A s \in Session : Open(s) => ~OverlapsOpenSession(s, session[s].scope)
=============================================================================
