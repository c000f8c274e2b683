------------------------ MODULE BaselineCutoverProofs ------------------------
(***************************************************************************)
(* What holds of PhysicalCount and BaselineCutover for every set of users, *)
(* sessions, baselines, locations, materials and assets, and every bound.  *)
(*                                                                         *)
(* The argument: a line is entered while its session is started and        *)
(* decided on while it is completed, each under the row of the session, so *)
(* the state of the session says what its lines can be; a page never shows *)
(* a later token than its line has, and a line's token only grows; and the *)
(* sessions of a baseline stay as they were when it was prepared.          *)
(***************************************************************************)
EXTENDS BaselineCutover, InductionLemmas, TLAPS

SessionRecord ==
  [status : {"NONE", "DRAFT", "STARTED", "COMPLETED"},
   reconciliation : {"NOT_STARTED", "PENDING", "COMPLETED"},
   scope : Location \union {Nothing}, baseline : BOOLEAN]

LineRecord ==
  [expected : Count, counted : Count \union {Nothing},
   by : User \union {Nothing}, at : Time \union {Nothing},
   resolution : Resolution \union {"NONE"}]

ItemRecord ==
  [known : BOOLEAN, expected : Place \union {Nothing},
   observed : Place \union {Missing, Nothing},
   by : User \union {Nothing}, at : Time \union {Nothing},
   resolution : (Resolution \ {"APPROVED"}) \union {"NONE"}]

FormRecord ==
  [session : Session \union {Nothing}, of : Bucket \union Asset \union {Nothing},
   count : Count \union Place \union {Missing, Nothing},
   at : Time \union {Nothing}]

\* Before a session is started it has no lines.
NothingBeforeStart ==
  \A s \in Session : session[s].status \in {"NONE", "DRAFT"} =>
    /\ \A b \in Bucket : line[s][b] = NoLine
    /\ \A a \in Asset : item[s][a] = NoItem

\* What awaits a decision was counted.
PendingIsCounted ==
  \A s \in Session, b \in Bucket :
    line[s][b].resolution = "PENDING_APPROVAL" => line[s][b].counted \in Count

\* A page shows a count that the line has, or one it had before.
Earlier(f, count, at) ==
  /\ f.at # Nothing => at # Nothing /\ f.at <= at
  /\ f.at = at => f.count = count

PagesAreEarlier ==
  /\ form \in [User -> FormRecord]
  /\ \A u \in User, s \in Session, b \in Bucket :
       form[u].session = s /\ form[u].of = b =>
         /\ line[s][b] # NoLine
         /\ Earlier(form[u], line[s][b].counted, line[s][b].at)
  /\ \A u \in User, s \in Session, a \in Asset :
       form[u].session = s /\ form[u].of = a =>
         /\ item[s][a] # NoItem
         /\ Earlier(form[u], item[s][a].observed, item[s][a].at)

CountInv ==
  /\ TypeOK
  /\ NothingBeforeStart
  /\ PendingIsCounted
  /\ PagesAreEarlier
  /\ EffectsMatchApprovals
  /\ CountedBeforeCompleted
  /\ ReconciliationSettled

-----------------------------------------------------------------------------
(***************************************************************************)
(* The steps of a count                                                    *)
(***************************************************************************)
Entered == {"NO_DISCREPANCY", "PENDING_APPROVAL", "NOT_COUNTED"}

Later(at, previous) ==
  at \in Time /\ (previous # Nothing => previous < at)

SawToken(u, s, x, at) ==
  form[u].session = s /\ form[u].of = x /\ form[u].at = at

\* An entry n of a line, and of a serialized line.
LineEntry(s, b, n) ==
  /\ session[s].status = "STARTED"
  /\ line[s][b].resolution # "APPROVED"
  /\ n \in LineRecord
  /\ n.by \in User
  /\ n.resolution \in Entered
  /\ n.resolution = "NOT_COUNTED" \/ n.counted \in Count
  /\ Later(n.at, line[s][b].at)
  /\ \/ line[s][b] = NoLine
     \/ n.resolution = "NOT_COUNTED"
     \/ SawToken(n.by, s, b, line[s][b].at)
  /\ line' = [line EXCEPT ![s][b] = n]
  /\ UNCHANGED <<session, item, form, effect, parent, active, stock, place>>

ItemEntry(s, a, n) ==
  /\ session[s].status = "STARTED"
  /\ n \in ItemRecord
  /\ n.by \in User
  /\ n.resolution \in Entered
  /\ n.resolution = "NO_DISCREPANCY" => n.observed = n.expected
  /\ Later(n.at, item[s][a].at)
  /\ item[s][a] = NoItem \/ SawToken(n.by, s, a, item[s][a].at)
  /\ item' = [item EXCEPT ![s][a] = n]
  /\ UNCHANGED <<session, line, form, effect, parent, active, stock, place>>

\* Whatever happens to the stock, the assets and the locations.
Elsewhere ==
  /\ UNCHANGED <<session, line, item, form, effect>>
  /\ stock' \in [Bucket -> Count]
  /\ place' \in [Asset -> Place \union {Out, Unknown}]
  /\ parent' \in [Location -> Location \union {Nothing}]
  /\ active' \subseteq Location

EffectRecord ==
  [session : Session \union {Nothing}, bucket : Bucket \union {Nothing},
   delta : -MaxQuantity .. MaxQuantity, by : User \union {Nothing}]

\* The types, by their names, of a state and of the next.
LEMMA Types ==
  TypeOK <=>
    /\ session \in [Session -> SessionRecord]
    /\ line \in [Session -> [Bucket -> LineRecord]]
    /\ item \in [Session -> [Asset -> ItemRecord]]
    /\ effect \in [OperationId -> EffectRecord]
    /\ parent \in [Location -> Location \union {Nothing}]
    /\ active \subseteq Location
    /\ stock \in [Bucket -> Count]
    /\ place \in [Asset -> Place \union {Out, Unknown}]
  BY DEF TypeOK, SessionRecord, LineRecord, ItemRecord, EffectRecord

LEMMA NextTypes ==
  ASSUME session' \in [Session -> SessionRecord],
         line' \in [Session -> [Bucket -> LineRecord]],
         item' \in [Session -> [Asset -> ItemRecord]],
         effect' \in [OperationId -> EffectRecord],
         parent' \in [Location -> Location \union {Nothing}],
         active' \subseteq Location,
         stock' \in [Bucket -> Count],
         place' \in [Asset -> Place \union {Out, Unknown}]
  PROVE  TypeOK'
  BY DEF TypeOK, SessionRecord, LineRecord, ItemRecord, EffectRecord

LEMMA NextIsLater ==
  ASSUME NEW previous \in Time \union {Nothing}, NEW now \in Time,
         NextCountedAt(previous, now) \in Time
  PROVE  Later(NextCountedAt(previous, now), previous)
  <1>1. MaxTime \in Nat
    BY CountConstants DEF CountConstants
  <1> QED
    BY <1>1 DEF Later, NextCountedAt, Time

LEMMA LineEntries ==
  ASSUME TypeOK, NEW u \in User, NEW s \in Session, NEW b \in Bucket,
         NEW now \in Time,
         \/ MarkNotCounted(u, s, b, now)
         \/ \E q \in Count : RecordQuantity(u, s, b, q, now)
                             \/ AddUnexpected(u, s, b, q, now)
  PROVE  \E n : LineEntry(s, b, n) /\ n.by = u
  <1>1. line[s][b] \in LineRecord
    BY Types
  <1> DEFINE old == line[s][b]
             at == NextCountedAt(old.at, now)
  <1>2. at \in Time => Later(at, old.at)
    BY <1>1, NextIsLater DEF LineRecord
  <1>3. CASE MarkNotCounted(u, s, b, now)
    <2> DEFINE n == LineShape(old.expected, Nothing, u, at, "NOT_COUNTED")
    <2>1. at \in Time
      BY <1>3 DEF MarkNotCounted
    <2>2. n \in LineRecord /\ n.resolution = "NOT_COUNTED" /\ n.at = at /\ n.by = u
      BY <1>1, <2>1 DEF LineShape, LineRecord, Resolution
    <2>3. line' = [line EXCEPT ![s][b] = n]
      BY <1>3 DEF MarkNotCounted
    <2> HIDE DEF n, at
    <2>4. LineEntry(s, b, n)
      BY <1>2, <1>3, <2>1, <2>2, <2>3 DEF MarkNotCounted, Shows, LineEntry, Entered
    <2> QED
      BY <2>2, <2>4
  <1>4. ASSUME NEW q \in Count, RecordQuantity(u, s, b, q, now)
        PROVE  \E n : LineEntry(s, b, n) /\ n.by = u
    <2> DEFINE n == LineShape(old.expected, q, u, at, Discrepancy(old.expected, q))
    <2>1. at \in Time
      BY <1>4 DEF RecordQuantity
    <2>2. /\ n \in LineRecord /\ n.at = at /\ n.by = u /\ n.counted = q
          /\ n.resolution \in {"NO_DISCREPANCY", "PENDING_APPROVAL"}
      BY <1>1, <2>1 DEF LineShape, LineRecord, Resolution, Discrepancy
    <2>3. line' = [line EXCEPT ![s][b] = n]
      BY <1>4 DEF RecordQuantity
    <2> HIDE DEF n, at
    <2>4. LineEntry(s, b, n)
      BY <1>2, <1>4, <2>1, <2>2, <2>3
      DEF RecordQuantity, MayEnter, Shows, LineEntry, Entered, SawToken
    <2> QED
      BY <2>2, <2>4
  <1>5. ASSUME NEW q \in Count, AddUnexpected(u, s, b, q, now)
        PROVE  \E n : LineEntry(s, b, n) /\ n.by = u
    <2> DEFINE n == LineShape(0, q, u, now, Discrepancy(0, q))
    <2>1. 0 \in Count
      BY CountConstants DEF CountConstants, Count
    <2>2. /\ n \in LineRecord /\ n.at = now /\ n.by = u /\ n.counted = q
          /\ n.resolution \in {"NO_DISCREPANCY", "PENDING_APPROVAL"}
      BY <2>1 DEF LineShape, LineRecord, Resolution, Discrepancy
    <2>3. line' = [line EXCEPT ![s][b] = n]
      BY <1>5 DEF AddUnexpected
    <2>4. old.at = Nothing /\ old.resolution # "APPROVED"
      BY <1>5 DEF AddUnexpected, NoLine, LineShape
    <2> HIDE DEF n
    <2>5. LineEntry(s, b, n)
      BY <1>5, <2>2, <2>3, <2>4 DEF AddUnexpected, LineEntry, Entered, Later
    <2> QED
      BY <2>2, <2>5
  <1> QED
    BY <1>3, <1>4, <1>5

LEMMA ItemEntries ==
  ASSUME TypeOK, NEW u \in User, NEW s \in Session, NEW a \in Asset,
         NEW now \in Time,
         \/ MarkAssetMissing(u, s, a, now)
         \/ MarkAssetNotCounted(u, s, a, now)
         \/ \E p \in Place : RecordAsset(u, s, a, p, now)
                             \/ AddCandidate(u, s, a, p, now)
  PROVE  \E n : ItemEntry(s, a, n) /\ n.by = u
  <1>1. item[s][a] \in ItemRecord
    BY Types
  <1> DEFINE old == item[s][a]
             at == NextCountedAt(old.at, now)
  <1>2. at \in Time => Later(at, old.at)
    BY <1>1, NextIsLater DEF ItemRecord
  <1>3. ASSUME NEW observed \in Place \union {Missing, Nothing},
               NEW resolution \in Entered \ {"NO_DISCREPANCY"},
               MarkAsset(u, s, a, observed, resolution, now)
        PROVE  \E n : ItemEntry(s, a, n) /\ n.by = u
    <2> DEFINE n == ItemShape(TRUE, old.expected, observed, u, at, resolution)
    <2>1. at \in Time
      BY <1>3 DEF MarkAsset
    <2>2. /\ n \in ItemRecord /\ n.at = at /\ n.by = u /\ n.resolution \in Entered
          /\ n.resolution # "NO_DISCREPANCY"
      BY <1>1, <2>1 DEF ItemShape, ItemRecord, Resolution, Entered
    <2>3. item' = [item EXCEPT ![s][a] = n]
      BY <1>3 DEF MarkAsset
    <2> HIDE DEF n, at
    <2>4. ItemEntry(s, a, n)
      BY <1>2, <1>3, <2>1, <2>2, <2>3
      DEF MarkAsset, MayEnter, Shows, ItemEntry, SawToken
    <2> QED
      BY <2>2, <2>4
  <1>4. ASSUME NEW p \in Place, RecordAsset(u, s, a, p, now)
        PROVE  \E n : ItemEntry(s, a, n) /\ n.by = u
    <2>1. CASE /\ old = NoItem
               /\ item' = [item EXCEPT ![s][a] =
                     ItemShape(TRUE, Nothing, p, u, now, "PENDING_APPROVAL")]
      <3> DEFINE n == ItemShape(TRUE, Nothing, p, u, now, "PENDING_APPROVAL")
      <3>1. /\ n \in ItemRecord /\ n.at = now /\ n.by = u /\ n.resolution \in Entered
            /\ old.at = Nothing /\ n.resolution # "NO_DISCREPANCY"
        BY <2>1 DEF ItemShape, ItemRecord, Resolution, Entered, NoItem
      <3>2. item' = [item EXCEPT ![s][a] = n]
        BY <2>1
      <3> HIDE DEF n
      <3>3. ItemEntry(s, a, n)
        BY <1>4, <2>1, <3>1, <3>2 DEF RecordAsset, ItemEntry, Later
      <3> QED
        BY <3>1, <3>3
    <2>2. CASE /\ MayEnter(u, s, a, old)
               /\ at \in Time
               /\ item' = [item EXCEPT ![s][a] =
                     ItemShape(TRUE, old.expected, p, u, at,
                               Discrepancy(old.expected, p))]
      <3> DEFINE n == ItemShape(TRUE, old.expected, p, u, at,
                                Discrepancy(old.expected, p))
      <3>1. /\ n \in ItemRecord /\ n.at = at /\ n.by = u /\ n.resolution \in Entered
            /\ n.resolution = "NO_DISCREPANCY" => n.observed = n.expected
        BY <1>1, <2>2 DEF ItemShape, ItemRecord, Resolution, Entered, Discrepancy
      <3>2. item' = [item EXCEPT ![s][a] = n]
        BY <2>2
      <3> HIDE DEF n, at
      <3>3. ItemEntry(s, a, n)
        BY <1>2, <1>4, <2>2, <3>1, <3>2
        DEF RecordAsset, ItemEntry, MayEnter, Shows, SawToken
      <3> QED
        BY <3>1, <3>3
    <2> QED
      BY <1>4, <2>1, <2>2 DEF RecordAsset
  <1>5. ASSUME NEW p \in Place, AddCandidate(u, s, a, p, now)
        PROVE  \E n : ItemEntry(s, a, n) /\ n.by = u
    <2> DEFINE n == ItemShape(FALSE, Nothing, p, u, now, "PENDING_APPROVAL")
    <2>1. /\ n \in ItemRecord /\ n.at = now /\ n.by = u /\ n.resolution \in Entered
          /\ old.at = Nothing /\ n.resolution # "NO_DISCREPANCY"
      BY <1>5 DEF AddCandidate, ItemShape, ItemRecord, Resolution, Entered, NoItem
    <2>2. item' = [item EXCEPT ![s][a] = n]
      BY <1>5 DEF AddCandidate
    <2> HIDE DEF n
    <2>3. ItemEntry(s, a, n)
      BY <1>5, <2>1, <2>2 DEF AddCandidate, ItemEntry, Later
    <2> QED
      BY <2>1, <2>3
  <1>6. {"PENDING_APPROVAL", "NOT_COUNTED"} \subseteq Entered \ {"NO_DISCREPANCY"}
    BY DEF Entered
  <1> QED
    BY <1>3, <1>4, <1>5, <1>6 DEF MarkAssetMissing, MarkAssetNotCounted

LEMMA MeanwhileElsewhere ==
  ASSUME TypeOK, Meanwhile
  PROVE  Elsewhere
  <1>1. ASSUME NEW b \in Bucket, NEW q \in Count, MoveStock(b, q) PROVE Elsewhere
    BY <1>1, Types DEF MoveStock, Elsewhere
  <1>2. ASSUME NEW a \in Asset, NEW p \in Place \union {Out}, MoveAsset(a, p)
        PROVE  Elsewhere
    BY <1>2, Types DEF MoveAsset, Elsewhere
  <1>3. ASSUME NEW l \in Location, SetLocationActive(l) PROVE Elsewhere
    BY <1>3, Types DEF SetLocationActive, Elsewhere
  <1>4. ASSUME NEW l \in Location, NEW p \in Location \union {Nothing},
               MoveLocation(l, p)
        PROVE  Elsewhere
    BY <1>4, Types DEF MoveLocation, Elsewhere
  <1> QED
    BY <1>1, <1>2, <1>3, <1>4 DEF Meanwhile

\* A step of a count is one of these.
LEMMA Steps ==
  ASSUME TypeOK, Next
  PROVE  \/ \E s \in Session, scope \in Location, baseline_ \in BOOLEAN :
              Create(s, scope, baseline_)
         \/ \E s \in Session : Start(s) \/ Complete(s)
         \/ \E u \in User, s \in Session, b \in Bucket :
              \/ OpenLine(u, s, b)
              \/ Reject(u, s, b)
              \/ \E o \in OperationId : Approve(u, s, b, o)
              \/ \E n : LineEntry(s, b, n)
         \/ \E u \in User, s \in Session, a \in Asset :
              \/ OpenItem(u, s, a)
              \/ \E n : ItemEntry(s, a, n)
         \/ Elsewhere
  <1>1. CASE Meanwhile
    BY <1>1, MeanwhileElsewhere
  <1>2. ASSUME NEW u \in User, NEW s \in Session, NEW now \in Time, NEW b \in Bucket,
               \/ OpenLine(u, s, b)
               \/ MarkNotCounted(u, s, b, now)
               \/ \E q \in Count : RecordQuantity(u, s, b, q, now)
                                   \/ AddUnexpected(u, s, b, q, now)
        PROVE  OpenLine(u, s, b) \/ \E n : LineEntry(s, b, n)
    BY <1>2, LineEntries
  <1>3. ASSUME NEW u \in User, NEW s \in Session, NEW now \in Time, NEW a \in Asset,
               \/ OpenItem(u, s, a)
               \/ MarkAssetMissing(u, s, a, now)
               \/ MarkAssetNotCounted(u, s, a, now)
               \/ \E p \in Place : RecordAsset(u, s, a, p, now)
                                   \/ AddCandidate(u, s, a, p, now)
        PROVE  OpenItem(u, s, a) \/ \E n : ItemEntry(s, a, n)
    BY <1>3, ItemEntries
  <1>4. ASSUME NEW u \in User, Enter(u)
        PROVE  \/ \E s \in Session, b \in Bucket :
                    OpenLine(u, s, b) \/ \E n : LineEntry(s, b, n)
               \/ \E s \in Session, a \in Asset :
                    OpenItem(u, s, a) \/ \E n : ItemEntry(s, a, n)
    BY <1>2, <1>3, <1>4 DEF Enter
  <1>5. ASSUME NEW u \in User, Decide(u)
        PROVE  \E s \in Session, b \in Bucket :
                 Reject(u, s, b) \/ \E o \in OperationId : Approve(u, s, b, o)
    BY <1>5 DEF Decide
  <1> QED
    BY <1>1, <1>4, <1>5 DEF Next

-----------------------------------------------------------------------------
(***************************************************************************)
(* Each of them keeps the invariant                                        *)
(***************************************************************************)
LEMMA InitCounts == Init => CountInv
  <1> SUFFICES ASSUME Init PROVE CountInv
    OBVIOUS
  <1>1. 0 \in Count /\ 0 \in -MaxQuantity .. MaxQuantity
    BY CountConstants DEF CountConstants, Count
  <1>2. TypeOK
    BY <1>1 DEF TypeOK, Init, NoSession, SessionShape, NoLine, LineShape, NoItem,
                ItemShape, NoEffect, EffectShape
  <1>3. NothingBeforeStart /\ PendingIsCounted
    BY DEF Init, NothingBeforeStart, PendingIsCounted, NoLine, LineShape
  <1>4. PagesAreEarlier
    BY CountConstants
    DEF Init, PagesAreEarlier, CountConstants, FormRecord, NoForm, FormShape
  <1>5. EffectsMatchApprovals
    BY CountConstants
    DEF Init, EffectsMatchApprovals, CountConstants, NoLine, LineShape, NoEffect,
        EffectShape
  <1>6. CountedBeforeCompleted /\ ReconciliationSettled
    BY DEF Init, CountedBeforeCompleted, ReconciliationSettled, NoSession, SessionShape
  <1> QED
    BY <1>2, <1>3, <1>4, <1>5, <1>6 DEF CountInv

LEMMA CreateCounts ==
  ASSUME CountInv, NEW s \in Session, NEW scope \in Location,
         NEW baseline_ \in BOOLEAN, Create(s, scope, baseline_)
  PROVE  CountInv'
  <1> DEFINE n == SessionShape("DRAFT", "NOT_STARTED", scope, baseline_)
  <1>1. /\ n.status = "DRAFT" /\ n.reconciliation = "NOT_STARTED"
        /\ n \in [status : {"NONE", "DRAFT", "STARTED", "COMPLETED"},
                  reconciliation : {"NOT_STARTED", "PENDING", "COMPLETED"},
                  scope : Location \union {Nothing},
                  baseline : BOOLEAN]
    BY DEF SessionShape
  <1>2. session' = [session EXCEPT ![s] = n] /\ session[s].status = "NONE"
    BY DEF Create
  <1>3. UNCHANGED <<line, item, form, effect, parent, active, stock, place>>
    BY DEF Create
  <1> HIDE DEF n
  <1>4. TypeOK'
    BY <1>1, <1>2, <1>3 DEF TypeOK, CountInv
  <1>5. \A t \in Session : session'[t] = IF t = s THEN n ELSE session[t]
    BY <1>2 DEF CountInv, TypeOK
  <1>6. NothingBeforeStart' /\ PendingIsCounted'
    BY <1>2, <1>3, <1>5 DEF CountInv, NothingBeforeStart, PendingIsCounted
  <1>7. PagesAreEarlier' /\ EffectsMatchApprovals'
    BY <1>3 DEF CountInv, PagesAreEarlier, Earlier, EffectsMatchApprovals
  <1>8. CountedBeforeCompleted' /\ ReconciliationSettled'
    BY <1>1, <1>3, <1>5
    DEF CountInv, CountedBeforeCompleted, ReconciliationSettled, HasLines, Blocking
  <1> QED
    BY <1>4, <1>6, <1>7, <1>8 DEF CountInv

LEMMA StartCounts ==
  ASSUME CountInv, NEW s \in Session, Start(s)
  PROVE  CountInv'
  <1>1. /\ session[s].status = "DRAFT"
        /\ session' = [session EXCEPT ![s].status = "STARTED"]
        /\ UNCHANGED <<form, effect, parent, active, stock, place>>
    BY DEF Start
  <1>2. \E lines \in [Bucket -> LineRecord] :
          /\ line' = [line EXCEPT ![s] = lines]
          /\ \A b \in Bucket : lines[b].resolution \in {"NONE", "PENDING_COUNT"}
    <2> DEFINE lines == [b \in Bucket |->
                 IF LocationOf(b) \in Subtree(session[s].scope) /\ stock[b] > 0
                 THEN LineShape(stock[b], Nothing, Nothing, Nothing, "PENDING_COUNT")
                 ELSE NoLine]
    <2>1. line' = [line EXCEPT ![s] = lines]
      BY DEF Start
    <2>2. 0 \in Count
      BY CountConstants DEF CountConstants, Count
    <2>3. \A b \in Bucket : stock[b] \in Count
      BY DEF CountInv, TypeOK
    <2>4. lines \in [Bucket -> LineRecord]
      BY <2>2, <2>3 DEF LineRecord, LineShape, NoLine, Resolution
    <2>5. \A b \in Bucket : lines[b].resolution \in {"NONE", "PENDING_COUNT"}
      BY DEF LineShape, NoLine
    <2> HIDE DEF lines
    <2> QED
      BY <2>1, <2>4, <2>5
  <1>3. \E items \in [Asset -> ItemRecord] : item' = [item EXCEPT ![s] = items]
    <2> DEFINE items == [a \in Asset |->
                 IF place[a] \in Place /\ place[a][1] \in Subtree(session[s].scope)
                 THEN ItemShape(TRUE, place[a], Nothing, Nothing, Nothing,
                                "PENDING_COUNT")
                 ELSE NoItem]
    <2>1. item' = [item EXCEPT ![s] = items]
      BY DEF Start
    <2>2. items \in [Asset -> ItemRecord]
      BY DEF ItemRecord, ItemShape, NoItem, Resolution
    <2> QED
      BY <2>1, <2>2
  <1>4. PICK lines \in [Bucket -> LineRecord] :
          /\ line' = [line EXCEPT ![s] = lines]
          /\ \A b \in Bucket : lines[b].resolution \in {"NONE", "PENDING_COUNT"}
    BY <1>2
  <1>5. PICK items \in [Asset -> ItemRecord] : item' = [item EXCEPT ![s] = items]
    BY <1>3
  <1>6. TypeOK'
    <2>1. line' \in [Session -> [Bucket -> LineRecord]]
      BY <1>4, Types DEF CountInv
    <2>2. item' \in [Session -> [Asset -> ItemRecord]]
      BY <1>5, Types DEF CountInv
    <2>3. session' \in [Session -> SessionRecord]
      BY <1>1, Types DEF CountInv, SessionRecord
    <2> QED
      BY <1>1, <2>1, <2>2, <2>3, Types, NextTypes DEF CountInv
  <1>7. /\ \A t \in Session \ {s} :
             session'[t] = session[t] /\ line'[t] = line[t] /\ item'[t] = item[t]
        /\ session'[s].status = "STARTED"
        /\ session'[s].reconciliation = session[s].reconciliation
        /\ line'[s] = lines
    BY <1>1, <1>4, <1>5 DEF CountInv, TypeOK
  <1>8. NothingBeforeStart' /\ PendingIsCounted'
    BY <1>4, <1>7 DEF CountInv, NothingBeforeStart, PendingIsCounted
  <1>9. PagesAreEarlier'
    BY <1>1, <1>7 DEF CountInv, PagesAreEarlier, Earlier, NothingBeforeStart
  <1>10. EffectsMatchApprovals'
    <2>1. \A b \in Bucket : /\ line[s][b].resolution # "APPROVED"
                            /\ line'[s][b].resolution # "APPROVED"
      BY <1>1, <1>4, <1>7 DEF CountInv, NothingBeforeStart, NoLine, LineShape
    <2> QED
      BY <1>1, <1>7, <2>1 DEF CountInv, EffectsMatchApprovals
  <1>11. CountedBeforeCompleted' /\ ReconciliationSettled'
    BY <1>1, <1>7
    DEF CountInv, CountedBeforeCompleted, ReconciliationSettled, HasLines, Blocking
  <1> QED
    BY <1>6, <1>8, <1>9, <1>10, <1>11 DEF CountInv

LEMMA CompleteCounts ==
  ASSUME CountInv, NEW s \in Session, Complete(s)
  PROVE  CountInv'
  <1> DEFINE r == IF session[s].baseline \/ HasLines(s, {"PENDING_APPROVAL"})
                  THEN "PENDING" ELSE "COMPLETED"
  <1>1. /\ session[s].status = "STARTED"
        /\ ~HasLines(s, Blocking(s))
        /\ session' = [session EXCEPT ![s].status = "COMPLETED",
                                      ![s].reconciliation = r]
        /\ UNCHANGED <<line, item, form, effect, parent, active, stock, place>>
    BY DEF Complete
  <1>a. r \in {"PENDING", "COMPLETED"}
    OBVIOUS
  <1> HIDE DEF r
  <1> DEFINE n == [session[s] EXCEPT !.status = "COMPLETED", !.reconciliation = r]
  <1>b. session[s] \in SessionRecord
    BY Types DEF CountInv
  <1>c. n \in SessionRecord
    BY <1>a, <1>b DEF SessionRecord
  <1>d. session' = [session EXCEPT ![s] = n]
    BY <1>1
  <1>e. n.status = "COMPLETED" /\ n.reconciliation = r /\ n.baseline = session[s].baseline
    BY <1>b DEF SessionRecord
  <1> HIDE DEF n
  <1>2. TypeOK'
    BY <1>1, <1>c, <1>d, Types, NextTypes DEF CountInv
  <1>3. /\ \A t \in Session \ {s} : session'[t] = session[t]
        /\ session'[s].status = "COMPLETED"
        /\ session'[s].reconciliation = r
        /\ session'[s].baseline = session[s].baseline
    BY <1>d, <1>e DEF CountInv, TypeOK
  <1>4. NothingBeforeStart' /\ PendingIsCounted'
    BY <1>1, <1>3 DEF CountInv, NothingBeforeStart, PendingIsCounted
  <1>5. PagesAreEarlier' /\ EffectsMatchApprovals'
    BY <1>1 DEF CountInv, PagesAreEarlier, Earlier, EffectsMatchApprovals
  <1>6. \A t \in Session : \A R : HasLines(t, R)' <=> HasLines(t, R)
    BY <1>1 DEF HasLines
  <1>7. \A t \in Session : Blocking(t)' = Blocking(t)
    BY <1>3 DEF Blocking
  <1>8. CountedBeforeCompleted'
    BY <1>1, <1>3, <1>6, <1>7 DEF CountInv, CountedBeforeCompleted
  <1>9. ReconciliationSettled'
    <2> DEFINE P(t) == HasLines(t, {"PENDING_APPROVAL"})
    <2>1. \A t \in Session : P(t)' <=> P(t)
      BY <1>6
    <2>2. \A t \in Session : session[t].reconciliation =
            IF session[t].status # "COMPLETED" THEN "NOT_STARTED"
            ELSE IF session[t].baseline \/ P(t) THEN "PENDING" ELSE "COMPLETED"
      BY DEF CountInv, ReconciliationSettled
    <2>3. r = IF session[s].baseline \/ P(s) THEN "PENDING" ELSE "COMPLETED"
      BY DEF r
    <2> HIDE DEF P
    <2>4. \A t \in Session : session'[t].reconciliation =
            IF session'[t].status # "COMPLETED" THEN "NOT_STARTED"
            ELSE IF session'[t].baseline \/ P(t)' THEN "PENDING" ELSE "COMPLETED"
      BY <1>3, <2>1, <2>2, <2>3
    <2> QED
      BY <2>4 DEF ReconciliationSettled, P
  <1> QED
    BY <1>2, <1>4, <1>5, <1>8, <1>9 DEF CountInv

LEMMA OpenLineCounts ==
  ASSUME CountInv, NEW u \in User, NEW s \in Session, NEW b \in Bucket,
         OpenLine(u, s, b)
  PROVE  CountInv'
  <1> DEFINE f == FormShape(s, b, line[s][b].counted, line[s][b].at)
  <1>1. /\ line[s][b] # NoLine
        /\ form' = [form EXCEPT ![u] = f]
        /\ UNCHANGED <<session, line, item, effect, parent, active, stock, place>>
    BY DEF OpenLine
  <1>2. line[s][b] \in LineRecord
    BY Types DEF CountInv
  <1>3. /\ f \in FormRecord /\ f.session = s /\ f.of = b
        /\ f.count = line[s][b].counted /\ f.at = line[s][b].at
    BY <1>2 DEF FormShape, FormRecord, LineRecord
  <1>4. Earlier(f, line[s][b].counted, line[s][b].at)
    <2>1. line[s][b].at # Nothing => line[s][b].at \in Int
      BY <1>2, CountConstants DEF LineRecord, Time, CountConstants
    <2> QED
      BY <1>3, <2>1 DEF Earlier
  <1>5. \A a \in Asset : a # b
    BY CountConstants DEF CountConstants
  <1> HIDE DEF f
  <1>6. PagesAreEarlier'
    <2>1. \A v \in User : form'[v] = IF v = u THEN f ELSE form[v]
      BY <1>1 DEF CountInv, PagesAreEarlier
    <2> QED
      BY <1>1, <1>3, <1>4, <1>5, <2>1 DEF CountInv, PagesAreEarlier, Earlier
  <1>7. TypeOK'
    BY <1>1 DEF CountInv, TypeOK
  <1> QED
    BY <1>1, <1>6, <1>7
    DEF CountInv, NothingBeforeStart, PendingIsCounted, EffectsMatchApprovals,
        CountedBeforeCompleted, ReconciliationSettled, HasLines, Blocking

LEMMA OpenItemCounts ==
  ASSUME CountInv, NEW u \in User, NEW s \in Session, NEW a \in Asset,
         OpenItem(u, s, a)
  PROVE  CountInv'
  <1> DEFINE f == FormShape(s, a, item[s][a].observed, item[s][a].at)
  <1>1. /\ item[s][a] # NoItem
        /\ form' = [form EXCEPT ![u] = f]
        /\ UNCHANGED <<session, line, item, effect, parent, active, stock, place>>
    BY DEF OpenItem
  <1>2. item[s][a] \in ItemRecord
    BY Types DEF CountInv
  <1>3. /\ f \in FormRecord /\ f.session = s /\ f.of = a
        /\ f.count = item[s][a].observed /\ f.at = item[s][a].at
    BY <1>2 DEF FormShape, FormRecord, ItemRecord
  <1>4. Earlier(f, item[s][a].observed, item[s][a].at)
    <2>1. item[s][a].at # Nothing => item[s][a].at \in Int
      BY <1>2, CountConstants DEF ItemRecord, Time, CountConstants
    <2> QED
      BY <1>3, <2>1 DEF Earlier
  <1>5. \A b \in Bucket : b # a
    BY CountConstants DEF CountConstants
  <1> HIDE DEF f
  <1>6. PagesAreEarlier'
    <2>1. \A v \in User : form'[v] = IF v = u THEN f ELSE form[v]
      BY <1>1 DEF CountInv, PagesAreEarlier
    <2> QED
      BY <1>1, <1>3, <1>4, <1>5, <2>1 DEF CountInv, PagesAreEarlier, Earlier
  <1>7. TypeOK'
    BY <1>1 DEF CountInv, TypeOK
  <1> QED
    BY <1>1, <1>6, <1>7
    DEF CountInv, NothingBeforeStart, PendingIsCounted, EffectsMatchApprovals,
        CountedBeforeCompleted, ReconciliationSettled, HasLines, Blocking

LEMMA RejectCounts ==
  ASSUME CountInv, NEW u \in User, NEW s \in Session, NEW b \in Bucket,
         Reject(u, s, b)
  PROVE  CountInv'
  <1> DEFINE n == [session[s] EXCEPT !.status = "STARTED",
                                     !.reconciliation = "NOT_STARTED"]
  <1>1. /\ session[s].status = "COMPLETED"
        /\ session' = [session EXCEPT ![s] = n]
        /\ UNCHANGED <<line, item, form, effect, parent, active, stock, place>>
    BY DEF Reject, Eligible
  <1>2. session[s] \in SessionRecord
    BY Types DEF CountInv
  <1>3. /\ n \in SessionRecord /\ n.status = "STARTED"
        /\ n.reconciliation = "NOT_STARTED" /\ n.baseline = session[s].baseline
    BY <1>2 DEF SessionRecord
  <1> HIDE DEF n
  <1>4. TypeOK'
    BY <1>1, <1>3, Types, NextTypes DEF CountInv
  <1>5. \A t \in Session : session'[t] = IF t = s THEN n ELSE session[t]
    BY <1>1 DEF CountInv, TypeOK
  <1>6. NothingBeforeStart' /\ PendingIsCounted'
    BY <1>1, <1>3, <1>5 DEF CountInv, NothingBeforeStart, PendingIsCounted
  <1>7. PagesAreEarlier' /\ EffectsMatchApprovals'
    BY <1>1 DEF CountInv, PagesAreEarlier, Earlier, EffectsMatchApprovals
  <1>8. CountedBeforeCompleted' /\ ReconciliationSettled'
    BY <1>1, <1>3, <1>5
    DEF CountInv, CountedBeforeCompleted, ReconciliationSettled, HasLines, Blocking
  <1> QED
    BY <1>4, <1>6, <1>7, <1>8 DEF CountInv

LEMMA ApproveCounts ==
  ASSUME CountInv, NEW u \in User, NEW s \in Session, NEW b \in Bucket,
         NEW o \in OperationId, Approve(u, s, b, o)
  PROVE  CountInv'
  <1> DEFINE basis == line[s][b]
             n == [basis EXCEPT !.resolution = "APPROVED"]
             e == EffectShape(s, b, basis.counted - basis.expected, u)
             r == IF PendingBut(s, b) THEN session[s].reconciliation ELSE "COMPLETED"
             m == [session[s] EXCEPT !.reconciliation = r]
  <1>1. /\ line' = [line EXCEPT ![s][b] = n]
        /\ effect' = [effect EXCEPT ![o] = e]
        /\ session' = [session EXCEPT ![s] = m]
        /\ stock' = [stock EXCEPT ![b] = basis.counted]
        /\ UNCHANGED <<item, form, parent, active, place>>
    BY DEF Approve
  <1>2. /\ session[s].status = "COMPLETED" /\ session[s].baseline = FALSE
        /\ session[s].reconciliation = "PENDING"
        /\ basis.resolution = "PENDING_APPROVAL"
        /\ basis.by # u
        /\ effect[o] = NoEffect
    BY DEF Approve, Eligible, MayPost
  <1>3. /\ line[s][b] \in LineRecord /\ session[s] \in SessionRecord
        /\ line \in [Session -> [Bucket -> LineRecord]]
        /\ session \in [Session -> SessionRecord]
        /\ effect \in [OperationId -> EffectRecord]
    BY Types DEF CountInv
  <1>4. basis.counted \in Count /\ basis.expected \in Count
    BY <1>2, <1>3 DEF CountInv, PendingIsCounted, LineRecord
  <1>5. /\ n \in LineRecord /\ n.resolution = "APPROVED"
        /\ n.counted = basis.counted /\ n.expected = basis.expected
        /\ n.by = basis.by /\ n.at = basis.at
    BY <1>3 DEF LineRecord, Resolution
  <1>6. /\ m \in SessionRecord /\ m.status = "COMPLETED" /\ m.reconciliation = r
        /\ m.baseline = FALSE
    BY <1>2, <1>3 DEF SessionRecord
  <1>7. /\ e \in EffectRecord /\ e.session = s /\ e.bucket = b /\ e.by = u
        /\ e.delta = basis.counted - basis.expected
    BY <1>4, CountConstants DEF EffectShape, EffectRecord, Count, CountConstants
  <1>8. r = IF PendingBut(s, b) THEN "PENDING" ELSE "COMPLETED"
    BY <1>2
  <1> HIDE DEF n, e, r, m
  <1>9. TypeOK'
    <2>1. line' \in [Session -> [Bucket -> LineRecord]]
      BY <1>1, <1>3, <1>5
    <2>2. /\ session' \in [Session -> SessionRecord]
          /\ effect' \in [OperationId -> EffectRecord]
      BY <1>1, <1>3, <1>6, <1>7
    <2>3. stock' \in [Bucket -> Count]
      BY <1>1, <1>4, Types DEF CountInv
    <2> QED
      BY <1>1, <2>1, <2>2, <2>3, Types, NextTypes DEF CountInv
  <1>10. \A t \in Session, c \in Bucket :
           line'[t][c] = IF t = s /\ c = b THEN n ELSE line[t][c]
    BY <1>1, <1>3
  <1>11. /\ \A t \in Session : session'[t] = IF t = s THEN m ELSE session[t]
         /\ \A p \in OperationId : effect'[p] = IF p = o THEN e ELSE effect[p]
    BY <1>1, <1>3
  <1>12. NothingBeforeStart'
    BY <1>1, <1>2, <1>6, <1>10, <1>11 DEF CountInv, NothingBeforeStart
  <1>13. PendingIsCounted'
    BY <1>5, <1>10 DEF CountInv, PendingIsCounted
  <1>14. PagesAreEarlier'
    <2>1. n # NoLine
      BY <1>5 DEF NoLine, LineShape
    <2> QED
      BY <1>1, <1>5, <1>10, <2>1 DEF CountInv, PagesAreEarlier, Earlier
  <1>15. EffectsMatchApprovals'
    <2> DEFINE Own(t, c) == {p \in OperationId :
                               effect[p].session = t /\ effect[p].bucket = c}
               OwnNext(t, c) == {p \in OperationId :
                               effect'[p].session = t /\ effect'[p].bucket = c}
    <2>1. effect[o].session = Nothing /\ Nothing \notin Session
      BY <1>2, CountConstants DEF NoEffect, EffectShape, CountConstants
    <2>2. Own(s, b) = {}
      BY <1>2 DEF CountInv, EffectsMatchApprovals
    <2>3. OwnNext(s, b) = {o}
      BY <1>7, <1>11, <2>2
    <2>4. ASSUME NEW t \in Session, NEW c \in Bucket, ~(t = s /\ c = b)
          PROVE  OwnNext(t, c) = Own(t, c)
      BY <1>7, <1>11, <2>1, <2>4
    <2>5. ASSUME NEW t \in Session, NEW c \in Bucket
          PROVE  IF line'[t][c].resolution = "APPROVED"
                 THEN \E p \in OwnNext(t, c) :
                        /\ OwnNext(t, c) = {p}
                        /\ effect'[p].delta = line'[t][c].counted - line'[t][c].expected
                        /\ effect'[p].by # line'[t][c].by
                 ELSE OwnNext(t, c) = {}
      <3>1. CASE t = s /\ c = b
        BY <1>2, <1>5, <1>7, <1>10, <1>11, <2>3, <3>1
      <3>2. CASE ~(t = s /\ c = b)
        <4>1. line'[t][c] = line[t][c] /\ OwnNext(t, c) = Own(t, c)
          BY <1>10, <2>4, <3>2
        <4>2. \A p \in Own(t, c) : p # o
          BY <2>1
        <4>3. \A p \in Own(t, c) : effect'[p] = effect[p]
          BY <1>11, <4>2
        <4>4. IF line[t][c].resolution = "APPROVED"
              THEN \E p \in Own(t, c) :
                     /\ Own(t, c) = {p}
                     /\ effect[p].delta = line[t][c].counted - line[t][c].expected
                     /\ effect[p].by # line[t][c].by
              ELSE Own(t, c) = {}
          BY DEF CountInv, EffectsMatchApprovals
        <4> HIDE DEF Own, OwnNext
        <4> QED
          BY <4>1, <4>3, <4>4
      <3> QED
        BY <3>1, <3>2
    <2> QED
      BY <2>5 DEF EffectsMatchApprovals
  <1>16. \A t \in Session \ {s}: \A R : HasLines(t, R)' <=> HasLines(t, R)
    BY <1>1, <1>10 DEF HasLines
  <1>17. HasLines(s, {"PENDING_APPROVAL"})' <=> PendingBut(s, b)
    BY <1>1, <1>5, <1>10 DEF HasLines, PendingBut
  <1>18. HasLines(s, {"PENDING_COUNT"})' => HasLines(s, {"PENDING_COUNT"})
    BY <1>1, <1>5, <1>10 DEF HasLines
  <1>19. CountedBeforeCompleted'
    <2>1. Blocking(s)' = {"PENDING_COUNT"} /\ Blocking(s) = {"PENDING_COUNT"}
      BY <1>2, <1>6, <1>11 DEF Blocking
    <2>2. \A t \in Session \ {s} : Blocking(t)' = Blocking(t)
      BY <1>11 DEF Blocking
    <2> QED
      BY <1>2, <1>11, <1>16, <1>18, <2>1, <2>2 DEF CountInv, CountedBeforeCompleted
  <1>20. ReconciliationSettled'
    <2> DEFINE P(t) == HasLines(t, {"PENDING_APPROVAL"})
    <2>1. \A t \in Session \ {s} : P(t)' <=> P(t)
      BY <1>16
    <2>2. \A t \in Session : session[t].reconciliation =
            IF session[t].status # "COMPLETED" THEN "NOT_STARTED"
            ELSE IF session[t].baseline \/ P(t) THEN "PENDING" ELSE "COMPLETED"
      BY DEF CountInv, ReconciliationSettled
    <2>3. P(s)' <=> PendingBut(s, b)
      BY <1>17
    <2> HIDE DEF P
    <2>4. \A t \in Session : session'[t].reconciliation =
            IF session'[t].status # "COMPLETED" THEN "NOT_STARTED"
            ELSE IF session'[t].baseline \/ P(t)' THEN "PENDING" ELSE "COMPLETED"
      BY <1>6, <1>8, <1>11, <2>1, <2>2, <2>3
    <2> QED
      BY <2>4 DEF ReconciliationSettled, P
  <1> QED
    BY <1>9, <1>12, <1>13, <1>14, <1>15, <1>19, <1>20 DEF CountInv

LEMMA LineEntryCounts ==
  ASSUME CountInv, NEW s \in Session, NEW b \in Bucket, NEW n, LineEntry(s, b, n)
  PROVE  CountInv'
  <1>1. /\ session[s].status = "STARTED"
        /\ line[s][b].resolution # "APPROVED"
        /\ n \in LineRecord /\ n.resolution \in Entered
        /\ n.resolution = "PENDING_APPROVAL" => n.counted \in Count
        /\ Later(n.at, line[s][b].at)
        /\ line' = [line EXCEPT ![s][b] = n]
        /\ UNCHANGED <<session, item, form, effect, parent, active, stock, place>>
    BY DEF LineEntry
  <1>2. line \in [Session -> [Bucket -> LineRecord]]
    BY Types DEF CountInv
  <1>3. TypeOK'
    <2>1. line' \in [Session -> [Bucket -> LineRecord]]
      BY <1>1, <1>2
    <2> QED
      BY <1>1, <2>1, Types, NextTypes DEF CountInv
  <1>4. \A t \in Session, c \in Bucket :
          line'[t][c] = IF t = s /\ c = b THEN n ELSE line[t][c]
    BY <1>1, <1>2
  <1>5. NothingBeforeStart' /\ PendingIsCounted'
    BY <1>1, <1>4 DEF CountInv, NothingBeforeStart, PendingIsCounted
  <1>6. PagesAreEarlier'
    <2>1. n # NoLine
      BY <1>1 DEF Entered, NoLine, LineShape
    <2>2. n.at \in Time /\ line[s][b].at \in Time \union {Nothing}
      BY <1>1, <1>2 DEF Later, LineRecord
    <2>3. Time \subseteq Int /\ Nothing \notin Time
      BY CountConstants DEF Time, CountConstants
    <2>4. ASSUME NEW f \in FormRecord, NEW count, Earlier(f, count, line[s][b].at)
          PROVE  Earlier(f, n.counted, n.at)
      <3>1. f.at \in Time \union {Nothing}
        BY DEF FormRecord
      <3> QED
        BY <1>1, <2>2, <2>3, <2>4, <3>1 DEF Earlier, Later
    <2> QED
      BY <1>1, <1>4, <2>1, <2>4 DEF CountInv, PagesAreEarlier
  <1>7. EffectsMatchApprovals'
    BY <1>1, <1>4 DEF CountInv, EffectsMatchApprovals, Entered
  <1>8. CountedBeforeCompleted' /\ ReconciliationSettled'
    BY <1>1, <1>4
    DEF CountInv, CountedBeforeCompleted, ReconciliationSettled, HasLines, Blocking
  <1> QED
    BY <1>3, <1>5, <1>6, <1>7, <1>8 DEF CountInv

LEMMA ItemEntryCounts ==
  ASSUME CountInv, NEW s \in Session, NEW a \in Asset, NEW n, ItemEntry(s, a, n)
  PROVE  CountInv'
  <1>1. /\ session[s].status = "STARTED"
        /\ n \in ItemRecord /\ n.resolution \in Entered
        /\ Later(n.at, item[s][a].at)
        /\ item' = [item EXCEPT ![s][a] = n]
        /\ UNCHANGED <<session, line, form, effect, parent, active, stock, place>>
    BY DEF ItemEntry
  <1>2. item \in [Session -> [Asset -> ItemRecord]]
    BY Types DEF CountInv
  <1>3. TypeOK'
    <2>1. item' \in [Session -> [Asset -> ItemRecord]]
      BY <1>1, <1>2
    <2> QED
      BY <1>1, <2>1, Types, NextTypes DEF CountInv
  <1>4. \A t \in Session, c \in Asset :
          item'[t][c] = IF t = s /\ c = a THEN n ELSE item[t][c]
    BY <1>1, <1>2
  <1>5. NothingBeforeStart' /\ PendingIsCounted'
    BY <1>1, <1>4 DEF CountInv, NothingBeforeStart, PendingIsCounted
  <1>6. PagesAreEarlier'
    <2>1. n # NoItem
      BY <1>1 DEF Entered, NoItem, ItemShape
    <2>2. n.at \in Time /\ item[s][a].at \in Time \union {Nothing}
      BY <1>1, <1>2 DEF Later, ItemRecord
    <2>3. Time \subseteq Int /\ Nothing \notin Time
      BY CountConstants DEF Time, CountConstants
    <2>4. ASSUME NEW f \in FormRecord, NEW count, Earlier(f, count, item[s][a].at)
          PROVE  Earlier(f, n.observed, n.at)
      <3>1. f.at \in Time \union {Nothing}
        BY DEF FormRecord
      <3> QED
        BY <1>1, <2>2, <2>3, <2>4, <3>1 DEF Earlier, Later
    <2> QED
      BY <1>1, <1>4, <2>1, <2>4 DEF CountInv, PagesAreEarlier
  <1>7. EffectsMatchApprovals'
    BY <1>1 DEF CountInv, EffectsMatchApprovals
  <1>8. CountedBeforeCompleted' /\ ReconciliationSettled'
    BY <1>1, <1>4
    DEF CountInv, CountedBeforeCompleted, ReconciliationSettled, HasLines, Blocking
  <1> QED
    BY <1>3, <1>5, <1>6, <1>7, <1>8 DEF CountInv

LEMMA ElsewhereCounts ==
  ASSUME CountInv, Elsewhere
  PROVE  CountInv'
  <1>1. TypeOK'
    BY Types, NextTypes DEF CountInv, Elsewhere
  <1>2. UNCHANGED <<session, line, item, form, effect>>
    BY DEF Elsewhere
  <1> QED
    BY <1>1, <1>2
    DEF CountInv, NothingBeforeStart, PendingIsCounted, PagesAreEarlier, Earlier,
        EffectsMatchApprovals, CountedBeforeCompleted, ReconciliationSettled,
        HasLines, Blocking

LEMMA NextCounts == CountInv /\ [Next]_vars => CountInv'
  <1> SUFFICES ASSUME CountInv, [Next]_vars PROVE CountInv'
    OBVIOUS
  <1>1. CASE Next
    <2>1. TypeOK
      BY DEF CountInv
    <2> QED
      BY <1>1, <2>1, Steps, CreateCounts, StartCounts, CompleteCounts,
         OpenLineCounts, OpenItemCounts, RejectCounts, ApproveCounts,
         LineEntryCounts, ItemEntryCounts, ElsewhereCounts
  <1>2. CASE UNCHANGED vars
    <2>1. Elsewhere
      BY <1>2, Types DEF vars, CountInv, Elsewhere
    <2> QED
      BY <2>1, ElsewhereCounts
  <1> QED
    BY <1>1, <1>2

\* A count replaces only what its user has seen.
LEMMA NothingIsOverwritten ==
  ASSUME CountInv, Next, NEW s \in Session
  PROVE  /\ \A b \in Bucket :
              \/ line[s][b] = NoLine
              \/ line'[s][b] = line[s][b]
              \/ line'[s][b].resolution \in {"APPROVED", "NOT_COUNTED"}
              \/ form[line'[s][b].by] =
                   FormShape(s, b, line[s][b].counted, line[s][b].at)
         /\ \A a \in Asset :
              \/ item[s][a] = NoItem
              \/ item'[s][a] = item[s][a]
              \/ form[item'[s][a].by] =
                   FormShape(s, a, item[s][a].observed, item[s][a].at)
  <1> DEFINE
             Goal == /\ \A b \in Bucket :
                          \/ line[s][b] = NoLine
                          \/ line'[s][b] = line[s][b]
                          \/ line'[s][b].resolution \in {"APPROVED", "NOT_COUNTED"}
                          \/ form[line'[s][b].by] =
                               FormShape(s, b, line[s][b].counted, line[s][b].at)
                     /\ \A a \in Asset :
                          \/ item[s][a] = NoItem
                          \/ item'[s][a] = item[s][a]
                          \/ form[item'[s][a].by] =
                               FormShape(s, a, item[s][a].observed, item[s][a].at)
  <1>1. /\ line \in [Session -> [Bucket -> LineRecord]]
        /\ item \in [Session -> [Asset -> ItemRecord]]
        /\ TypeOK
    BY Types DEF CountInv
  <1>2. ASSUME NEW u \in User, NEW x, NEW count, NEW at,
               SawToken(u, s, x, at), Earlier(form[u], count, at)
        PROVE  form[u] = FormShape(s, x, count, at)
    <2>1. form[u] \in FormRecord
      BY DEF CountInv, PagesAreEarlier
    <2> QED
      BY <1>2, <2>1 DEF FormShape, FormRecord, SawToken, Earlier
  <1>3. ASSUME NEW t \in Session, NEW scope \in Location, NEW baseline_ \in BOOLEAN,
               Create(t, scope, baseline_)
        PROVE  Goal
    BY <1>3 DEF Create
  <1>4. ASSUME NEW t \in Session, Start(t) PROVE Goal
    <2>1. CASE t = s
      BY <1>4, <2>1 DEF CountInv, NothingBeforeStart, Start
    <2>2. CASE t # s
      BY <1>1, <1>4, <2>2 DEF Start
    <2> QED
      BY <2>1, <2>2
  <1>5. ASSUME NEW t \in Session, Complete(t) PROVE Goal
    BY <1>5 DEF Complete
  <1>6. ASSUME NEW t \in Session, NEW b \in Bucket, NEW u \in User,
               \/ OpenLine(u, t, b)
               \/ Reject(u, t, b)
        PROVE  Goal
    BY <1>6 DEF OpenLine, Reject
  <1>7. ASSUME NEW t \in Session, NEW a \in Asset, NEW u \in User, OpenItem(u, t, a)
        PROVE  Goal
    BY <1>7 DEF OpenItem
  <1>8. ASSUME NEW t \in Session, NEW b \in Bucket, NEW u \in User,
               NEW o \in OperationId, Approve(u, t, b, o)
        PROVE  Goal
    <2>1. /\ line' = [line EXCEPT ![t][b].resolution = "APPROVED"]
          /\ item' = item
      BY <1>8 DEF Approve
    <2>2. \A c \in Bucket : line'[s][c] = line[s][c]
                            \/ line'[s][c].resolution = "APPROVED"
      BY <1>1, <2>1 DEF LineRecord
    <2> QED
      BY <2>1, <2>2
  <1>9. ASSUME NEW t \in Session, NEW b \in Bucket, NEW n, LineEntry(t, b, n)
        PROVE  Goal
    <2>1. /\ \A c \in Bucket :
                line'[s][c] = IF t = s /\ c = b THEN n ELSE line[s][c]
          /\ item' = item
      BY <1>1, <1>9 DEF LineEntry
    <2>2. CASE t = s /\ line[s][b] # NoLine /\ n.resolution # "NOT_COUNTED"
      <3>1. n.by \in User /\ SawToken(n.by, s, b, line[s][b].at)
        BY <1>9, <2>2 DEF LineEntry
      <3>2. Earlier(form[n.by], line[s][b].counted, line[s][b].at)
        BY <3>1 DEF CountInv, PagesAreEarlier, SawToken
      <3>3. form[n.by] = FormShape(s, b, line[s][b].counted, line[s][b].at)
        BY <1>2, <3>1, <3>2
      <3> QED
        BY <2>1, <3>3
    <2> QED
      BY <2>1, <2>2
  <1>10. ASSUME NEW t \in Session, NEW a \in Asset, NEW n, ItemEntry(t, a, n)
         PROVE  Goal
    <2>1. /\ \A c \in Asset :
                item'[s][c] = IF t = s /\ c = a THEN n ELSE item[s][c]
          /\ line' = line
      BY <1>1, <1>10 DEF ItemEntry
    <2>2. CASE t = s /\ item[s][a] # NoItem
      <3>1. n.by \in User /\ SawToken(n.by, s, a, item[s][a].at)
        BY <1>10, <2>2 DEF ItemEntry
      <3>2. Earlier(form[n.by], item[s][a].observed, item[s][a].at)
        BY <3>1 DEF CountInv, PagesAreEarlier, SawToken
      <3>3. form[n.by] = FormShape(s, a, item[s][a].observed, item[s][a].at)
        BY <1>2, <3>1, <3>2
      <3> QED
        BY <2>1, <3>3
    <2> QED
      BY <2>1, <2>2
  <1>11. ASSUME Elsewhere PROVE Goal
    BY <1>11 DEF Elsewhere
  <1> HIDE DEF Goal
  <1>12. Goal
    BY <1>1, <1>3, <1>4, <1>5, <1>6, <1>7, <1>8, <1>9, <1>10, <1>11, Steps
  <1> QED
    BY <1>12 DEF Goal

-----------------------------------------------------------------------------
(***************************************************************************)
(* The cutover                                                             *)
(***************************************************************************)
BaselineRecord ==
  [status : {"NONE", "PREPARED", "ESTABLISHED"}, sessions : SUBSET Session,
   operation : OperationId \union {Nothing}, by : User \union {Nothing},
   opened : [Bucket -> Count]]

AttemptRecord ==
  [phase : {"NONE", "CHECKED", "READ"}, scopes : [Session -> SUBSET Location]]

CutRecord ==
  [baseline : Baseline \union {Nothing}, by : User \union {Nothing},
   operation : OperationId \union {Nothing}, opened : [Bucket -> Count],
   phase : {"NONE", "INBOUND", "OUTBOUND"}, seen : [Bucket -> Sum]]

CutoverTypes ==
  /\ baseline \in [Baseline -> BaselineRecord]
  /\ fingerprint = [bl \in Baseline |-> fingerprint[bl]]
  /\ history \subseteq Bucket
  /\ cut \in CutRecord

\* What a baseline holds before it is established, and its sessions at any time.
BaselinesHold ==
  /\ \A bl \in Baseline :
       /\ baseline[bl].status = "NONE" => baseline[bl].sessions = {}
       /\ baseline[bl].status # "ESTABLISHED" => baseline[bl].opened = NothingOpened
       /\ \A s \in baseline[bl].sessions : Candidate(s)
  /\ \A bl, other \in Baseline :
       bl # other => baseline[bl].sessions \intersect baseline[other].sessions = {}

\* An attempt holds its baseline, its sessions and their lines as it checked them.
AttemptsHold ==
  /\ attempt = [bl \in Baseline |-> attempt[bl]]
  /\ \A bl \in Baseline : attempt[bl] # NoAttempt =>
       /\ baseline[bl].status = "PREPARED"
       /\ \A s \in baseline[bl].sessions : ~Incomplete(s)

\* The rows that an establishment has locked keep what it read.
CutHolds ==
  cut # NoCut =>
    /\ cut.baseline \in Baseline
    /\ cut.by \in User
    /\ attempt[cut.baseline].phase = "READ"
    /\ \A s \in baseline[cut.baseline].sessions :
         \A a \in SerializedOpenings(s) : item[s][a].observed \in Place
    /\ \A b \in Bucket : cut.opened[b] > 0 =>
         /\ b \notin history
         /\ stock[b] = 0
         /\ \E s \in baseline[cut.baseline].sessions :
              /\ line[s][b] # NoLine
              /\ line[s][b].counted = cut.opened[b]
              /\ line[s][b].by # cut.by

CutoverInv ==
  /\ CountInv
  /\ CutoverTypes
  /\ BaselinesHold
  /\ AttemptsHold
  /\ CutHolds
  /\ EstablishedOnEvidence

\* The baseline of the cut has an attempt, and so what an attempt holds.
LEMMA CutIsAttempt ==
  ASSUME CutoverInv, cut # NoCut
  PROVE  /\ cut.baseline \in Baseline /\ attempt[cut.baseline] # NoAttempt
         /\ baseline[cut.baseline].status = "PREPARED"
         /\ \A s \in baseline[cut.baseline].sessions : ~Incomplete(s)
  <1>1. cut.baseline \in Baseline /\ attempt[cut.baseline].phase = "READ"
    BY DEF CutoverInv, CutHolds
  <1>2. attempt[cut.baseline] # NoAttempt
    BY <1>1 DEF NoAttempt, AttemptShape
  <1> QED
    BY <1>1, <1>2 DEF CutoverInv, AttemptsHold

\* A candidate stays as it is, whatever counters and managers do.
LEMMA CandidatesStay ==
  ASSUME CountInv, Next, NEW s \in Session, Candidate(s)
  PROVE  session'[s] = session[s] /\ line'[s] = line[s] /\ item'[s] = item[s]
  <1> DEFINE Goal ==
        session'[s] = session[s] /\ line'[s] = line[s] /\ item'[s] = item[s]
  <1>1. /\ session \in [Session -> SessionRecord]
        /\ line \in [Session -> [Bucket -> LineRecord]]
        /\ item \in [Session -> [Asset -> ItemRecord]]
        /\ TypeOK
    BY Types DEF CountInv
  <1>2. session[s].status = "COMPLETED" /\ session[s].baseline
    BY DEF Candidate
  <1>3. ASSUME NEW t \in Session, NEW scope \in Location, NEW baseline_ \in BOOLEAN,
               Create(t, scope, baseline_)
        PROVE  Goal
    BY <1>1, <1>2, <1>3 DEF Create
  <1>4. ASSUME NEW t \in Session, Start(t) \/ Complete(t) PROVE Goal
    BY <1>1, <1>2, <1>4 DEF Start, Complete
  <1>5. ASSUME NEW t \in Session, NEW b \in Bucket, NEW u \in User,
               \/ OpenLine(u, t, b)
               \/ Reject(u, t, b)
               \/ \E o \in OperationId : Approve(u, t, b, o)
        PROVE  Goal
    BY <1>1, <1>2, <1>5 DEF OpenLine, Reject, Approve, Eligible
  <1>6. ASSUME NEW t \in Session, NEW b \in Bucket, NEW n, LineEntry(t, b, n)
        PROVE  Goal
    BY <1>1, <1>2, <1>6 DEF LineEntry
  <1>7. ASSUME NEW t \in Session, NEW a \in Asset, NEW u \in User,
               OpenItem(u, t, a) \/ \E n : ItemEntry(t, a, n)
        PROVE  Goal
    BY <1>1, <1>2, <1>7 DEF OpenItem, ItemEntry
  <1>8. ASSUME Elsewhere PROVE Goal
    BY <1>8 DEF Elsewhere
  <1> HIDE DEF Goal
  <1>9. Goal
    BY <1>1, <1>3, <1>4, <1>5, <1>6, <1>7, <1>8, Steps
  <1> QED
    BY <1>9 DEF Goal

\* Evidence depends on nothing but the sessions of the baseline.
LEMMA EvidenceStays ==
  ASSUME NEW bl \in Baseline,
         baseline'[bl].sessions = baseline[bl].sessions,
         \A s \in baseline[bl].sessions :
           session'[s] = session[s] /\ line'[s] = line[s] /\ item'[s] = item[s]
  PROVE  /\ \A u : Request(u, bl)' = Request(u, bl)
         /\ \A s \in baseline[bl].sessions :
              /\ Candidate(s)' = Candidate(s)
              /\ Incomplete(s)' <=> Incomplete(s)
              /\ SerializedOpenings(s)' = SerializedOpenings(s)
  <1>1. \A s \in baseline[bl].sessions :
          /\ QuantityEvidence(s)' = QuantityEvidence(s)
          /\ SerializedEvidence(s)' = SerializedEvidence(s)
    BY DEF QuantityEvidence, SerializedEvidence
  <1>2. \A u : Request(u, bl)' = Request(u, bl)
    BY <1>1 DEF Request
  <1>3. \A s \in baseline[bl].sessions :
          /\ Candidate(s)' = Candidate(s)
          /\ Incomplete(s)' <=> Incomplete(s)
          /\ SerializedOpenings(s)' = SerializedOpenings(s)
    BY DEF Candidate, Incomplete, HasLines, SerializedOpenings
  <1> QED
    BY <1>2, <1>3

LEMMA CutoverStarts == CutoverInit => CutoverInv
  <1> SUFFICES ASSUME CutoverInit PROVE CutoverInv
    OBVIOUS
  <1>1. CountInv
    BY InitCounts DEF CutoverInit
  <1>2. 0 \in Count /\ 0 \in Sum
    BY CountConstants DEF CountConstants, Count, Sum
  <1>3. CutoverTypes
    BY <1>2
    DEF CutoverInit, CutoverTypes, BaselineRecord, CutRecord, NoBaseline, BaselineShape,
        NoCut, CutShape, NothingOpened
  <1>4. BaselinesHold
    BY DEF CutoverInit, BaselinesHold, NoBaseline, BaselineShape
  <1>5. AttemptsHold /\ CutHolds /\ EstablishedOnEvidence
    BY DEF CutoverInit, AttemptsHold, CutHolds, EstablishedOnEvidence, NoBaseline,
           BaselineShape
  <1> QED
    BY <1>1, <1>3, <1>4, <1>5 DEF CutoverInv

\* Where nothing of a count, of the stock or of the ledger changes, neither does
\* what the invariant says of it.
LEMMA CountStands ==
  ASSUME CutoverInv, UNCHANGED vars
  PROVE  CountInv'
  <1>1. [Next]_vars
    OBVIOUS
  <1> QED
    BY <1>1, NextCounts DEF CutoverInv

LEMMA PrepareHolds ==
  ASSUME CutoverInv, NEW u \in User, NEW bl \in Baseline,
         NEW sessions \in SUBSET Session, Prepare(u, bl, sessions)
  PROVE  CutoverInv'
  <1> DEFINE n == BaselineShape("PREPARED", sessions, Nothing, Nothing, NothingOpened)
  <1>1. /\ baseline[bl].status = "NONE"
        /\ \A s \in sessions : Candidate(s) /\ ~Linked(s)
        /\ baseline' = [baseline EXCEPT ![bl] = n]
        /\ UNCHANGED <<vars, fingerprint, history, attempt, cut>>
    BY DEF Prepare
  <1>2. UNCHANGED <<session, line, item, stock>>
    BY <1>1 DEF vars
  <1>3. /\ n \in BaselineRecord /\ n.status = "PREPARED" /\ n.sessions = sessions
        /\ n.opened = NothingOpened
    <2>1. 0 \in Count
      BY CountConstants DEF CountConstants, Count
    <2> QED
      BY <2>1 DEF BaselineShape, BaselineRecord, NothingOpened
  <1> HIDE DEF n
  <1>4. CountInv'
    BY <1>1, CountStands
  <1>5. CutoverTypes'
    BY <1>1, <1>3 DEF CutoverInv, CutoverTypes
  <1>6. \A other \in Baseline :
          baseline'[other] = IF other = bl THEN n ELSE baseline[other]
    BY <1>1 DEF CutoverInv, CutoverTypes
  <1>7. BaselinesHold'
    BY <1>1, <1>2, <1>3, <1>6 DEF CutoverInv, BaselinesHold, Candidate, Linked
  <1>8. AttemptsHold' /\ CutHolds'
    <2>1. AttemptsHold'
      BY <1>1, <1>2, <1>6 DEF CutoverInv, AttemptsHold, Incomplete, HasLines
    <2>2. CutHolds'
      BY <1>1, <1>2, <1>6, CutIsAttempt DEF CutoverInv, CutHolds, SerializedOpenings
    <2> QED
      BY <2>1, <2>2
  <1>9. EstablishedOnEvidence'
    <2>1. ASSUME NEW other \in Baseline, other # bl
          PROVE  /\ baseline'[other] = baseline[other]
                 /\ \A v : Request(v, other)' = Request(v, other)
      BY <1>2, <1>6, <2>1, EvidenceStays
    <2> QED
      BY <1>1, <1>2, <1>3, <1>6, <2>1
      DEF CutoverInv, EstablishedOnEvidence, Replays, Incomplete, HasLines
  <1> QED
    BY <1>4, <1>5, <1>7, <1>8, <1>9 DEF CutoverInv

\* What the establishment posts is what somebody else counted.
LEMMA OpenedIsCounted ==
  ASSUME CutoverInv, NEW u \in User, NEW bl \in Baseline, NEW scopes,
         Accepts(u, bl, scopes)
  PROVE  /\ Opened(bl) \in [Bucket -> Count]
         /\ \A b \in Bucket : Opened(bl)[b] > 0 =>
              /\ b \notin history
              /\ stock[b] = 0
              /\ \E s \in baseline[bl].sessions :
                   /\ line[s][b] # NoLine
                   /\ line[s][b].counted = Opened(bl)[b]
                   /\ line[s][b].by # u
  <1>1. /\ line \in [Session -> [Bucket -> LineRecord]]
        /\ baseline[bl].sessions \subseteq Session
    BY Types DEF CutoverInv, CountInv, CutoverTypes, BaselineRecord
  <1>2. 0 \in Count /\ Count \subseteq Int
    BY CountConstants DEF CountConstants, Count
  <1>3. ASSUME NEW b \in Bucket
        PROVE  /\ Opened(bl)[b] \in Count
               /\ Opened(bl)[b] > 0 =>
                    /\ b \notin history
                    /\ stock[b] = 0
                    /\ \E s \in baseline[bl].sessions :
                         /\ line[s][b] # NoLine
                         /\ line[s][b].counted = Opened(bl)[b]
                         /\ line[s][b].by # u
    <2> DEFINE S == {t \in baseline[bl].sessions : b \in QuantityOpenings(t)}
    <2>1. Opened(bl)[b] = IF S = {} THEN 0 ELSE line[CHOOSE t \in S : TRUE][b].counted
      BY DEF Opened
    <2>2. CASE S = {}
      BY <1>2, <2>1, <2>2
    <2>3. CASE S # {}
      <3>1. PICK s \in S : Opened(bl)[b] = line[s][b].counted
        BY <2>1, <2>3
      <3>2. /\ s \in baseline[bl].sessions
            /\ b \notin history
            /\ line[s][b] # NoLine
            /\ line[s][b].counted \notin {Nothing, 0}
            /\ b \in QuantityOpenings(s)
        BY DEF QuantityOpenings
      <3>3. ~CountedBy(u, s) /\ OpensAtActive(s)
        BY <3>2 DEF Accepts
      <3>4. line[s][b].by # u /\ stock[b] = 0
        BY <3>2, <3>3 DEF CountedBy, OpensAtActive
      <3>5. line[s][b].counted \in Count
        BY <1>1, <3>2 DEF LineRecord
      <3> QED
        BY <3>1, <3>2, <3>4, <3>5
    <2> QED
      BY <2>2, <2>3
  <1>4. Opened(bl) \in [Bucket -> Count]
    <2>1. Opened(bl) = [b \in Bucket |-> Opened(bl)[b]]
      BY DEF Opened
    <2> QED
      BY <1>3, <2>1
  <1> QED
    BY <1>3, <1>4

LEMMA BeginHolds ==
  ASSUME CutoverInv, NEW u \in User, NEW bl \in Baseline, NEW o \in OperationId,
         BeginEstablish(u, bl, o)
  PROVE  CutoverInv'
  <1> DEFINE c == CutShape(bl, u, o, Opened(bl), "INBOUND", stock)
  <1>1. /\ attempt[bl].phase = "READ"
        /\ Accepts(u, bl, attempt[bl].scopes)
        /\ cut' = c
        /\ UNCHANGED <<vars, baseline, fingerprint, history, attempt>>
    BY DEF BeginEstablish
  <1>2. UNCHANGED <<session, line, item, stock>>
    BY <1>1 DEF vars
  <1>3. stock \in [Bucket -> Sum]
    BY Types, CountConstants DEF CutoverInv, CountInv, CountConstants, Count, Sum
  <1>4. /\ c \in CutRecord /\ c.baseline = bl /\ c.by = u
        /\ c.opened = Opened(bl)
    BY <1>1, <1>3, OpenedIsCounted DEF CutShape, CutRecord
  <1> HIDE DEF c
  <1>5. CountInv'
    BY <1>1, CountStands
  <1>6. CutoverTypes'
    BY <1>1, <1>4 DEF CutoverInv, CutoverTypes
  <1>7. BaselinesHold'
    BY <1>1, <1>2 DEF CutoverInv, BaselinesHold, Candidate
  <1>8. CutHolds'
    <2>1. \A s \in baseline[bl].sessions : ~SerializedDiscrepancy(s)
      BY <1>1 DEF Accepts
    <2>2. \A s \in baseline[bl].sessions : \A a \in SerializedOpenings(s) :
            a \in Asset /\ item[s][a].observed \in Place
      BY <2>1 DEF SerializedDiscrepancy, SerializedOpenings
    <2>3. \A s \in baseline[bl].sessions :
            SerializedOpenings(s)' = SerializedOpenings(s)
      BY <1>1, <1>2, EvidenceStays
    <2> QED
      BY <1>1, <1>2, <1>4, <2>2, <2>3, OpenedIsCounted DEF CutHolds
  <1>9. EstablishedOnEvidence'
    BY <1>1, <1>2, EvidenceStays DEF CutoverInv, EstablishedOnEvidence, Replays
  <1>10. AttemptsHold'
    BY <1>1, <1>2 DEF CutoverInv, AttemptsHold, Incomplete, HasLines
  <1> QED
    BY <1>5, <1>6, <1>7, <1>8, <1>9, <1>10 DEF CutoverInv

LEMMA CommitPosts ==
  ASSUME CutoverInv, CommitEstablish
  PROVE  Elsewhere
  <1> DEFINE sessions == baseline[cut.baseline].sessions
  <1>1. /\ cut.phase = "OUTBOUND"
        /\ stock' = [b \in Bucket |-> stock[b] + cut.opened[b]]
        /\ place' = PlacesWithCandidates(sessions)
        /\ UNCHANGED <<session, line, item, form, effect, parent, active>>
    BY DEF CommitEstablish
  <1>2. cut # NoCut
    BY <1>1 DEF NoCut, CutShape
  <1>3. /\ stock \in [Bucket -> Count] /\ place \in [Asset -> Place \union {Out, Unknown}]
        /\ parent \in [Location -> Location \union {Nothing}] /\ active \subseteq Location
        /\ cut.opened \in [Bucket -> Count]
    BY Types DEF CutoverInv, CountInv, CutoverTypes, CutRecord
  <1>4. stock' \in [Bucket -> Count]
    <2>1. ASSUME NEW b \in Bucket PROVE stock[b] + cut.opened[b] \in Count
      <3>1. /\ stock[b] \in Count /\ cut.opened[b] \in Count
            /\ stock[b] \in Nat /\ cut.opened[b] \in Nat
            /\ cut.opened[b] > 0 => stock[b] = 0
        BY <1>2, <1>3, CountConstants
        DEF CutoverInv, CutHolds, Count, CountConstants
      <3>2. CASE cut.opened[b] = 0
        BY <3>1, <3>2
      <3>3. CASE cut.opened[b] > 0
        BY <3>1, <3>3
      <3> QED
        BY <3>1, <3>2, <3>3
    <2> QED
      BY <1>1, <2>1
  <1>5. place' \in [Asset -> Place \union {Out, Unknown}]
    <2>1. ASSUME NEW a \in Asset
          PROVE  PlacesWithCandidates(sessions)[a] \in Place \union {Out, Unknown}
      <3> DEFINE S == {t \in sessions : a \in SerializedOpenings(t)}
      <3>1. PlacesWithCandidates(sessions)[a] =
              IF S = {} THEN place[a] ELSE item[CHOOSE t \in S : TRUE][a].observed
        BY DEF PlacesWithCandidates
      <3>2. \A t \in S : item[t][a].observed \in Place
        BY <1>2 DEF CutoverInv, CutHolds
      <3> QED
        BY <1>3, <3>1, <3>2
    <2>2. PlacesWithCandidates(sessions) =
            [a \in Asset |-> PlacesWithCandidates(sessions)[a]]
      BY DEF PlacesWithCandidates
    <2> QED
      BY <1>1, <2>1, <2>2
  <1> QED
    BY <1>1, <1>3, <1>4, <1>5 DEF Elsewhere

LEMMA CommitHolds ==
  ASSUME CutoverInv, CommitEstablish
  PROVE  CutoverInv'
  <1> DEFINE bl == cut.baseline
             n == BaselineShape("ESTABLISHED", baseline[bl].sessions, cut.operation,
                                cut.by, cut.opened)
  <1>1. /\ cut.phase = "OUTBOUND"
        /\ baseline' = [baseline EXCEPT ![bl] = n]
        /\ fingerprint' = [fingerprint EXCEPT ![bl] = Request(cut.by, bl)]
        /\ history' = history \union {b \in Bucket : cut.opened[b] > 0}
        /\ attempt' = [attempt EXCEPT ![bl] = NoAttempt]
        /\ cut' = NoCut
        /\ UNCHANGED <<session, line, item>>
    BY DEF CommitEstablish
  <1>2. cut # NoCut /\ cut \in CutRecord
    BY <1>1 DEF NoCut, CutShape, CutoverInv, CutoverTypes
  <1>3. bl \in Baseline /\ cut.by \in User /\ baseline[bl].status = "PREPARED"
    BY <1>2, CutIsAttempt DEF CutoverInv, CutHolds
  <1>4. /\ baseline \in [Baseline -> BaselineRecord]
        /\ fingerprint = [b \in Baseline |-> fingerprint[b]]
        /\ history \subseteq Bucket
    BY DEF CutoverInv, CutoverTypes
  <1>5. /\ n \in BaselineRecord /\ n.status = "ESTABLISHED"
        /\ n.sessions = baseline[bl].sessions /\ n.operation = cut.operation
        /\ n.by = cut.by /\ n.opened = cut.opened
    BY <1>2, <1>3, <1>4 DEF BaselineShape, BaselineRecord, CutRecord
  <1>6. CountInv'
    BY CommitPosts, ElsewhereCounts DEF CutoverInv
  <1>7. CutoverTypes'
    <2>1. NoCut \in CutRecord
      <3>1. 0 \in Count /\ 0 \in Sum
        BY CountConstants DEF CountConstants, Count, Sum
      <3> QED
        BY <3>1 DEF NoCut, CutShape, CutRecord, NothingOpened
    <2>2. /\ baseline' \in [Baseline -> BaselineRecord]
          /\ fingerprint' = [b \in Baseline |-> fingerprint'[b]]
      BY <1>1, <1>3, <1>4, <1>5
    <2> QED
      BY <1>1, <1>4, <2>1, <2>2 DEF CutoverTypes
  <1> HIDE DEF n
  <1>8. \A b \in Baseline : baseline'[b] = IF b = bl THEN n ELSE baseline[b]
    BY <1>1, <1>4
  <1>9. BaselinesHold'
    BY <1>1, <1>3, <1>5, <1>8 DEF CutoverInv, BaselinesHold, Candidate
  <1>10. AttemptsHold' /\ CutHolds'
    <2>1. \A b \in Baseline : b # bl => attempt'[b] = attempt[b] /\ baseline'[b] = baseline[b]
      BY <1>1, <1>8 DEF CutoverInv, AttemptsHold
    <2>2. attempt' = [b \in Baseline |-> attempt'[b]] /\ attempt'[bl] = NoAttempt
      BY <1>1, <1>3 DEF CutoverInv, AttemptsHold
    <2>3. AttemptsHold'
      BY <1>1, <2>1, <2>2 DEF CutoverInv, AttemptsHold, Incomplete, HasLines
    <2> QED
      BY <1>1, <2>3 DEF CutHolds
  <1>11. EstablishedOnEvidence'
    <2>1. \A b \in Baseline :
            /\ baseline'[b].by = IF b = bl THEN cut.by ELSE baseline[b].by
            /\ Request(baseline[b].by, b)' =
                 Request(IF b = bl THEN cut.by ELSE baseline[b].by, b)
      BY <1>1, <1>5, <1>8, EvidenceStays
    <2>2. \A b \in Baseline : b # bl =>
            baseline'[b] = baseline[b] /\ fingerprint'[b] = fingerprint[b]
      BY <1>1, <1>4, <1>8
    <2>3. baseline'[bl] = n /\ fingerprint'[bl] = Request(cut.by, bl)
      BY <1>1, <1>3, <1>4, <1>8
    <2>4. \A b \in Baseline : \A s \in baseline[b].sessions :
            Incomplete(s)' <=> Incomplete(s)
      BY <1>1, <1>5, <1>8, EvidenceStays
    <2>5. \A s \in baseline[bl].sessions :
            session[s].status = "COMPLETED" /\ ~Incomplete(s)
      BY <1>2, <1>3, CutIsAttempt DEF CutoverInv, BaselinesHold, Candidate
    <2>6. \A b \in Bucket : cut.opened[b] > 0 =>
            \E s \in baseline[bl].sessions :
              line[s][b].counted = cut.opened[b] /\ line[s][b].by # cut.by
      BY <1>2 DEF CutoverInv, CutHolds
    <2>7. ASSUME NEW b \in Baseline, baseline'[b].status = "ESTABLISHED"
          PROVE  /\ (fingerprint[b] = Request(baseline[b].by, b))'
                 /\ \A s \in baseline'[b].sessions :
                      session'[s].status = "COMPLETED" /\ ~Incomplete(s)'
                 /\ \A c \in Bucket : baseline'[b].opened[c] > 0 =>
                      \E s \in baseline'[b].sessions :
                        /\ line'[s][c].counted = baseline'[b].opened[c]
                        /\ line'[s][c].by # baseline'[b].by
      <3>1. CASE b = bl
        BY <1>1, <1>5, <2>1, <2>3, <2>4, <2>5, <2>6, <3>1
      <3>2. CASE b # bl
        BY <1>1, <2>1, <2>2, <2>4, <2>7, <3>2
        DEF CutoverInv, EstablishedOnEvidence, Replays
      <3> QED
        BY <3>1, <3>2
    <2> QED
      BY <2>7 DEF EstablishedOnEvidence, Replays
  <1> QED
    BY <1>6, <1>7, <1>9, <1>10, <1>11 DEF CutoverInv

\* What is checked or read, a rollback and a replay change no row.
LEMMA PassingHolds ==
  ASSUME CutoverInv, AttemptsHold',
         UNCHANGED <<vars, baseline, fingerprint, history>>,
         cut' # NoCut => attempt'[cut.baseline] = attempt[cut.baseline],
         \/ cut' = NoCut
         \/ cut' = cut
         \/ cut # NoCut /\ cut' = [cut EXCEPT !.phase = "OUTBOUND"]
  PROVE  CutoverInv'
  <1>1. UNCHANGED <<session, line, item, stock>>
    BY DEF vars
  <1>2. CountInv'
    BY CountStands
  <1>3. CutoverTypes'
    <2>1. 0 \in Count /\ 0 \in Sum
      BY CountConstants DEF CountConstants, Count, Sum
    <2>2. NoCut \in CutRecord
      BY <2>1 DEF NoCut, CutShape, CutRecord, NothingOpened
    <2>3. cut' \in CutRecord
      BY <2>2 DEF CutoverInv, CutoverTypes, CutRecord
    <2> QED
      BY <2>3 DEF CutoverInv, CutoverTypes
  <1>4. BaselinesHold'
    BY <1>1 DEF CutoverInv, BaselinesHold, Candidate
  <1>5. CutHolds'
    <2>1. CASE cut' = NoCut
      BY <2>1 DEF CutHolds
    <2>2. CASE /\ cut # NoCut
               /\ cut'.baseline = cut.baseline /\ cut'.by = cut.by
               /\ cut'.opened = cut.opened
      <3>1. \A s \in baseline[cut.baseline].sessions :
              SerializedOpenings(s)' = SerializedOpenings(s)
        BY <1>1 DEF SerializedOpenings
      <3>2. CASE cut' # NoCut
        BY <1>1, <2>2, <3>1, <3>2 DEF CutoverInv, CutHolds
      <3> QED
        BY <3>2 DEF CutHolds
    <2> QED
      BY <2>1, <2>2 DEF CutoverInv, CutoverTypes, CutRecord
  <1>6. EstablishedOnEvidence'
    BY <1>1, EvidenceStays DEF CutoverInv, EstablishedOnEvidence, Replays
  <1> QED
    BY <1>2, <1>3, <1>4, <1>5, <1>6 DEF CutoverInv

LEMMA CountOrMoveHolds ==
  ASSUME CutoverInv, CountOrMove
  PROVE  CutoverInv'
  <1>1. /\ Next /\ LockedStandsStill
        /\ history' = history \union {b \in Bucket : stock'[b] # stock[b]}
        /\ SeenMeanwhile \in [Bucket -> Sum]
        /\ cut' = [cut EXCEPT !.seen = SeenMeanwhile]
        /\ UNCHANGED <<baseline, fingerprint, attempt>>
    BY DEF CountOrMove
  <1>2. CountInv'
    BY <1>1, NextCounts DEF CutoverInv
  <1>3. \A bl \in Baseline : \A s \in baseline[bl].sessions :
          /\ s \in Session
          /\ session'[s] = session[s] /\ line'[s] = line[s] /\ item'[s] = item[s]
    <2>1. \A bl \in Baseline : \A s \in baseline[bl].sessions :
            s \in Session /\ Candidate(s)
      BY DEF CutoverInv, CutoverTypes, BaselineRecord, BaselinesHold
    <2> QED
      BY <1>1, <2>1, CandidatesStay DEF CutoverInv
  <1>4. \A bl \in Baseline :
          /\ \A v : Request(v, bl)' = Request(v, bl)
          /\ \A s \in baseline[bl].sessions :
               /\ Candidate(s)' = Candidate(s)
               /\ Incomplete(s)' <=> Incomplete(s)
               /\ SerializedOpenings(s)' = SerializedOpenings(s)
    BY <1>1, <1>3, EvidenceStays
  <1>5. CutoverTypes'
    BY <1>1 DEF CutoverInv, CutoverTypes, CutRecord
  <1>6. BaselinesHold'
    BY <1>1, <1>4 DEF CutoverInv, BaselinesHold
  <1>7. /\ cut'.baseline = cut.baseline /\ cut'.by = cut.by
        /\ cut'.opened = cut.opened
        /\ cut' # NoCut => cut # NoCut
    <2>1. cut' # NoCut => cut # NoCut
      <3>1. SUFFICES ASSUME cut = NoCut PROVE SeenMeanwhile = cut.seen
        BY <1>1 DEF CutoverInv, CutoverTypes, CutRecord
      <3> QED
        BY <3>1 DEF SeenMeanwhile, NoCut, CutShape
    <2> QED
      BY <1>1, <2>1 DEF CutoverInv, CutoverTypes, CutRecord
  <1>8. CutHolds'
    <2> SUFFICES ASSUME cut # NoCut
                 PROVE  /\ cut.baseline \in Baseline
                        /\ cut.by \in User
                        /\ attempt'[cut.baseline].phase = "READ"
                        /\ \A s \in baseline[cut.baseline].sessions :
                             \A a \in SerializedOpenings(s)' :
                               item'[s][a].observed \in Place
                        /\ \A b \in Bucket : cut.opened[b] > 0 =>
                             /\ b \notin history'
                             /\ stock'[b] = 0
                             /\ \E s \in baseline[cut.baseline].sessions :
                                  /\ line'[s][b] # NoLine
                                  /\ line'[s][b].counted = cut.opened[b]
                                  /\ line'[s][b].by # cut.by
      BY <1>1, <1>7 DEF CutHolds
    <2>1. /\ cut.baseline \in Baseline /\ cut.by \in User
          /\ attempt'[cut.baseline].phase = "READ"
      BY <1>1 DEF CutoverInv, CutHolds
    <2>2. \A s \in baseline[cut.baseline].sessions :
            \A a \in SerializedOpenings(s)' : item'[s][a].observed \in Place
      BY <1>3, <1>4, <2>1 DEF CutoverInv, CutHolds
    <2>3. ASSUME NEW b \in Bucket, cut.opened[b] > 0
          PROVE  /\ b \notin history'
                 /\ stock'[b] = 0
                 /\ \E s \in baseline[cut.baseline].sessions :
                      /\ line'[s][b] # NoLine
                      /\ line'[s][b].counted = cut.opened[b]
                      /\ line'[s][b].by # cut.by
      <3>1. /\ b \notin history /\ stock[b] = 0
            /\ \E s \in baseline[cut.baseline].sessions :
                 /\ line[s][b] # NoLine
                 /\ line[s][b].counted = cut.opened[b]
                 /\ line[s][b].by # cut.by
        BY <2>3 DEF CutoverInv, CutHolds
      <3>2. b[1] \in LockedRows.materials
        BY <3>1 DEF LockedRows
      <3>3. stock'[b] = stock[b]
        BY <1>1, <3>2 DEF LockedStandsStill
      <3> QED
        BY <1>1, <1>3, <2>1, <3>1, <3>3
    <2> QED
      BY <2>1, <2>2, <2>3
  <1>9. EstablishedOnEvidence'
    BY <1>1, <1>3, <1>4 DEF CutoverInv, EstablishedOnEvidence, Replays
  <1>10. AttemptsHold'
    BY <1>1, <1>4 DEF CutoverInv, AttemptsHold
  <1> QED
    BY <1>2, <1>5, <1>6, <1>8, <1>9, <1>10 DEF CutoverInv

\* A step of an attempt alone: it ends, goes on, or has been checked.
LEMMA AttemptsStand ==
  ASSUME CutoverInv, UNCHANGED <<line, item, baseline>>,
         attempt' = [bl \in Baseline |-> attempt'[bl]],
         \A bl \in Baseline :
           \/ attempt'[bl] = NoAttempt
           \/ attempt[bl] # NoAttempt
           \/ /\ baseline[bl].status = "PREPARED"
              /\ \A s \in baseline[bl].sessions : ~Incomplete(s)
  PROVE  AttemptsHold'
  <1>1. \A s : Incomplete(s)' <=> Incomplete(s)
    BY DEF Incomplete, HasLines
  <1>2. ASSUME NEW bl \in Baseline, attempt'[bl] # NoAttempt
        PROVE  /\ baseline'[bl].status = "PREPARED"
               /\ \A s \in baseline'[bl].sessions : ~Incomplete(s)'
    <2>1. /\ baseline[bl].status = "PREPARED"
          /\ \A s \in baseline[bl].sessions : ~Incomplete(s)
      BY <1>2 DEF CutoverInv, AttemptsHold
    <2> QED
      BY <1>1, <2>1
  <1>3. NoAttempt' = NoAttempt
    BY DEF NoAttempt, AttemptShape, NotRead
  <1> QED
    BY <1>2, <1>3 DEF AttemptsHold

LEMMA CheckSessionsHolds ==
  ASSUME CutoverInv, NEW bl \in Baseline, CheckSessions(bl)
  PROVE  CutoverInv'
  <1> DEFINE n == AttemptShape("CHECKED", NotRead)
  <1>1. /\ attempt[bl] = NoAttempt
        /\ baseline[bl].status = "PREPARED"
        /\ \A s \in baseline[bl].sessions : ~Incomplete(s)
        /\ attempt' = [attempt EXCEPT ![bl] = n]
        /\ UNCHANGED <<vars, baseline, fingerprint, history, cut>>
    BY DEF CheckSessions, Presentable
  <1> HIDE DEF n
  <1>2. UNCHANGED <<line, item>>
    BY <1>1 DEF vars
  <1>3. /\ attempt' = [b \in Baseline |-> attempt'[b]]
        /\ \A b \in Baseline : b # bl => attempt'[b] = attempt[b]
    BY <1>1 DEF CutoverInv, AttemptsHold
  <1>4. AttemptsHold'
    BY <1>1, <1>2, <1>3, AttemptsStand
  <1>5. cut' # NoCut => attempt'[cut.baseline] = attempt[cut.baseline]
    BY <1>1, <1>3, CutIsAttempt
  <1> QED
    BY <1>1, <1>4, <1>5, PassingHolds

LEMMA ReadTreeHolds ==
  ASSUME CutoverInv, NEW bl \in Baseline, ReadTree(bl)
  PROVE  CutoverInv'
  <1> DEFINE n == AttemptShape("READ", ScopesNow(bl))
  <1>1. /\ attempt[bl].phase = "CHECKED"
        /\ attempt' = [attempt EXCEPT ![bl] = n]
        /\ UNCHANGED <<vars, baseline, fingerprint, history, cut>>
    BY DEF ReadTree
  <1> HIDE DEF n
  <1>2. UNCHANGED <<line, item>> /\ attempt[bl] # NoAttempt
    BY <1>1 DEF vars, NoAttempt, AttemptShape
  <1>3. /\ attempt' = [b \in Baseline |-> attempt'[b]]
        /\ \A b \in Baseline : b # bl => attempt'[b] = attempt[b]
    BY <1>1 DEF CutoverInv, AttemptsHold
  <1>4. AttemptsHold'
    BY <1>1, <1>2, <1>3, AttemptsStand
  <1>5. cut' # NoCut => attempt'[cut.baseline] = attempt[cut.baseline]
    BY <1>1, <1>3 DEF CutoverInv, CutHolds
  <1> QED
    BY <1>1, <1>4, <1>5, PassingHolds

LEMMA RollBackHolds ==
  ASSUME CutoverInv, NEW bl \in Baseline, RollBack(bl)
  PROVE  CutoverInv'
  <1>1. /\ attempt' = [attempt EXCEPT ![bl] = NoAttempt]
        /\ cut' = IF cut.baseline = bl THEN NoCut ELSE cut
        /\ UNCHANGED <<vars, baseline, fingerprint, history>>
    BY DEF RollBack
  <1>2. UNCHANGED <<line, item>>
    BY <1>1 DEF vars
  <1>3. /\ attempt' = [b \in Baseline |-> attempt'[b]]
        /\ attempt'[bl] = NoAttempt
        /\ \A b \in Baseline : b # bl => attempt'[b] = attempt[b]
    BY <1>1 DEF CutoverInv, AttemptsHold
  <1>4. AttemptsHold'
    BY <1>1, <1>2, <1>3, AttemptsStand
  <1>5. cut' # NoCut => attempt'[cut.baseline] = attempt[cut.baseline]
    BY <1>1, <1>3 DEF CutoverInv, CutHolds
  <1> QED
    BY <1>1, <1>4, <1>5, PassingHolds

LEMMA CutoverKeeps == CutoverInv /\ [CutoverNext]_cutoverVars => CutoverInv'
  <1> SUFFICES ASSUME CutoverInv, [CutoverNext]_cutoverVars PROVE CutoverInv'
    OBVIOUS
  <1>1. CASE CountOrMove
    BY <1>1, CountOrMoveHolds
  <1>2. ASSUME NEW u \in User, NEW bl \in Baseline, NEW sessions \in SUBSET Session,
               Prepare(u, bl, sessions)
        PROVE  CutoverInv'
    BY <1>2, PrepareHolds
  <1>3. ASSUME NEW u \in User, NEW bl \in Baseline, NEW o \in OperationId,
               BeginEstablish(u, bl, o)
        PROVE  CutoverInv'
    BY <1>3, BeginHolds
  <1>4. ASSUME NEW bl \in Baseline, CheckSessions(bl) \/ ReadTree(bl) \/ RollBack(bl)
        PROVE  CutoverInv'
    BY <1>4, CheckSessionsHolds, ReadTreeHolds, RollBackHolds
  <1>5. ASSUME UNCHANGED <<vars, baseline, fingerprint, history, attempt>>
        PROVE  AttemptsHold'
    <2>1. UNCHANGED <<line, item>>
      BY <1>5 DEF vars
    <2>2. attempt' = [bl \in Baseline |-> attempt'[bl]]
      BY <1>5 DEF CutoverInv, AttemptsHold
    <2> QED
      BY <1>5, <2>1, <2>2, AttemptsStand
  <1>6. CASE ReadOutbound
    <2>1. cut # NoCut
      BY <1>6 DEF ReadOutbound, NoCut, CutShape
    <2> QED
      BY <1>5, <1>6, <2>1, PassingHolds DEF ReadOutbound
  <1>7. CASE CommitEstablish
    BY <1>7, CommitHolds
  <1>8. CASE UNCHANGED cutoverVars
    BY <1>5, <1>8, PassingHolds DEF cutoverVars
  <1>9. ASSUME NEW u \in User, NEW bl \in Baseline, NEW o \in OperationId,
               Replay(u, bl, o)
        PROVE  CutoverInv'
    BY <1>8, <1>9 DEF Replay
  <1> QED
    BY <1>1, <1>2, <1>3, <1>4, <1>6, <1>7, <1>8, <1>9 DEF CutoverNext

-----------------------------------------------------------------------------
(***************************************************************************)
(* What holds of every count and of every cutover                          *)
(***************************************************************************)
LEMMA AlwaysHolds == CutoverSpec => []CutoverInv
  BY CutoverStarts, CutoverKeeps, PTL DEF CutoverSpec

\* The count and the ledger agree, through recounts, rejections, reopened sessions
\* and cutovers: one COUNT_RECONCILIATION for each approved line, of its
\* difference, by somebody other than its counter (approve_count_discrepancy).
THEOREM ApprovalsMatchEffects == CutoverSpec => []EffectsMatchApprovals
  <1>1. CutoverInv => EffectsMatchApprovals
    BY DEF CutoverInv, CountInv
  <1> QED
    BY <1>1, AlwaysHolds, PTL

\* No entry arrives after the completion that it would belie: what is completed
\* stays counted (complete_physical_count).
THEOREM CompletedStaysCounted == CutoverSpec => []CountedBeforeCompleted
  <1>1. CutoverInv => CountedBeforeCompleted
    BY DEF CutoverInv, CountInv
  <1> QED
    BY <1>1, AlwaysHolds, PTL

\* A session's reconciliation is pending exactly while a discrepancy of it is
\* (complete_physical_count, approve_count_discrepancy, reject_count_discrepancy).
THEOREM ReconciliationFollowsLines == CutoverSpec => []ReconciliationSettled
  <1>1. CutoverInv => ReconciliationSettled
    BY DEF CutoverInv, CountInv
  <1> QED
    BY <1>1, AlwaysHolds, PTL

\* An established baseline rests on its evidence for good, and so the answer of
\* establish_inventory_baseline can be asked for again.
THEOREM BaselinesRestOnEvidence == CutoverSpec => []EstablishedOnEvidence
  <1>1. CutoverInv => EstablishedOnEvidence
    BY DEF CutoverInv
  <1> QED
    BY <1>1, AlwaysHolds, PTL

\* readiness.py's blockers follow from the invariant's facts about sessions, and
\* each is a reason of the service to refuse.
THEOREM BlockersAlwaysBlock == CutoverSpec => []BlockersBlock
  <1>1. ASSUME CutoverInv, NEW u \in User, NEW bl \in Baseline, Blocked(u, bl)
        PROVE  ~(u \in Establisher /\ Presentable(bl) /\ Accepts(u, bl, ScopesNow(bl)))
    <2> SUFFICES ASSUME Presentable(bl), Accepts(u, bl, ScopesNow(bl)) PROVE FALSE
      OBVIOUS
    <2> DEFINE sessions == baseline[bl].sessions
    <2>1. /\ ScopesDisjoint(sessions)
          /\ \A s \in sessions :
               /\ Candidate(s)
               /\ ~Incomplete(s)
               /\ ~QuantityDrifted(s, Scope(s))
               /\ ~PriorHistory(s)
               /\ ~SerializedDiscrepancy(s)
               /\ ~IdentityTaken(s)
               /\ ~CountedBy(u, s)
      <3>1. \A s \in sessions : ScopesNow(bl)[s] = Scope(s)
        BY <1>1 DEF ScopesNow, CutoverInv, CutoverTypes, BaselineRecord
      <3> QED
        BY <3>1 DEF Presentable, Accepts
    <2>2. /\ history \subseteq Bucket
          /\ \A other \in Baseline \ {bl} :
               sessions \intersect baseline[other].sessions = {}
      BY <1>1 DEF CutoverInv, CutoverTypes, BaselinesHold
    <2>3. ASSUME NEW s \in sessions, NEW b \in Bucket,
                 \/ line[s][b].resolution \in {"PENDING_COUNT", "NOT_COUNTED"}
                 \/ /\ line[s][b].counted # Nothing
                    /\ b \in history
                    /\ line[s][b].counted # line[s][b].expected
                 \/ /\ line[s][b].counted \notin {Nothing, 0}
                    /\ line[s][b].by = u
                    /\ b \notin history
          PROVE  FALSE
      <3>1. line[s][b].counted # Nothing => line[s][b] # NoLine
        BY DEF NoLine, LineShape
      <3>2. line[s][b].resolution \notin {"PENDING_COUNT", "NOT_COUNTED"}
        BY <2>1 DEF Incomplete, HasLines
      <3>3. ~PriorHistory(s) /\ ~CountedBy(u, s)
        BY <2>1
      <3>4. CASE /\ line[s][b].counted # Nothing
                 /\ b \in history
                 /\ line[s][b].counted # line[s][b].expected
        BY <3>1, <3>3, <3>4 DEF PriorHistory
      <3>5. CASE /\ line[s][b].counted \notin {Nothing, 0}
                 /\ line[s][b].by = u
                 /\ b \notin history
        BY <3>1, <3>3, <3>5 DEF CountedBy, QuantityOpenings
      <3> QED
        BY <2>3, <3>2, <3>4, <3>5
    <2>4. ASSUME NEW s \in sessions, NEW a \in Asset,
                 \/ item[s][a].resolution \in {"PENDING_COUNT", "NOT_COUNTED"}
                 \/ /\ item[s][a].expected # Nothing
                    /\ item[s][a].resolution # "NO_DISCREPANCY"
                 \/ /\ item[s][a] # NoItem
                    /\ item[s][a].expected = Nothing
                    /\ place[a] # Unknown \/ item[s][a].by = u
          PROVE  FALSE
      <3>1. item[s][a].resolution \notin {"PENDING_COUNT", "NOT_COUNTED"}
        BY <2>1 DEF Incomplete, HasLines
      <3>2. ~SerializedDiscrepancy(s) /\ ~IdentityTaken(s) /\ ~CountedBy(u, s)
        BY <2>1
      <3>3. CASE /\ item[s][a].expected # Nothing
                 /\ item[s][a].resolution # "NO_DISCREPANCY"
        BY <3>2, <3>3 DEF SerializedDiscrepancy
      <3>4. CASE /\ item[s][a] # NoItem
                 /\ item[s][a].expected = Nothing
                 /\ place[a] # Unknown \/ item[s][a].by = u
        BY <3>2, <3>4 DEF IdentityTaken, CountedBy, SerializedOpenings
      <3> QED
        BY <2>4, <3>1, <3>3, <3>4
    <2> QED
      BY <1>1, <2>1, <2>2, <2>3, <2>4 DEF Blocked
  <1>2. CutoverInv => BlockersBlock
    BY <1>1 DEF BlockersBlock
  <1> QED
    BY <1>2, AlwaysHolds, PTL

\* No count is lost to another, though two users count one line and the clock may
\* stand still or go back (counted_at as a compare-and-set token).
THEOREM NoCountIsLost == CutoverSpec => NoLostCount
  <1> DEFINE Step ==
        \A s \in Session :
          /\ \A b \in Bucket :
               \/ line[s][b] = NoLine
               \/ line'[s][b] = line[s][b]
               \/ line'[s][b].resolution \in {"APPROVED", "NOT_COUNTED"}
               \/ form[line'[s][b].by] =
                    FormShape(s, b, line[s][b].counted, line[s][b].at)
          /\ \A a \in Asset :
               \/ item[s][a] = NoItem
               \/ item'[s][a] = item[s][a]
               \/ form[item'[s][a].by] =
                    FormShape(s, a, item[s][a].observed, item[s][a].at)
  <1>1. ASSUME CutoverInv, [CutoverNext]_cutoverVars PROVE Step
    <2>1. CASE Next
      BY <1>1, <2>1, NothingIsOverwritten DEF CutoverInv
    <2>2. CASE UNCHANGED <<line, item>>
      BY <2>2
    <2>3. Next \/ UNCHANGED <<line, item>>
      BY <1>1 DEF CutoverNext, CountOrMove, Prepare, CheckSessions, ReadTree,
                  BeginEstablish, Replay, ReadOutbound, CommitEstablish, RollBack,
                  cutoverVars, vars
    <2> QED
      BY <2>1, <2>2, <2>3
  <1>2. CutoverInv /\ [CutoverNext]_cutoverVars => [Step]_vars
    BY <1>1
  <1> QED
    BY <1>2, AlwaysHolds, PTL DEF CutoverSpec, NoLostCount

\* An opening is the first the ledger knows of its bucket, whatever happens between
\* the check of establish_inventory_baseline and its commit.
THEOREM OpeningsAreFirst == CutoverSpec => OpeningsComeFirst
  <1> DEFINE Step ==
        \A bl \in Baseline, b \in Bucket :
          baseline'[bl].opened[b] # baseline[bl].opened[b]
            => b \notin history /\ stock[b] = 0
  <1>1. ASSUME CutoverInv, [CutoverNext]_cutoverVars PROVE Step
    <2>1. baseline \in [Baseline -> BaselineRecord] /\ cut \in CutRecord
      BY <1>1 DEF CutoverInv, CutoverTypes
    <2>2. CASE UNCHANGED baseline
      BY <2>2
    <2>3. ASSUME NEW u \in User, NEW bl \in Baseline, NEW sessions \in SUBSET Session,
                 Prepare(u, bl, sessions)
          PROVE  Step
      <3>1. baseline[bl].opened = NothingOpened
        BY <1>1, <2>3 DEF Prepare, CutoverInv, BaselinesHold
      <3>2. \A other \in Baseline : baseline'[other].opened = baseline[other].opened
        BY <2>1, <2>3, <3>1 DEF Prepare, BaselineShape
      <3> QED
        BY <3>2
    <2>4. CASE CommitEstablish
      <3>1. /\ cut # NoCut
            /\ baseline' = [baseline EXCEPT
                 ![cut.baseline] = BaselineShape("ESTABLISHED",
                    baseline[cut.baseline].sessions, cut.operation, cut.by, cut.opened)]
        BY <2>4 DEF CommitEstablish, NoCut, CutShape
      <3>2. /\ cut.baseline \in Baseline
            /\ baseline[cut.baseline].opened = NothingOpened
            /\ \A b \in Bucket : cut.opened[b] > 0 => b \notin history /\ stock[b] = 0
        BY <1>1, <3>1, CutIsAttempt DEF CutoverInv, CutHolds, BaselinesHold
      <3>3. \A bl \in Baseline :
              baseline'[bl].opened = IF bl = cut.baseline THEN cut.opened
                                                          ELSE baseline[bl].opened
        BY <2>1, <3>1, <3>2 DEF BaselineShape
      <3>4. \A b \in Bucket : NothingOpened[b] = 0 /\ cut.opened[b] \in Nat
        BY <2>1, CountConstants DEF NothingOpened, CutRecord, Count, CountConstants
      <3> QED
        BY <3>2, <3>3, <3>4
    <2> QED
      BY <1>1, <2>2, <2>3, <2>4
      DEF CutoverNext, CountOrMove, CheckSessions, ReadTree, BeginEstablish, Replay,
          ReadOutbound, RollBack, cutoverVars
  <1>2. CutoverInv /\ [CutoverNext]_cutoverVars => [Step]_cutoverVars
    BY <1>1
  <1> QED
    BY <1>2, AlwaysHolds, PTL DEF CutoverSpec, OpeningsComeFirst

-----------------------------------------------------------------------------
(***************************************************************************)
(* What is established is what was counted where the establishment looked. *)
(* Beyond CutoverInv this takes: a line tells what was counted of it       *)
(* (LinesTell), stock has a ledger line (StockIsPosted), and what the      *)
(* establishment has checked stays true until it commits (ChecksHold): it  *)
(* checked the locations that it had read, however old that reading was,   *)
(* and locked the same, so their stock and assets stay where they were.    *)
(* Where these locations are in the tree by then plays no part.            *)
(***************************************************************************)
LinesTell ==
  /\ \A s \in Session : session[s].status # "NONE" => session[s].scope \in Location
  /\ \A s \in Session, b \in Bucket :
       \/ line[s][b] = NoLine
       \/ line[s][b].counted \in Count
       \/ line[s][b].resolution \in {"PENDING_COUNT", "NOT_COUNTED"}
  /\ \A s \in Session, a \in Asset :
       item[s][a].resolution = "NO_DISCREPANCY" =>
         item[s][a].observed = item[s][a].expected

StockIsPosted == \A b \in Bucket : stock[b] # 0 => b \in history

\* Line b of s, where it has one, is opened, was counted as expected, or counts
\* nothing where there is nothing.
Settled(s, b) ==
  line[s][b] # NoLine =>
    \/ cut.opened[b] > 0
    \/ line[s][b].counted = line[s][b].expected
    \/ line[s][b].counted = 0 /\ stock[b] = 0

ChecksHold ==
  cut # NoCut => \A s \in baseline[cut.baseline].sessions :
    /\ ~QuantityDrifted(s, attempt[cut.baseline].scopes[s])
    /\ ~SerializedDrifted(s, attempt[cut.baseline].scopes[s])
    /\ ~SerializedDiscrepancy(s)
    /\ \A b \in Bucket : Settled(s, b)

\* Scopes are sets of locations, for the scope of a session is a location.
AttemptsTyped == attempt \in [Baseline -> AttemptRecord]

CountedInv ==
  /\ CutoverInv
  /\ AttemptsTyped
  /\ LinesTell
  /\ StockIsPosted
  /\ ChecksHold

\* What the steps of a count can do to its lines, and to the scopes of its sessions.
LEMMA LinesKeepTelling ==
  ASSUME CountInv, LinesTell, Next
  PROVE  LinesTell'
  <1>1. /\ session \in [Session -> SessionRecord]
        /\ line \in [Session -> [Bucket -> LineRecord]]
        /\ item \in [Session -> [Asset -> ItemRecord]]
        /\ TypeOK
    BY Types DEF CountInv
  <1>2. CASE UNCHANGED <<session, line, item>>
    BY <1>2 DEF LinesTell
  <1>3. ASSUME NEW s \in Session, NEW scope \in Location, NEW baseline_ \in BOOLEAN,
               Create(s, scope, baseline_)
        PROVE  LinesTell'
    <2>1. /\ session' = [session EXCEPT
                ![s] = SessionShape("DRAFT", "NOT_STARTED", scope, baseline_)]
          /\ UNCHANGED <<line, item>>
      BY <1>3 DEF Create
    <2>2. \A t \in Session : session'[t].status # "NONE" => session'[t].scope \in Location
      BY <1>1, <2>1 DEF LinesTell, SessionShape
    <2> QED
      BY <2>1, <2>2 DEF LinesTell
  <1>4. ASSUME NEW s \in Session, Start(s) PROVE LinesTell'
    <2>1. /\ session[s].status = "DRAFT"
          /\ session' = [session EXCEPT ![s].status = "STARTED"]
          /\ line' = [line EXCEPT ![s] = [b \in Bucket |->
               IF LocationOf(b) \in Subtree(session[s].scope) /\ stock[b] > 0
               THEN LineShape(stock[b], Nothing, Nothing, Nothing, "PENDING_COUNT")
               ELSE NoLine]]
          /\ item' = [item EXCEPT ![s] = [a \in Asset |->
               IF place[a] \in Place /\ place[a][1] \in Subtree(session[s].scope)
               THEN ItemShape(TRUE, place[a], Nothing, Nothing, Nothing, "PENDING_COUNT")
               ELSE NoItem]]
      BY <1>4 DEF Start
    <2>2. \A t \in Session : session'[t].status # "NONE" => session'[t].scope \in Location
      BY <1>1, <2>1 DEF LinesTell, SessionRecord
    <2>3. \A t \in Session : t # s => line'[t] = line[t] /\ item'[t] = item[t]
      BY <1>1, <2>1
    <2>4. \A b \in Bucket : line'[s][b] = NoLine \/ line'[s][b].resolution = "PENDING_COUNT"
      BY <1>1, <2>1 DEF LineShape
    <2>5. \A a \in Asset : item'[s][a].resolution # "NO_DISCREPANCY"
      BY <1>1, <2>1 DEF ItemShape, NoItem
    <2> QED
      BY <2>2, <2>3, <2>4, <2>5 DEF LinesTell
  <1>5. ASSUME UNCHANGED <<line, item>>, NEW s \in Session, NEW n,
               session' = [session EXCEPT ![s] = n],
               n.scope = session[s].scope, session[s].status # "NONE"
        PROVE  LinesTell'
    BY <1>1, <1>5 DEF LinesTell
  <1>6. ASSUME NEW s \in Session, Complete(s) PROVE LinesTell'
    <2> DEFINE n == [session[s] EXCEPT !.status = "COMPLETED",
                 !.reconciliation =
                    IF session[s].baseline \/ HasLines(s, {"PENDING_APPROVAL"})
                    THEN "PENDING" ELSE "COMPLETED"]
    <2>1. session' = [session EXCEPT ![s] = n] /\ UNCHANGED <<line, item>>
      BY <1>1, <1>6 DEF Complete, SessionRecord
    <2>2. n.scope = session[s].scope /\ session[s].status # "NONE"
      BY <1>1, <1>6 DEF Complete, SessionRecord
    <2> HIDE DEF n
    <2> QED
      BY <1>5, <2>1, <2>2
  <1>7. ASSUME NEW u \in User, NEW s \in Session, NEW b \in Bucket, Reject(u, s, b)
        PROVE  LinesTell'
    <2> DEFINE n == [session[s] EXCEPT !.status = "STARTED",
                                       !.reconciliation = "NOT_STARTED"]
    <2>1. session' = [session EXCEPT ![s] = n] /\ UNCHANGED <<line, item>>
      BY <1>1, <1>7 DEF Reject, SessionRecord
    <2>2. n.scope = session[s].scope /\ session[s].status # "NONE"
      BY <1>1, <1>7 DEF Reject, Eligible, SessionRecord
    <2> HIDE DEF n
    <2> QED
      BY <1>5, <2>1, <2>2
  <1>8. ASSUME NEW u \in User, NEW s \in Session, NEW b \in Bucket,
               NEW o \in OperationId, Approve(u, s, b, o)
        PROVE  LinesTell'
    <2>1. /\ line' = [line EXCEPT ![s][b].resolution = "APPROVED"]
          /\ session' = [session EXCEPT ![s].reconciliation =
               IF PendingBut(s, b) THEN @ ELSE "COMPLETED"]
          /\ item' = item
          /\ line[s][b].resolution = "PENDING_APPROVAL"
      BY <1>8 DEF Approve, Eligible
    <2>2. line[s][b].counted \in Count
      BY <2>1 DEF CountInv, PendingIsCounted
    <2>3. line'[s][b].counted = line[s][b].counted
      BY <1>1, <2>1 DEF LineRecord
    <2>4. \A t \in Session, c \in Bucket :
            (t = s /\ c = b) \/ line'[t][c] = line[t][c]
      BY <1>1, <2>1
    <2>5. \A t \in Session : session'[t].scope = session[t].scope
                             /\ session'[t].status = session[t].status
      BY <1>1, <2>1 DEF SessionRecord
    <2> QED
      BY <2>1, <2>2, <2>3, <2>4, <2>5 DEF LinesTell
  <1>9. ASSUME NEW s \in Session, NEW b \in Bucket, NEW n, LineEntry(s, b, n)
        PROVE  LinesTell'
    <2>1. /\ n.resolution = "NOT_COUNTED" \/ n.counted \in Count
          /\ line' = [line EXCEPT ![s][b] = n]
          /\ UNCHANGED <<session, item>>
      BY <1>9 DEF LineEntry
    <2>2. \A t \in Session, c \in Bucket :
            line'[t][c] = IF t = s /\ c = b THEN n ELSE line[t][c]
      BY <1>1, <2>1
    <2> QED
      BY <2>1, <2>2 DEF LinesTell
  <1>10. ASSUME NEW s \in Session, NEW a \in Asset, NEW n, ItemEntry(s, a, n)
         PROVE  LinesTell'
    <2>1. /\ n.resolution = "NO_DISCREPANCY" => n.observed = n.expected
          /\ item' = [item EXCEPT ![s][a] = n]
          /\ UNCHANGED <<session, line>>
      BY <1>10 DEF ItemEntry
    <2>2. \A t \in Session, c \in Asset :
            item'[t][c] = IF t = s /\ c = a THEN n ELSE item[t][c]
      BY <1>1, <2>1
    <2> QED
      BY <2>1, <2>2 DEF LinesTell
  <1> QED
    BY <1>1, <1>2, <1>3, <1>4, <1>6, <1>7, <1>8, <1>9, <1>10, Steps
    DEF OpenLine, OpenItem, Elsewhere

\* What is read as the subtree of a scope are locations.
LEMMA ScopesAreLocations ==
  ASSUME CutoverInv, LinesTell, NEW bl \in Baseline
  PROVE  ScopesNow(bl) \in [Session -> SUBSET Location]
  <1>1. ASSUME NEW s \in baseline[bl].sessions PROVE Scope(s) \subseteq Location
    <2>1. session[s].scope \in Location
      BY DEF CutoverInv, CutoverTypes, BaselineRecord, BaselinesHold, Candidate, LinesTell
    <2>2. \A l \in Location : Subtree(l) = BelowIn(Location, parent, l)
      BY Zenon DEF Subtree, BelowIn, Levels
    <2>3. BelowIn(Location, parent, session[s].scope) \subseteq Location
      BY <2>1, FiniteLocations, BelowIsSmallest DEF FiniteLocations
    <2> QED
      BY <2>1, <2>2, <2>3 DEF Scope
  <1> QED
    BY <1>1 DEF ScopesNow

LEMMA AttemptsKeepTypes ==
  ASSUME CountedInv, [CutoverNext]_cutoverVars
  PROVE  AttemptsTyped'
  <1>1. NoAttempt \in AttemptRecord /\ AttemptShape("CHECKED", NotRead) \in AttemptRecord
    BY DEF NoAttempt, AttemptShape, NotRead, AttemptRecord
  <1>2. \A bl \in Baseline : AttemptShape("READ", ScopesNow(bl)) \in AttemptRecord
    BY ScopesAreLocations DEF CountedInv, AttemptShape, AttemptRecord
  <1>3. \/ UNCHANGED attempt
        \/ \E bl : attempt' = [attempt EXCEPT ![bl] = NoAttempt]
        \/ \E bl : attempt' = [attempt EXCEPT ![bl] = AttemptShape("CHECKED", NotRead)]
        \/ \E bl \in Baseline :
             attempt' = [attempt EXCEPT ![bl] = AttemptShape("READ", ScopesNow(bl))]
    BY DEF CutoverNext, CountOrMove, Prepare, CheckSessions, ReadTree, BeginEstablish,
           Replay, ReadOutbound, CommitEstablish, RollBack, cutoverVars
  <1> QED
    BY <1>1, <1>2, <1>3 DEF CountedInv, AttemptsTyped

\* What is checked depends on the rows, on what was read and on what is established.
LEMMA ChecksUnchanged ==
  ASSUME CutoverInv, ChecksHold, UNCHANGED vars,
         cut' # NoCut => /\ cut # NoCut
                         /\ cut'.baseline = cut.baseline /\ cut'.opened = cut.opened
                         /\ baseline'[cut.baseline] = baseline[cut.baseline]
                         /\ attempt'[cut.baseline] = attempt[cut.baseline]
  PROVE  ChecksHold'
  <1>1. UNCHANGED <<session, line, item, parent, stock, place>>
    BY DEF vars
  <1>2. SUFFICES ASSUME cut' # NoCut, NEW s \in baseline'[cut'.baseline].sessions
                 PROVE  /\ ~QuantityDrifted(s, attempt[cut.baseline].scopes[s])'
                        /\ ~SerializedDrifted(s, attempt[cut.baseline].scopes[s])'
                        /\ ~SerializedDiscrepancy(s)'
                        /\ \A b \in Bucket : Settled(s, b)'
    BY DEF ChecksHold
  <1>3. /\ cut # NoCut /\ s \in baseline[cut.baseline].sessions
        /\ cut'.opened = cut.opened
        /\ (attempt[cut.baseline].scopes[s])' = attempt[cut.baseline].scopes[s]
    BY <1>2
  <1> DEFINE scope == attempt[cut.baseline].scopes[s]
  <1>4. /\ ~QuantityDrifted(s, scope) /\ ~SerializedDrifted(s, scope)
        /\ ~SerializedDiscrepancy(s) /\ \A b \in Bucket : Settled(s, b)
    BY <1>3 DEF ChecksHold
  <1>5. scope' = scope
    BY <1>3
  <1> HIDE DEF scope
  <1>6. ~QuantityDrifted(s, scope)' /\ ~SerializedDrifted(s, scope)'
    BY <1>1, <1>4, <1>5 DEF QuantityDrifted, SerializedDrifted, InScope
  <1>7. ~SerializedDiscrepancy(s)'
    BY <1>1, <1>4 DEF SerializedDiscrepancy, SerializedOpenings
  <1>8. \A b \in Bucket : Settled(s, b)'
    BY <1>1, <1>3, <1>4 DEF Settled
  <1> QED
    BY <1>6, <1>7, <1>8 DEF scope

\* What an establishment checks, it has checked of what it will post.
LEMMA ChecksBegin ==
  ASSUME CountedInv, NEW u \in User, NEW bl \in Baseline, NEW o \in OperationId,
         BeginEstablish(u, bl, o)
  PROVE  ChecksHold'
  <1> DEFINE scopes == attempt[bl].scopes
             sessions == baseline[bl].sessions
  <1>1. /\ Accepts(u, bl, scopes)
        /\ attempt[bl].phase = "READ"
        /\ cut' = CutShape(bl, u, o, Opened(bl), "INBOUND", stock)
        /\ UNCHANGED <<vars, baseline, fingerprint, history, attempt>>
    BY DEF BeginEstablish
  <1>2. cut'.baseline = bl /\ cut'.opened = Opened(bl) /\ scopes' = scopes
    BY <1>1 DEF CutShape
  <1>3. UNCHANGED <<session, line, item, parent, stock, place, baseline>>
    BY <1>1 DEF vars
  <1>4. line \in [Session -> [Bucket -> LineRecord]]
    BY Types DEF CountedInv, CutoverInv, CountInv
  <1>5. sessions \subseteq Session /\ history \subseteq Bucket
    BY DEF CountedInv, CutoverInv, CutoverTypes, BaselineRecord
  <1>6. ASSUME NEW s \in sessions
        PROVE  /\ ~Incomplete(s) /\ ~QuantityDrifted(s, scopes[s])
               /\ ~SerializedDrifted(s, scopes[s])
               /\ ~PriorHistory(s) /\ ~SerializedDiscrepancy(s)
    <2>1. attempt[bl] # NoAttempt
      BY <1>1 DEF NoAttempt, AttemptShape
    <2>2. ~Incomplete(s)
      BY <2>1 DEF CountedInv, CutoverInv, AttemptsHold
    <2> QED
      BY <1>1, <2>2 DEF Accepts
  <1> HIDE DEF scopes
  <1>7. ASSUME NEW s \in sessions, NEW b \in Bucket, line[s][b] # NoLine
        PROVE  \/ Opened(bl)[b] > 0
               \/ line[s][b].counted = line[s][b].expected
               \/ line[s][b].counted = 0 /\ stock[b] = 0
    <2>1. line[s][b].counted \in Count
      BY <1>5, <1>6, <1>7 DEF Incomplete, HasLines, CountedInv, LinesTell
    <2>2. CASE b \in history
      BY <1>6, <1>7, <2>2 DEF PriorHistory
    <2>3. CASE b \notin history /\ line[s][b].counted = 0
      BY <2>3 DEF CountedInv, StockIsPosted
    <2>4. CASE b \notin history /\ line[s][b].counted # 0
      <3> DEFINE S == {t \in baseline[bl].sessions : b \in QuantityOpenings(t)}
      <3>1. line[s][b].counted # Nothing
        BY <2>1, CountConstants DEF CountConstants, Count
      <3>2. s \in S
        BY <1>7, <2>4, <3>1 DEF QuantityOpenings
      <3>3. Opened(bl)[b] = line[CHOOSE t \in S : TRUE][b].counted
        BY <3>2 DEF Opened
      <3>4. PICK t \in S : Opened(bl)[b] = line[t][b].counted
        BY <3>2, <3>3
      <3>5. t \in Session /\ line[t][b].counted \notin {Nothing, 0}
        BY <1>5, <3>4 DEF QuantityOpenings
      <3>6. line[t][b].counted \in Count
        BY <1>4, <3>5 DEF LineRecord
      <3> QED
        BY <3>4, <3>5, <3>6 DEF Count
    <2> QED
      BY <2>2, <2>3, <2>4
  <1>8. ASSUME NEW s \in sessions
        PROVE  /\ ~QuantityDrifted(s, scopes[s])'
               /\ ~SerializedDrifted(s, scopes[s])'
               /\ ~SerializedDiscrepancy(s)'
    <2>1. (scopes[s])' = scopes[s]
      BY <1>2
    <2>2. ~QuantityDrifted(s, scopes[s])'
      BY <1>3, <1>6, <2>1 DEF QuantityDrifted
    <2>3. ~SerializedDrifted(s, scopes[s])'
      BY <1>3, <1>6, <2>1 DEF SerializedDrifted, InScope
    <2>4. ~SerializedDiscrepancy(s)'
      BY <1>3, <1>6 DEF SerializedDiscrepancy, SerializedOpenings
    <2> QED
      BY <2>2, <2>3, <2>4
  <1>9. \A s \in sessions, b \in Bucket : Settled(s, b)'
    BY <1>2, <1>3, <1>7 DEF Settled
  <1> QED
    BY <1>2, <1>3, <1>8, <1>9 DEF ChecksHold, scopes

\* And its locks keep it so: they are on the locations that it looks at.
LEMMA ChecksStand ==
  ASSUME CountedInv, CountOrMove
  PROVE  ChecksHold'
  <1>1. /\ cut' # NoCut => cut # NoCut
        /\ cut'.baseline = cut.baseline /\ cut'.opened = cut.opened
        /\ UNCHANGED <<baseline, attempt>>
    <2>1. cut = NoCut => SeenMeanwhile = cut.seen
      BY DEF SeenMeanwhile, NoCut, CutShape
    <2> QED
      BY <2>1 DEF CountOrMove, CountedInv, CutoverInv, CutoverTypes, CutRecord
  <1>2. SUFFICES ASSUME cut # NoCut, NEW s \in baseline[cut.baseline].sessions
                 PROVE  /\ ~QuantityDrifted(s, attempt[cut.baseline].scopes[s])'
                        /\ ~SerializedDrifted(s, attempt[cut.baseline].scopes[s])'
                        /\ ~SerializedDiscrepancy(s)'
                        /\ \A b \in Bucket : Settled(s, b)'
    BY <1>1 DEF ChecksHold
  <1> DEFINE scope == attempt[cut.baseline].scopes[s]
  <1>3. /\ ~QuantityDrifted(s, scope) /\ ~SerializedDrifted(s, scope)
        /\ ~SerializedDiscrepancy(s) /\ \A b \in Bucket : Settled(s, b)
    BY <1>2 DEF CountedInv, ChecksHold
  <1>4. scope' = scope /\ scope \subseteq LockedLocations
    BY <1>1, <1>2 DEF LockedLocations, LookedAt
  <1>5. line'[s] = line[s] /\ item'[s] = item[s] /\ place' = place
    BY <1>2, CutIsAttempt DEF CountedInv, CountOrMove, LockedStandsStill
  <1>6. \A b \in Bucket :
          LocationOf(b) \in scope \/ line[s][b] # NoLine => stock'[b] = stock[b]
    <2>1. \A b \in Bucket : line[s][b] # NoLine => b[1] \in LockedRows.materials
      BY DEF LockedRows
    <2> QED
      BY <1>2, <1>4, <2>1 DEF CountOrMove, LockedStandsStill
  <1> HIDE DEF scope
  <1>7. ~QuantityDrifted(s, scope)'
    BY <1>3, <1>4, <1>5, <1>6 DEF QuantityDrifted
  <1>8. ~SerializedDrifted(s, scope)' /\ ~SerializedDiscrepancy(s)'
    BY <1>3, <1>4, <1>5
    DEF SerializedDrifted, InScope, SerializedDiscrepancy, SerializedOpenings
  <1>9. \A b \in Bucket : Settled(s, b)'
    BY <1>1, <1>3, <1>5, <1>6 DEF Settled
  <1> QED
    BY <1>7, <1>8, <1>9 DEF scope

LEMMA CountedStarts == CutoverInit => CountedInv
  <1> SUFFICES ASSUME CutoverInit PROVE CountedInv
    OBVIOUS
  <1>1. LinesTell
    BY DEF CutoverInit, Init, LinesTell, NoSession, SessionShape, NoItem, ItemShape
  <1>2. StockIsPosted /\ ChecksHold
    BY DEF CutoverInit, Init, StockIsPosted, ChecksHold
  <1>3. AttemptsTyped
    BY DEF CutoverInit, AttemptsTyped, AttemptRecord, NoAttempt, AttemptShape, NotRead
  <1> QED
    BY <1>1, <1>2, <1>3, CutoverStarts DEF CountedInv

LEMMA CountedKeeps == CountedInv /\ [CutoverNext]_cutoverVars => CountedInv'
  <1> SUFFICES ASSUME CountedInv, [CutoverNext]_cutoverVars PROVE CountedInv'
    OBVIOUS
  <1>1. CutoverInv' /\ AttemptsTyped'
    BY CutoverKeeps, AttemptsKeepTypes DEF CountedInv
  <1>2. CASE CountOrMove
    <2>1. LinesTell'
      BY <1>2, LinesKeepTelling DEF CountedInv, CutoverInv, CountOrMove
    <2>2. StockIsPosted'
      BY <1>2 DEF CountedInv, StockIsPosted, CountOrMove
    <2> QED
      BY <1>1, <1>2, <2>1, <2>2, ChecksStand DEF CountedInv
  <1>3. ASSUME UNCHANGED <<session, line, item, stock, history>>, ChecksHold'
        PROVE  CountedInv'
    BY <1>1, <1>3 DEF CountedInv, LinesTell, StockIsPosted
  <1>4. ASSUME UNCHANGED <<vars, history>>, ChecksHold' PROVE CountedInv'
    BY <1>3, <1>4 DEF vars
  <1>5. ASSUME NEW u \in User, NEW bl \in Baseline, NEW sessions \in SUBSET Session,
               Prepare(u, bl, sessions)
        PROVE  CountedInv'
    <2>1. /\ baseline[bl].status = "NONE"
          /\ baseline' = [baseline EXCEPT ![bl] =
               BaselineShape("PREPARED", sessions, Nothing, Nothing, NothingOpened)]
          /\ UNCHANGED <<vars, fingerprint, history, attempt, cut>>
      BY <1>5 DEF Prepare
    <2>2. cut # NoCut => baseline'[cut.baseline] = baseline[cut.baseline]
      BY <2>1, CutIsAttempt DEF CountedInv, CutoverInv, CutoverTypes
    <2>3. ChecksHold'
      BY <2>1, <2>2, ChecksUnchanged DEF CountedInv
    <2> QED
      BY <1>4, <2>1, <2>3
  <1>6. ASSUME NEW u \in User, NEW bl \in Baseline, NEW o \in OperationId,
               BeginEstablish(u, bl, o)
        PROVE  CountedInv'
    BY <1>4, <1>6, ChecksBegin DEF BeginEstablish
  <1>7. CASE ReadOutbound
    <2>1. /\ cut' = [cut EXCEPT !.phase = "OUTBOUND"] /\ cut # NoCut
          /\ UNCHANGED <<vars, baseline, fingerprint, history, attempt>>
      BY <1>7 DEF ReadOutbound, NoCut, CutShape
    <2>2. cut'.baseline = cut.baseline /\ cut'.opened = cut.opened
      BY <2>1 DEF CountedInv, CutoverInv, CutoverTypes, CutRecord
    <2> QED
      BY <1>4, <2>1, <2>2, ChecksUnchanged DEF CountedInv
  <1>8. CASE CommitEstablish
    <2>1. /\ UNCHANGED <<session, line, item>>
          /\ stock' = [b \in Bucket |-> stock[b] + cut.opened[b]]
          /\ history' = history \union {b \in Bucket : cut.opened[b] > 0}
          /\ cut' = NoCut
      BY <1>8 DEF CommitEstablish
    <2>2. LinesTell'
      BY <2>1 DEF CountedInv, LinesTell
    <2>3. cut.opened \in [Bucket -> Count] /\ stock \in [Bucket -> Count]
      BY Types DEF CountedInv, CutoverInv, CountInv, CutoverTypes, CutRecord
    <2>4. MaxQuantity \in Nat
      BY CountConstants DEF CountConstants
    <2>5. \A b \in Bucket : cut.opened[b] > 0 \/ stock'[b] = stock[b]
      BY <2>1, <2>3, <2>4 DEF Count
    <2>6. StockIsPosted'
      BY <2>1, <2>5 DEF CountedInv, StockIsPosted
    <2>7. ChecksHold'
      BY <2>1 DEF ChecksHold
    <2> QED
      BY <1>1, <2>2, <2>6, <2>7 DEF CountedInv
  <1>9. ASSUME NEW bl \in Baseline, CheckSessions(bl) \/ ReadTree(bl) \/ RollBack(bl)
        PROVE  CountedInv'
    <2>1. /\ UNCHANGED <<vars, baseline, fingerprint, history>>
          /\ \E n : attempt' = [attempt EXCEPT ![bl] = n]
          /\ cut' # NoCut => cut' = cut
      BY <1>9 DEF CheckSessions, ReadTree, RollBack
    <2>2. cut' # NoCut => cut.baseline \in Baseline /\ cut.baseline # bl
      <3>1. CASE CheckSessions(bl)
        BY <3>1, CutIsAttempt DEF CheckSessions, CountedInv
      <3>2. CASE ReadTree(bl)
        BY <3>2 DEF ReadTree, CountedInv, CutoverInv, CutHolds
      <3>3. CASE RollBack(bl)
        BY <3>3, CutIsAttempt DEF RollBack, CountedInv
      <3> QED
        BY <1>9, <3>1, <3>2, <3>3
    <2>3. cut' # NoCut => attempt'[cut.baseline] = attempt[cut.baseline]
      BY <2>1, <2>2 DEF CountedInv, AttemptsTyped
    <2>4. ChecksHold'
      BY <2>1, <2>3, ChecksUnchanged DEF CountedInv
    <2> QED
      BY <1>4, <2>1, <2>4
  <1>10. CASE UNCHANGED cutoverVars
    BY <1>4, <1>10, ChecksUnchanged DEF cutoverVars, CountedInv
  <1>11. ASSUME NEW u \in User, NEW bl \in Baseline, NEW o \in OperationId,
                Replay(u, bl, o)
         PROVE  CountedInv'
    BY <1>10, <1>11 DEF Replay
  <1> QED
    BY <1>2, <1>5, <1>6, <1>7, <1>8, <1>9, <1>10, <1>11 DEF CutoverNext

LEMMA AlwaysCounted == CutoverSpec => []CountedInv
  BY CountedStarts, CountedKeeps, PTL DEF CutoverSpec

\* Only a commit establishes, and what it establishes is what was under way.
LEMMA EstablishedByCommit ==
  ASSUME CutoverInv, [CutoverNext]_cutoverVars, NEW bl \in Baseline,
         baseline[bl].status = "PREPARED", baseline'[bl].status = "ESTABLISHED"
  PROVE  CommitEstablish /\ bl = cut.baseline /\ cut # NoCut
  <1>1. baseline \in [Baseline -> BaselineRecord]
    BY DEF CutoverInv, CutoverTypes
  <1>2. baseline' # baseline
    OBVIOUS
  <1>3. ASSUME NEW u \in User, NEW other \in Baseline, NEW sessions \in SUBSET Session,
               Prepare(u, other, sessions)
        PROVE  FALSE
    BY <1>1, <1>3 DEF Prepare, BaselineShape
  <1>4. CommitEstablish
    BY <1>2, <1>3
    DEF CutoverNext, CountOrMove, CheckSessions, ReadTree, BeginEstablish, Replay,
        ReadOutbound, RollBack, cutoverVars
  <1>5. cut # NoCut
    BY <1>4 DEF CommitEstablish, NoCut, CutShape
  <1>6. bl = cut.baseline
    BY <1>1, <1>4 DEF CommitEstablish
  <1> QED
    BY <1>4, <1>5, <1>6

LEMMA CommitIsCounted ==
  ASSUME CountedInv, CommitEstablish, cut # NoCut, NEW bl, bl = cut.baseline
  PROVE  /\ \A b \in Bucket : LocationOf(b) \in LookedAt(bl) =>
              LET counts == {line[s][b].counted : s \in
                              {t \in baseline[bl].sessions : line[t][b] # NoLine}}
              IN  stock'[b] \in IF counts = {} THEN {0} ELSE counts
         /\ \A a \in Asset : place'[a] \in Place /\ place'[a][1] \in LookedAt(bl)
              => \E s \in baseline[bl].sessions : place'[a] = item[s][a].observed
  <1> DEFINE sessions == baseline[bl].sessions
  <1>1. /\ stock' = [b \in Bucket |-> stock[b] + cut.opened[b]]
        /\ place' = PlacesWithCandidates(sessions)
    BY DEF CommitEstablish
  <1>2. /\ cut.opened \in [Bucket -> Count] /\ stock \in [Bucket -> Count]
        /\ sessions \subseteq Session
        /\ MaxQuantity \in Nat
    BY CountConstants, Types
    DEF CountedInv, CutoverInv, CountInv, CutoverTypes, CutRecord, CutHolds,
        BaselineRecord, CountConstants
  <1>3. \A s \in sessions :
          /\ ~QuantityDrifted(s, attempt[bl].scopes[s])
          /\ ~SerializedDrifted(s, attempt[bl].scopes[s])
          /\ ~SerializedDiscrepancy(s)
          /\ \A b \in Bucket : Settled(s, b)
    BY DEF CountedInv, ChecksHold
  <1>4. ASSUME NEW b \in Bucket, LocationOf(b) \in LookedAt(bl)
        PROVE  LET counts == {line[s][b].counted : s \in
                               {t \in sessions : line[t][b] # NoLine}}
               IN  stock'[b] \in IF counts = {} THEN {0} ELSE counts
    <2> DEFINE counts == {line[s][b].counted : s \in {t \in sessions : line[t][b] # NoLine}}
    <2>0. SUFFICES stock'[b] \in counts \/ (stock'[b] = 0 /\ counts = {})
      OBVIOUS
    <2>1. stock'[b] = stock[b] + cut.opened[b]
      BY <1>1
    <2>2. \A s \in sessions : line[s][b] # NoLine => line[s][b].counted \in counts
      OBVIOUS
    <2>3. counts = {} \/ \E s \in sessions : line[s][b] # NoLine
      OBVIOUS
    <2> HIDE DEF counts
    <2>4. CASE cut.opened[b] > 0
      <3>1. /\ stock[b] = 0
            /\ \E s \in sessions : line[s][b] # NoLine /\ line[s][b].counted = cut.opened[b]
        BY <2>4 DEF CountedInv, CutoverInv, CutHolds
      <3>2. stock'[b] = cut.opened[b]
        BY <1>2, <2>1, <3>1 DEF Count
      <3> QED
        BY <2>2, <3>1, <3>2
    <2>5. CASE ~(cut.opened[b] > 0)
      <3>1. stock'[b] = stock[b]
        BY <1>2, <2>1, <2>5 DEF Count
      <3>2. PICK s \in sessions : LocationOf(b) \in attempt[bl].scopes[s]
        BY <1>4 DEF LookedAt
      <3>3. line[s][b].expected = stock[b]
        BY <1>3, <3>2 DEF QuantityDrifted
      <3>4. \A t \in sessions : line[t][b] # NoLine =>
              \/ line[t][b].counted = line[t][b].expected
              \/ line[t][b].counted = 0 /\ stock[b] = 0
        BY <1>3, <2>5 DEF Settled
      <3>5. CASE line[s][b] # NoLine
        BY <2>2, <3>1, <3>3, <3>4, <3>5
      <3>6. CASE line[s][b] = NoLine
        <4>1. stock[b] = 0
          BY <3>3, <3>6 DEF NoLine, LineShape
        <4>2. \A t \in sessions : line[t][b].expected = 0
          BY <1>3, <4>1 DEF QuantityDrifted
        <4>3. \A t \in sessions : line[t][b] # NoLine => line[t][b].counted = 0
          BY <3>4, <4>2
        <4> QED
          BY <2>2, <2>3, <3>1, <4>1, <4>3
      <3> QED
        BY <3>5, <3>6
    <2> QED
      BY <2>4, <2>5
  <1>5. ASSUME NEW a \in Asset, place'[a] \in Place, place'[a][1] \in LookedAt(bl)
        PROVE  \E s \in sessions : place'[a] = item[s][a].observed
    <2> DEFINE S == {t \in sessions : a \in SerializedOpenings(t)}
    <2>1. place'[a] = IF S = {} THEN place[a] ELSE item[CHOOSE t \in S : TRUE][a].observed
      BY <1>1 DEF PlacesWithCandidates
    <2>2. CASE S # {}
      <3>1. PICK t \in S : place'[a] = item[t][a].observed
        BY <2>1, <2>2
      <3> QED
        BY <3>1
    <2>3. CASE S = {}
      <3>1. place'[a] = place[a]
        BY <2>1, <2>3
      <3>2. PICK s \in sessions : place[a][1] \in attempt[bl].scopes[s]
        BY <1>5, <3>1 DEF LookedAt
      <3>3. InScope(a, attempt[bl].scopes[s])
        BY <1>5, <3>1, <3>2 DEF InScope
      <3>4. item[s][a].expected # Nothing /\ item[s][a].expected = place[a]
        BY <1>3, <3>3 DEF SerializedDrifted
      <3>5. item[s][a].resolution = "NO_DISCREPANCY"
        BY <1>3, <3>4 DEF SerializedDiscrepancy
      <3>6. item[s][a].observed = item[s][a].expected
        BY <1>2, <3>5 DEF CountedInv, LinesTell
      <3> QED
        BY <3>1, <3>4, <3>6
    <2> QED
      BY <2>2, <2>3
  <1> QED
    BY <1>4, <1>5

\* Every step of the services (Create to Reject, Prepare to RollBack) leaves a
\* state of the declared types: no stock or opened quantity leaves its range.
THEOREM CutoverTyping == CutoverSpec => []CutoverTypeOK
  <1>1. CountedInv => CutoverTypeOK
    BY DEF CountedInv, CutoverInv, CountInv, CutoverTypes, CutoverTypeOK, AttemptsTyped,
           BaselineRecord, AttemptRecord, CutRecord
  <1> QED
    BY <1>1, AlwaysCounted, PTL

\* Wherever establish_inventory_baseline looked, it makes the stock what was counted,
\* neither more nor less, though stock, assets and locations move at every moment
\* before, between and after its reading of the tree, its locks and its checks.
THEOREM EstablishmentsAreCounts == CutoverSpec => EstablishedIsCounted
  <1> DEFINE Step ==
        \A bl \in Baseline :
          LET sessions == baseline[bl].sessions
          IN  ( /\ baseline[bl].status = "PREPARED"
                /\ baseline'[bl].status = "ESTABLISHED" ) =>
                /\ \A b \in Bucket : LocationOf(b) \in LookedAt(bl) =>
                     LET counts == {line[s][b].counted : s \in
                                     {t \in sessions : line[t][b] # NoLine}}
                     IN  stock'[b] \in IF counts = {} THEN {0} ELSE counts
                /\ \A a \in Asset : place'[a] \in Place /\ place'[a][1] \in LookedAt(bl)
                     => \E s \in sessions : place'[a] = item[s][a].observed
  <1>1. ASSUME CountedInv, [CutoverNext]_cutoverVars PROVE Step
    <2> SUFFICES ASSUME NEW bl \in Baseline,
                        baseline[bl].status = "PREPARED",
                        baseline'[bl].status = "ESTABLISHED"
                 PROVE
          /\ \A b \in Bucket : LocationOf(b) \in LookedAt(bl) =>
               LET counts == {line[s][b].counted : s \in
                               {t \in baseline[bl].sessions : line[t][b] # NoLine}}
               IN  stock'[b] \in IF counts = {} THEN {0} ELSE counts
          /\ \A a \in Asset : place'[a] \in Place /\ place'[a][1] \in LookedAt(bl)
               => \E s \in baseline[bl].sessions : place'[a] = item[s][a].observed
      OBVIOUS
    <2>1. CommitEstablish /\ bl = cut.baseline /\ cut # NoCut
      BY <1>1, EstablishedByCommit DEF CountedInv
    <2> QED
      BY <1>1, <2>1, CommitIsCounted
  <1>2. CountedInv /\ [CutoverNext]_cutoverVars => [Step]_cutoverVars
    BY <1>1
  <1> QED
    BY <1>2, AlwaysCounted, PTL DEF CutoverSpec, EstablishedIsCounted

===============================================================================
