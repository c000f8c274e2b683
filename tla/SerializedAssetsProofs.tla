------------------------ MODULE SerializedAssetsProofs ------------------------
(***************************************************************************)
(* What holds of SerializedAssets for every set of workers, assets and     *)
(* requests, and that it implements AssetCustody.                          *)
(*                                                                         *)
(* The argument: a row is held by one transaction at a time                *)
(* (LocksExclusive); a transaction holds, or has still to lock, the row    *)
(* of its asset or asset code, of its target and of its original line, and *)
(* the asset's comes last (Covers); so what it read of rows that it holds  *)
(* is still true (Current) when it writes.  An asset's last issue is open  *)
(* exactly while it is issued (HistoryInv), so the next line is always one *)
(* that its replay can take (ReplayFits).                                  *)
(***************************************************************************)
EXTENDS AssetGuards, SequenceTheorems, InductionLemmas, TLAPS

LocksExclusive ==
  \A v, w \in Worker : v # w => held[v] \intersect held[w] = {}

\* The row by which a request has its asset to itself, locked last.
LastRow(r) == IF r.type = "RECEIPT" THEN CodeRow(r.asset) ELSE AssetRow(r.asset)

OriginalRows(r) == IF r.type = "RETURN" THEN {LineRow(r.original)} ELSE {}

TargetRows(r) == IF r.type = "ISSUE" THEN {} ELSE {LocationRow(r.target)}

\* The rows whose locks the commit of a request relies on.
Needed(r) == {LastRow(r)} \union OriginalRows(r) \union TargetRows(r)

\* Rows of masters; the preview of an asset that is unknown has none.
MaybeMasterRow ==
  {MaterialRow(m) : m \in Material \union {None}}
    \union {LocationRow(l) : l \in Location \union {None}}
    \union {ConditionRow(c) : c \in Condition \union {None}}

\* All rows that the transaction of a request ever locks.
RowsFor(o, r) ==
  {TransactionRow(o), LastRow(r)} \union OriginalRows(r) \union MaybeMasterRow

Typed ==
  /\ ledger \in [OperationId -> Line \union {NoLine}]
  /\ DOMAIN number = OperationId
  /\ custody \in [Asset -> Custody]
  /\ active \subseteq MasterRow
  /\ request \in [Worker -> Workload \union {NoJob}]
  /\ DOMAIN held = Worker
  /\ DOMAIN todo = Worker
  /\ refused \in [Worker -> BOOLEAN]
  /\ seen \in [Worker -> Custody]
  /\ DOMAIN drawn = Worker

Listed(x, s) == \E i \in 1 .. Len(s) : s[i] = x

\* The rows s that a transaction has still to lock, beside those it holds.
CoveredBy(o, r, h, s) ==
  /\ h \subseteq RowsFor(o, r)
  /\ s \in Seq(RowsFor(o, r))
  /\ \A x \in Needed(r) : x \in h \/ Listed(x, s)
  /\ s # <<>> => s[Len(s)] = LastRow(r)

Covers(w) ==
  /\ request[w] = NoJob \/ ~Reserved(w) => held[w] = {}
  /\ Reserved(w) => CoveredBy(OperationOf(w), LineOf(w), held[w], todo[w])

\* What was required of rows when they were locked.
Judged(w) ==
  LET r == LineOf(w) IN
  /\ held[w] \intersect MasterRow \subseteq active
  /\ OriginalRows(r) \subseteq held[w] => C!OriginalFits(r)
  /\ LastRow(r) \in held[w] => Fits(r, custody[r.asset])

Read(w) ==
  /\ seen[w] = custody[LineOf(w).asset]
  /\ drawn[w] = C!NextNumber(LineOf(w).asset)

Current(w) ==
  Reserved(w) =>
    /\ ledger[OperationOf(w)] = NoLine
    /\ ~refused[w] => Judged(w) /\ (todo[w] = <<>> => Read(w))

IInv ==
  /\ Typed
  /\ LocksExclusive
  /\ \A w \in Worker : Covers(w)
  /\ \A w \in Worker : Current(w)
  /\ AssetsAtUsableLocations

-----------------------------------------------------------------------------
(***************************************************************************)
(* Lemmas about requests and rows                                          *)
(***************************************************************************)

\* A request of the workload is a well-formed line under an identifier.
LEMMA JobFacts ==
  ASSUME NEW job \in Workload
  PROVE  /\ job[1] \in OperationId
         /\ job[2] \in Line
         /\ job # NoJob
         /\ job[2].asset \in Asset
         /\ job[2].type # "ISSUE" => job[2].target \in Location
         /\ job[2].type = "RETURN" => job[2].original \in OperationId
         /\ job[2].type = "RECEIPT" => /\ job[2].material \in Material
                                       /\ job[2].condition \in Condition
         /\ job[2].type = "TRANSFER" => job[2].source \in Location
                                       /\ job[2].source # job[2].target
         /\ job[2].type = "ISSUE" => job[2].source \in Location
                                    /\ job[2].target = None
         /\ job[2].type \in {"RECEIPT", "RETURN"} => job[2].source = None
         /\ job[2].type # "RETURN" => job[2].original = NoOperation
         /\ TargetRows(job[2]) \subseteq MasterRow
  <1>1. job[1] \in OperationId /\ job[2] \in Line
    BY AssetConstants DEF AssetConstants
  <1>2. job # NoJob
    BY <1>1, AssetConstants DEF AssetConstants, NoJob
  <1>3. /\ job[2].type \in {"RECEIPT", "ISSUE", "RETURN", "TRANSFER"}
        /\ job[2].asset \in Asset
        /\ job[2].material \in Material \union {None}
        /\ job[2].condition \in Condition \union {None}
        /\ job[2].source \in Location \union {None}
        /\ job[2].target \in Location \union {None}
        /\ job[2].original \in OperationId \union {NoOperation}
    BY <1>1 DEF Line
  <1>4. job[2].type # "ISSUE" => job[2].target \in Location
    BY <1>3, AssetConstants DEF AssetConstants
  <1>5. job[2].type = "RETURN" => job[2].original \in OperationId
    BY <1>3, AssetConstants DEF AssetConstants
  <1>6. job[2].type = "RECEIPT" => /\ job[2].material \in Material
                                   /\ job[2].condition \in Condition
    BY <1>3, AssetConstants DEF AssetConstants
  <1>7. /\ job[2].type = "TRANSFER" => job[2].source \in Location
                                      /\ job[2].source # job[2].target
        /\ job[2].type = "ISSUE" => job[2].source \in Location
                                   /\ job[2].target = None
        /\ job[2].type \in {"RECEIPT", "RETURN"} => job[2].source = None
        /\ job[2].type # "RETURN" => job[2].original = NoOperation
    BY <1>3, AssetConstants DEF AssetConstants
  <1>8. TargetRows(job[2]) \subseteq MasterRow
    BY <1>3, <1>4 DEF TargetRows, MasterRow
  <1> QED
    BY <1>1, <1>2, <1>3, <1>4, <1>5, <1>6, <1>7, <1>8

\* A transaction that has inserted its header works on a request.
LEMMA AtWork ==
  ASSUME Typed, NEW w \in Worker, Covers(w), Reserved(w)
  PROVE  /\ request[w] \in Workload
         /\ OperationOf(w) \in OperationId
         /\ LineOf(w) \in Line
         /\ LineOf(w).asset \in Asset
         /\ CoveredBy(OperationOf(w), LineOf(w), held[w], todo[w])
  <1>1. request[w] # NoJob
    BY DEF Covers, Reserved
  <1>2. request[w] \in Workload
    BY <1>1 DEF Typed
  <1> QED
    BY <1>2, JobFacts DEF OperationOf, LineOf, Covers

\* The rows of an asset and of a line are no masters and no headers, and a
\* transaction locks no others of their kind.
LEMMA RowFacts ==
  ASSUME NEW o, NEW r
  PROVE  /\ LastRow(r) \notin MaybeMasterRow
         /\ LastRow(r) # TransactionRow(o)
         /\ LastRow(r) \notin OriginalRows(r)
         /\ MasterRow \subseteq MaybeMasterRow
         /\ \A p : TransactionRow(p) \notin MaybeMasterRow
         /\ \A p : LineRow(p) \notin MaybeMasterRow
         /\ \A p : LineRow(p) \in RowsFor(o, r) => LineRow(p) \in OriginalRows(r)
         /\ \A a : AssetRow(a) \in RowsFor(o, r) => AssetRow(a) = LastRow(r)
         /\ \A a : CodeRow(a) \in RowsFor(o, r) => CodeRow(a) = LastRow(r)
  BY DEF LastRow, OriginalRows, MaybeMasterRow, MasterRow, RowsFor, AssetRow,
         CodeRow, LineRow, TransactionRow, MaterialRow, LocationRow, ConditionRow

\* Five rows, as a transfer appends them, in their order.
LEMMA FiveRows ==
  ASSUME NEW a, NEW b, NEW c, NEW d, NEW e
  PROVE  <<a>> \o <<b, c>> \o <<d, e>> = <<a, b, c, d, e>>
  <1> DEFINE S == {a, b, c, d, e}
             x == <<a>>
             y == <<b, c>>
             z == <<d, e>>
             s == x \o y
             t == s \o z
             u == <<a, b, c, d, e>>
  <1>1. /\ x \in Seq(S) /\ y \in Seq(S) /\ z \in Seq(S) /\ u \in Seq(S)
        /\ Len(x) = 1 /\ Len(y) = 2 /\ Len(z) = 2 /\ Len(u) = 5
        /\ x[1] = a /\ y[1] = b /\ y[2] = c /\ z[1] = d /\ z[2] = e
        /\ u[1] = a /\ u[2] = b /\ u[3] = c /\ u[4] = d /\ u[5] = e
    OBVIOUS
  <1> HIDE DEF S, x, y, z, u
  <1>2. /\ s \in Seq(S) /\ Len(s) = Len(x) + Len(y)
        /\ \A i \in 1 .. Len(x) + Len(y) :
             s[i] = IF i <= Len(x) THEN x[i] ELSE y[i - Len(x)]
    BY <1>1, ConcatProperties
  <1> HIDE DEF s
  <1>3. /\ t \in Seq(S) /\ Len(t) = Len(s) + Len(z)
        /\ \A i \in 1 .. Len(s) + Len(z) :
             t[i] = IF i <= Len(s) THEN s[i] ELSE z[i - Len(s)]
    <2>1. s \in Seq(S) /\ z \in Seq(S)
      BY <1>1, <1>2
    <2> QED
      BY <2>1, ConcatProperties
  <1> HIDE DEF t
  <1>4. s[1] = a /\ s[2] = b /\ s[3] = c /\ Len(s) = 3
    BY <1>1, <1>2
  <1>5. t[1] = a /\ t[2] = b /\ t[3] = c /\ t[4] = d /\ t[5] = e /\ Len(t) = 5
    BY <1>1, <1>3, <1>4
  <1>6. \A i \in 1 .. 5 : t[i] = u[i]
    BY <1>1, <1>5
  <1>7. t = u
    BY <1>1, <1>3, <1>5, <1>6, SeqEqual
  <1> QED
    BY <1>7 DEF t, s, u, x, y, z

\* What a transaction sets out to lock covers what its commit relies on, the
\* asset last.
LEMMA OrderCovers ==
  ASSUME NEW job \in Workload, NEW at \in Custody
  PROVE  CoveredBy(job[1], job[2], {TransactionRow(job[1])},
                   RowsInOrder(job[2], at))
  <1> DEFINE o == job[1]
             r == job[2]
             s == RowsInOrder(r, at)
             R == RowsFor(o, r)
  <1>1. /\ r \in Line
        /\ r.type # "ISSUE" => r.target \in Location
        /\ r.type = "RECEIPT" => r.material \in Material /\ r.condition \in Condition
        /\ r.type = "TRANSFER" => r.source \in Location
    BY JobFacts
  <1>2. /\ r.type \in {"RECEIPT", "ISSUE", "RETURN", "TRANSFER"}
        /\ r.source \in Location \union {None}
        /\ r.condition \in Condition \union {None}
    BY <1>1 DEF Line
  <1>3. at.material \in Material \union {None}
        /\ at.condition \in Condition \union {None}
    BY DEF Custody, Unregistered
  <1>4. TransactionRow(o) \in R /\ LastRow(r) \in R
        /\ OriginalRows(r) \subseteq R /\ MaybeMasterRow \subseteq R
    BY DEF RowsFor
  <1>5. MaterialRow(at.material) \in R /\ ConditionRow(at.condition) \in R
        /\ ConditionRow(r.condition) \in R
    BY <1>2, <1>3, <1>4 DEF MaybeMasterRow
  <1>6. CASE r.type = "RECEIPT"
    <2>1. s = <<MaterialRow(r.material), LocationRow(r.target),
                ConditionRow(r.condition), LastRow(r)>>
      BY <1>6 DEF RowsInOrder, LastRow
    <2>2. MaterialRow(r.material) \in R /\ LocationRow(r.target) \in R
      BY <1>1, <1>4, <1>6 DEF MaybeMasterRow
    <2> HIDE DEF s, R
    <2>3. s \in Seq(R) /\ Len(s) = 4
          /\ s[2] = LocationRow(r.target) /\ s[4] = LastRow(r) /\ s # <<>>
      BY <1>4, <1>5, <2>1, <2>2
    <2>4. Needed(r) = {LastRow(r), LocationRow(r.target)}
      BY <1>6 DEF Needed, OriginalRows, TargetRows
    <2> QED
      BY <1>4, <2>3, <2>4 DEF CoveredBy, Listed, R, s
  <1>7. CASE r.type = "ISSUE"
    <2>1. s = <<MaterialRow(at.material), LocationRow(r.source),
                ConditionRow(r.condition), LastRow(r)>>
      BY <1>7 DEF RowsInOrder, LastRow
    <2>2. LocationRow(r.source) \in R
      BY <1>2, <1>4 DEF MaybeMasterRow
    <2> HIDE DEF s, R
    <2>3. s \in Seq(R) /\ Len(s) = 4 /\ s[4] = LastRow(r) /\ s # <<>>
      BY <1>4, <1>5, <2>1, <2>2
    <2>4. Needed(r) = {LastRow(r)}
      BY <1>7 DEF Needed, OriginalRows, TargetRows
    <2> QED
      BY <1>4, <2>3, <2>4 DEF CoveredBy, Listed, R, s
  <1>8. CASE r.type = "RETURN"
    <2>1. s = <<LineRow(r.original), MaterialRow(at.material),
                LocationRow(r.target), ConditionRow(at.condition), LastRow(r)>>
      BY <1>8 DEF RowsInOrder, LastRow
    <2>2. LocationRow(r.target) \in R /\ LineRow(r.original) \in R
      BY <1>1, <1>4, <1>8 DEF MaybeMasterRow, OriginalRows
    <2> HIDE DEF s, R
    <2>3. s \in Seq(R) /\ Len(s) = 5 /\ s[1] = LineRow(r.original)
          /\ s[3] = LocationRow(r.target) /\ s[5] = LastRow(r) /\ s # <<>>
      BY <1>4, <1>5, <2>1, <2>2
    <2>4. Needed(r) = {LastRow(r), LocationRow(r.target), LineRow(r.original)}
      BY <1>8 DEF Needed, OriginalRows, TargetRows
    <2> QED
      BY <1>4, <2>3, <2>4 DEF CoveredBy, Listed, R, s
  <1>9. CASE r.type = "TRANSFER"
    <2>1. PICK p, q : /\ LocationRows(r) = <<p, q>>
                      /\ {p, q} = {LocationRow(r.source), LocationRow(r.target)}
      BY DEF LocationRows
    <2>2. s = <<MaterialRow(at.material), p, q, ConditionRow(r.condition),
                LastRow(r)>>
      BY <1>9, <2>1, FiveRows DEF RowsInOrder, LastRow
    <2>3. p \in R /\ q \in R
      <3>1. {LocationRow(r.source), LocationRow(r.target)} \subseteq R
        BY <1>1, <1>4, <1>9 DEF MaybeMasterRow
      <3> QED
        BY <2>1, <3>1
    <2> HIDE DEF s, R
    <2>4. s \in Seq(R) /\ Len(s) = 5 /\ s[2] = p /\ s[3] = q
          /\ s[5] = LastRow(r) /\ s # <<>>
      BY <1>4, <1>5, <2>2, <2>3
    <2>5. Needed(r) = {LastRow(r), LocationRow(r.target)}
      BY <1>9 DEF Needed, OriginalRows, TargetRows
    <2>6. LocationRow(r.target) = p \/ LocationRow(r.target) = q
      BY <2>1
    <2>7. Listed(LocationRow(r.target), s) /\ Listed(LastRow(r), s)
      BY <2>4, <2>6 DEF Listed
    <2> QED
      BY <1>4, <2>4, <2>5, <2>7 DEF CoveredBy, R, s
  <1> QED
    BY <1>2, <1>6, <1>7, <1>8, <1>9

\* Locking the next row keeps the others listed; with the last, all is held.
LEMMA NextRowCovers ==
  ASSUME NEW o, NEW r, NEW h, NEW s, CoveredBy(o, r, h, s), s # <<>>
  PROVE  /\ CoveredBy(o, r, h \union {Head(s)}, Tail(s))
         /\ Head(s) \in RowsFor(o, r)
         /\ Len(s) = 1 => Head(s) = LastRow(r)
         /\ Tail(s) = <<>> => Len(s) = 1
  <1> DEFINE R == RowsFor(o, r)
             t == Tail(s)
  <1>1. s \in Seq(R) /\ h \subseteq R /\ s[Len(s)] = LastRow(r)
    BY DEF CoveredBy
  <1> HIDE DEF R
  <1>2. /\ Head(s) \in R /\ t \in Seq(R) /\ Len(t) = Len(s) - 1
        /\ \A i \in 1 .. Len(t) : t[i] = s[i + 1]
    BY <1>1, HeadTailProperties
  <1>3. Len(s) \in Nat \ {0} /\ Len(t) \in Nat /\ Head(s) = s[1]
        /\ (t = <<>> <=> Len(t) = 0)
    <2>1. Len(s) \in Nat \ {0}
      BY <1>1, EmptySeq
    <2>2. Len(t) \in Nat
      BY <1>2, LenProperties
    <2>3. t = <<>> => Len(t) = 0
      BY EmptySeq
    <2>4. t # <<>> => Len(t) # 0
      BY <1>2, EmptySeq
    <2>5. Head(s) = s[1]
      OBVIOUS
    <2> QED
      BY <2>1, <2>2, <2>3, <2>4, <2>5
  <1> HIDE DEF t
  <1>4. ASSUME NEW x, Listed(x, s)
        PROVE  x = Head(s) \/ Listed(x, t)
    <2>1. PICK i \in 1 .. Len(s) : s[i] = x
      BY <1>4 DEF Listed
    <2>2. CASE i = 1
      BY <2>1, <2>2, <1>3
    <2>3. CASE i # 1
      <3>1. i - 1 \in 1 .. Len(t) /\ (i - 1) + 1 = i
        BY <2>1, <2>3, <1>2, <1>3
      <3>2. t[i - 1] = s[i]
        BY <3>1, <1>2
      <3> QED
        BY <2>1, <3>1, <3>2 DEF Listed
    <2> QED
      BY <2>2, <2>3
  <1>5. \A x \in Needed(r) : x \in h \union {Head(s)} \/ Listed(x, t)
    BY <1>4 DEF CoveredBy
  <1>6. t # <<>> => t[Len(t)] = LastRow(r)
    <2>1. SUFFICES ASSUME t # <<>> PROVE t[Len(t)] = LastRow(r)
      OBVIOUS
    <2>2. Len(t) \in 1 .. Len(t) /\ Len(t) + 1 = Len(s)
      BY <2>1, <1>2, <1>3
    <2> QED
      BY <2>2, <1>1, <1>2
  <1>7. Len(s) = 1 => Head(s) = LastRow(r)
    BY <1>1, <1>3
  <1>8. t = <<>> => Len(s) = 1
    BY <1>2, <1>3
  <1>9. CoveredBy(o, r, h \union {Head(s)}, t)
    BY <1>1, <1>2, <1>5, <1>6 DEF CoveredBy, R
  <1> QED
    BY <1>2, <1>7, <1>8, <1>9 DEF R, t

-----------------------------------------------------------------------------
(***************************************************************************)
(* What other transactions do not disturb                                  *)
(***************************************************************************)

\* Nothing that belongs to worker v changes.
Aside(v) ==
  /\ request'[v] = request[v] /\ held'[v] = held[v] /\ todo'[v] = todo[v]
  /\ refused'[v] = refused[v] /\ seen'[v] = seen[v] /\ drawn'[v] = drawn[v]

\* A transaction that stands aside still covers what it needs.
LEMMA CoversAside ==
  ASSUME NEW v \in Worker, Aside(v), Covers(v)
  PROVE  Covers(v)'
  BY DEF Aside, Covers, Reserved, OperationOf, LineOf

\* While no table changes, what it has read stays true.
LEMMA CurrentAside ==
  ASSUME NEW v \in Worker, Aside(v), Current(v), UNCHANGED <<data, active>>
  PROVE  Current(v)'
  <1>1. /\ ledger' = ledger /\ number' = number /\ custody' = custody
        /\ active' = active
    BY DEF data
  <1>2. \A r : C!OriginalFits(r)' <=> C!OriginalFits(r)
    BY <1>1 DEF C!OriginalFits
  <1>3. \A a : C!NextNumber(a)' = C!NextNumber(a)
    BY <1>1 DEF C!NextNumber, C!EventsOf
  <1>4. /\ Reserved(v)' <=> Reserved(v)
        /\ OperationOf(v)' = OperationOf(v) /\ LineOf(v)' = LineOf(v)
    BY DEF Aside, Reserved, OperationOf, LineOf
  <1>5. Judged(v) => Judged(v)'
    BY <1>1, <1>2, <1>4 DEF Judged, Aside
  <1>6. Read(v) => Read(v)'
    BY <1>1, <1>3, <1>4 DEF Read, Aside
  <1> QED
    BY <1>1, <1>4, <1>5, <1>6 DEF Current, Aside

\* The end of a transaction releases its rows and changes no other's.
LEMMA FinishFacts ==
  ASSUME IInv, NEW w \in Worker, Finish(w)
  PROVE  /\ request' \in [Worker -> Workload \union {NoJob}]
         /\ DOMAIN held' = Worker /\ DOMAIN todo' = Worker
         /\ refused' \in [Worker -> BOOLEAN] /\ seen' \in [Worker -> Custody]
         /\ DOMAIN drawn' = Worker
         /\ LocksExclusive'
         /\ \A v \in Worker : Covers(v)'
         /\ Current(w)'
         /\ \A v \in Worker \ {w} : Aside(v)
  <1>1. Unregistered \in Custody
    BY DEF Custody
  <1>2. /\ request' \in [Worker -> Workload \union {NoJob}]
        /\ DOMAIN held' = Worker /\ DOMAIN todo' = Worker
        /\ refused' \in [Worker -> BOOLEAN] /\ seen' \in [Worker -> Custody]
        /\ DOMAIN drawn' = Worker
    BY <1>1 DEF IInv, Typed, Finish
  <1>3. /\ request'[w] = NoJob /\ held'[w] = {}
        /\ \A v \in Worker \ {w} : Aside(v)
    BY DEF IInv, Typed, Finish, Aside
  <1>4. LocksExclusive'
    <2> SUFFICES ASSUME NEW u \in Worker, NEW v \in Worker, u # v
                 PROVE  held'[u] \intersect held'[v] = {}
      BY DEF LocksExclusive
    <2>1. CASE u = w \/ v = w
      BY <1>3, <2>1
    <2>2. CASE u # w /\ v # w
      BY <1>3, <2>2 DEF IInv, LocksExclusive, Aside
    <2> QED
      BY <2>1, <2>2
  <1>5. ~Reserved(w)'
    BY <1>3 DEF Reserved
  <1>6. Covers(w)' /\ Current(w)'
    BY <1>3, <1>5 DEF Covers, Current
  <1>7. \A v \in Worker \ {w} : Covers(v)'
    BY <1>3, CoversAside DEF IInv
  <1> QED
    BY <1>2, <1>3, <1>4, <1>6, <1>7

\* A transaction that ends without writing preserves everything.
LEMMA EndKeeps ==
  ASSUME IInv, NEW w \in Worker, Finish(w), UNCHANGED <<data, active>>
  PROVE  IInv'
  <1>1. Typed'
    BY FinishFacts DEF IInv, Typed, data
  <1>2. \A v \in Worker : Current(v)'
    BY FinishFacts, CurrentAside DEF IInv
  <1>3. AssetsAtUsableLocations'
    BY DEF IInv, AssetsAtUsableLocations, data
  <1> QED
    BY <1>1, <1>2, <1>3, FinishFacts DEF IInv

\* A new request holds nothing.
LEMMA SubmitKeeps ==
  ASSUME IInv, NEW w \in Worker, NEW job \in Workload, Submit(w, job)
  PROVE  IInv'
  <1>1. /\ request[w] = NoJob /\ request' = [request EXCEPT ![w] = job]
        /\ held' = held /\ todo' = todo /\ refused' = refused /\ seen' = seen
        /\ drawn' = drawn /\ UNCHANGED <<data, active>>
    BY DEF Submit
  <1>2. held'[w] = {}
    BY <1>1 DEF IInv, Covers
  <1>3. ~Reserved(w)'
    BY <1>2 DEF Reserved
  <1>4. Covers(w)' /\ Current(w)'
    BY <1>2, <1>3 DEF Covers, Current
  <1>5. \A v \in Worker \ {w} : Aside(v)
    BY <1>1 DEF IInv, Typed, Aside
  <1>6. \A v \in Worker : Covers(v)' /\ Current(v)'
    BY <1>1, <1>4, <1>5, CoversAside, CurrentAside DEF IInv
  <1>7. Typed'
    BY <1>1 DEF IInv, Typed, data
  <1>8. LocksExclusive' /\ AssetsAtUsableLocations'
    BY <1>1 DEF IInv, LocksExclusive, AssetsAtUsableLocations, data
  <1> QED
    BY <1>6, <1>7, <1>8 DEF IInv

\* A header inserted holds its own row only, and covers with what it lists.
LEMMA ReserveKeeps ==
  ASSUME IInv, NEW w \in Worker, Reserve(w)
  PROVE  IInv'
  <1>1. CASE Finish(w)
    BY <1>1, EndKeeps DEF Reserve
  <1>2. CASE ~Finish(w)
    <2> DEFINE o == OperationOf(w)
               r == LineOf(w)
               at == custody[r.asset]
    <2>1. /\ request[w] # NoJob /\ Free(w, TransactionRow(o)) /\ ledger[o] = NoLine
          /\ held' = [held EXCEPT ![w] = {TransactionRow(o)}]
          /\ todo' = [todo EXCEPT ![w] = RowsInOrder(r, at)]
          /\ request' = request /\ refused' = refused /\ seen' = seen
          /\ drawn' = drawn /\ UNCHANGED <<data, active>>
      BY <1>2 DEF Reserve
    <2>2. /\ request[w] \in Workload /\ o = request[w][1] /\ r = request[w][2]
          /\ r.asset \in Asset
      BY <2>1, JobFacts DEF IInv, Typed, OperationOf, LineOf
    <2>3. at \in Custody
      BY <2>2 DEF IInv, Typed
    <2>4. /\ held'[w] = {TransactionRow(o)} /\ todo'[w] = RowsInOrder(r, at)
          /\ OperationOf(w)' = o /\ LineOf(w)' = r /\ Reserved(w)'
      BY <2>1 DEF IInv, Typed, OperationOf, LineOf, Reserved
    <2>5. Covers(w)'
      <3>1. CoveredBy(o, r, {TransactionRow(o)}, RowsInOrder(r, at))
        BY <2>2, <2>3, OrderCovers
      <3>2. request'[w] # NoJob
        BY <2>1
      <3> QED
        BY <2>4, <3>1, <3>2 DEF Covers
    <2>6. Current(w)'
      <3>1. LastRow(r) # TransactionRow(o)
        BY RowFacts
      <3>2. TransactionRow(o) \notin MasterRow
        BY RowFacts
      <3>3. OriginalRows(r) \subseteq {TransactionRow(o)} => r.type # "RETURN"
        BY DEF OriginalRows, LineRow, TransactionRow
      <3>4. r.type # "RETURN" => C!OriginalFits(r)'
        BY <2>4 DEF C!OriginalFits
      <3>5. Judged(w)'
        BY <2>4, <3>1, <3>2, <3>3, <3>4 DEF Judged
      <3>6. todo'[w] # <<>>
        <4>1. LastRow(r) \notin held'[w] /\ LastRow(r) \in Needed(r)
          BY <2>4, <3>1 DEF Needed
        <4>2. Listed(LastRow(r), todo'[w])
          BY <2>4, <2>5, <4>1 DEF Covers, CoveredBy
        <4> QED
          BY <4>2, EmptySeq DEF Listed
      <3>7. ledger'[o] = NoLine
        BY <2>1 DEF data
      <3> QED
        BY <2>4, <3>5, <3>6, <3>7 DEF Current
    <2>7. \A v \in Worker \ {w} : Aside(v)
      BY <2>1 DEF IInv, Typed, Aside
    <2>8. \A v \in Worker : Covers(v)' /\ Current(v)'
      BY <2>1, <2>5, <2>6, <2>7, CoversAside, CurrentAside DEF IInv
    <2>9. Typed'
      BY <2>1 DEF IInv, Typed, data
    <2>10. LocksExclusive'
      BY <2>1, <2>4, <2>7 DEF IInv, LocksExclusive, Free, Aside
    <2>11. AssetsAtUsableLocations'
      BY <2>1 DEF IInv, AssetsAtUsableLocations, data
    <2> QED
      BY <2>8, <2>9, <2>10, <2>11 DEF IInv
  <1> QED
    BY <1>1, <1>2

\* What it means that a row lets a request go on, kind by kind.
LEMMA AcceptableFacts ==
  ASSUME NEW r, NEW x, Acceptable(r, x)
  PROVE  /\ x \in MasterRow => x \in active
         /\ x = LineRow(r.original) => C!OriginalFits(r)
         /\ x = LastRow(r) => Fits(r, custody[r.asset])
  <1>1. /\ LineRow(r.original) \notin MasterRow
        /\ \A a : CodeRow(a) \notin MasterRow /\ AssetRow(a) \notin MasterRow
        /\ \A a : CodeRow(a) # LineRow(r.original) /\ AssetRow(a) # LineRow(r.original)
    BY DEF MasterRow, CodeRow, AssetRow, LineRow, MaterialRow, LocationRow
  <1>2. ASSUME x \in MasterRow PROVE x \in active
    <2>1. x # LineRow(r.original) /\ x \notin {CodeRow(r.asset), AssetRow(r.asset)}
      BY <1>1, <1>2
    <2> QED
      BY <1>2, <2>1 DEF Acceptable
  <1>3. ASSUME x = LineRow(r.original) PROVE C!OriginalFits(r)
    <2>1. x \notin MasterRow /\ x \notin {CodeRow(r.asset), AssetRow(r.asset)}
      BY <1>1, <1>3
    <2> QED
      BY <1>3, <2>1 DEF Acceptable
  <1>4. ASSUME x = LastRow(r) PROVE Fits(r, custody[r.asset])
    <2>1. x \in {CodeRow(r.asset), AssetRow(r.asset)}
      BY <1>4 DEF LastRow
    <2>2. x \notin MasterRow /\ x # LineRow(r.original)
      BY <1>1, <2>1
    <2> QED
      BY <2>1, <2>2 DEF Acceptable
  <1> QED
    BY <1>2, <1>3, <1>4

\* Locking a row: it is free, it is judged as it is, and with the last one
\* the asset is read.
LEMMA LockKeeps ==
  ASSUME IInv, NEW w \in Worker, Lock(w)
  PROVE  IInv'
  <1> DEFINE o == OperationOf(w)
             r == LineOf(w)
             s == todo[w]
             x == Head(s)
  <1>1. /\ Reserved(w) /\ s # <<>> /\ Free(w, x)
        /\ held' = [held EXCEPT ![w] = @ \union {x}]
        /\ todo' = [todo EXCEPT ![w] = Tail(@)]
        /\ refused' = [refused EXCEPT ![w] = @ \/ ~Acceptable(r, x)]
        /\ request' = request /\ UNCHANGED <<data, active>>
        /\ Len(s) = 1 => /\ seen' = [seen EXCEPT ![w] = custody[r.asset]]
                         /\ drawn' = [drawn EXCEPT ![w] = C!NextNumber(r.asset)]
        /\ Len(s) # 1 => seen' = seen /\ drawn' = drawn
    BY DEF Lock
  <1>2. /\ request[w] \in Workload /\ o \in OperationId /\ r \in Line
        /\ r.asset \in Asset /\ CoveredBy(o, r, held[w], s)
    BY <1>1, AtWork DEF IInv
  <1>3. custody[r.asset] \in Custody
    BY <1>2 DEF IInv, Typed
  <1>4. /\ CoveredBy(o, r, held[w] \union {x}, Tail(s))
        /\ x \in RowsFor(o, r)
        /\ Len(s) = 1 => x = LastRow(r)
        /\ Tail(s) = <<>> => Len(s) = 1
    BY <1>1, <1>2, NextRowCovers
  <1>5. Typed'
    <2>1. refused' \in [Worker -> BOOLEAN]
      <3>1. (refused[w] \/ ~Acceptable(r, x)) \in BOOLEAN
        OBVIOUS
      <3> HIDE DEF r, x
      <3> QED
        BY <1>1, <3>1 DEF IInv, Typed
    <2>2. seen' \in [Worker -> Custody] /\ DOMAIN drawn' = Worker
      BY <1>1, <1>3 DEF IInv, Typed
    <2> QED
      BY <1>1, <2>1, <2>2 DEF IInv, Typed, data
  <1>6. /\ held'[w] = held[w] \union {x} /\ todo'[w] = Tail(s)
        /\ refused'[w] = (refused[w] \/ ~Acceptable(r, x))
        /\ OperationOf(w)' = o /\ LineOf(w)' = r /\ Reserved(w)'
    BY <1>1 DEF IInv, Typed, OperationOf, LineOf, Reserved
  <1>7. \A v \in Worker \ {w} : Aside(v)
    BY <1>1 DEF IInv, Typed, Aside
  <1>8. LocksExclusive'
    BY <1>1, <1>6, <1>7 DEF IInv, LocksExclusive, Free, Aside
  <1>9. Covers(w)'
    <2>1. request'[w] # NoJob
      BY <1>1, <1>2, JobFacts
    <2> QED
      BY <1>4, <1>6, <2>1 DEF Covers
  <1>10. Current(w)'
    <2>1. ledger'[o] = NoLine
      BY <1>1 DEF IInv, Current, data
    <2>2. ASSUME ~refused'[w] PROVE Judged(w)'
      <3>1. Judged(w) /\ Acceptable(r, x)
        BY <1>1, <1>6, <2>2 DEF IInv, Current
      <3>2. UNCHANGED <<ledger, custody, active>>
        BY <1>1 DEF data
      <3>3. /\ x \in MasterRow => x \in active
            /\ x = LineRow(r.original) => C!OriginalFits(r)
            /\ x = LastRow(r) => Fits(r, custody[r.asset])
        BY <3>1, AcceptableFacts
      <3>4. held'[w] \intersect MasterRow \subseteq active
        BY <1>6, <3>1, <3>3 DEF Judged
      <3>5. OriginalRows(r) \subseteq held'[w] => C!OriginalFits(r)
        BY <1>6, <3>1, <3>3 DEF Judged, OriginalRows
      <3>6. LastRow(r) \in held'[w] => Fits(r, custody[r.asset])
        BY <1>6, <3>1, <3>3 DEF Judged
      <3>7. C!OriginalFits(r)' <=> C!OriginalFits(r)
        BY <1>6, <3>2 DEF C!OriginalFits
      <3> QED
        BY <1>6, <3>2, <3>4, <3>5, <3>6, <3>7 DEF Judged
    <2>3. ASSUME todo'[w] = <<>> PROVE Read(w)'
      <3>1. Len(s) = 1
        BY <1>4, <1>6, <2>3
      <3>2. seen'[w] = custody[r.asset] /\ drawn'[w] = C!NextNumber(r.asset)
        BY <1>1, <3>1 DEF IInv, Typed
      <3>3. C!NextNumber(r.asset)' = C!NextNumber(r.asset)
        BY <1>1, <1>6 DEF C!NextNumber, C!EventsOf, data
      <3> QED
        BY <1>1, <1>6, <3>2, <3>3 DEF Read, data
    <2> QED
      BY <1>6, <2>1, <2>2, <2>3 DEF Current
  <1>11. \A v \in Worker : Covers(v)' /\ Current(v)'
    BY <1>1, <1>7, <1>9, <1>10, CoversAside, CurrentAside DEF IInv
  <1>12. AssetsAtUsableLocations'
    BY <1>1 DEF IInv, AssetsAtUsableLocations, data
  <1> QED
    BY <1>5, <1>8, <1>11, <1>12 DEF IInv

-----------------------------------------------------------------------------
(***************************************************************************)
(* The commit                                                              *)
(***************************************************************************)

\* What a line makes of a custody that it fits is a custody again.
LEMMA MovedFacts ==
  ASSUME NEW job \in Workload, NEW at \in Custody, Fits(job[2], at)
  PROVE  /\ Moved(job[2], at) \in Custody
         /\ Moved(job[2], at).state = "IN_STOCK" =>
              /\ job[2].type # "ISSUE"
              /\ Moved(job[2], at).location = job[2].target
         /\ job[2].type = "RECEIPT" <=> at = Unregistered
  <1> DEFINE r == job[2]
  <1>1. /\ r \in Line
        /\ r.type \in {"RECEIPT", "ISSUE", "RETURN", "TRANSFER"}
        /\ r.type # "ISSUE" => r.target \in Location
        /\ r.type = "RECEIPT" => r.material \in Material /\ r.condition \in Condition
    BY JobFacts DEF Line
  <1>2. CASE r.type = "RECEIPT"
    BY <1>1, <1>2 DEF Moved, Fits, Custody
  <1>3. CASE r.type # "RECEIPT"
    <2>1. at.state \in {"ISSUED", "IN_STOCK"}
      BY <1>1, <1>3 DEF Fits
    <2>2. /\ at # Unregistered
          /\ at = [material |-> at.material, condition |-> at.condition,
                   state |-> at.state, location |-> at.location]
          /\ at.material \in Material /\ at.condition \in Condition
      BY <2>1 DEF Unregistered, Custody
    <2>3. CASE r.type = "ISSUE"
      BY <2>2, <2>3 DEF Moved, Custody
    <2>4. CASE r.type # "ISSUE"
      BY <1>1, <1>3, <2>2, <2>4 DEF Moved, Custody
    <2> QED
      BY <1>3, <2>2, <2>3, <2>4
  <1> QED
    BY <1>2, <1>3

\* A transaction that may commit has its rows, and what it read holds.
LEMMA ReadyFacts ==
  ASSUME IInv, NEW w \in Worker, Reserved(w), todo[w] = <<>>, ~refused[w]
  PROVE  LET r == LineOf(w) IN
         /\ request[w] \in Workload
         /\ r.asset \in Asset
         /\ Needed(r) \subseteq held[w]
         /\ TargetRows(r) \subseteq active
         /\ ledger[OperationOf(w)] = NoLine
         /\ C!OriginalFits(r)
         /\ custody[r.asset] \in Custody
         /\ Fits(r, custody[r.asset])
         /\ seen[w] = custody[r.asset]
         /\ drawn[w] = C!NextNumber(r.asset)
  <1> DEFINE r == LineOf(w)
  <1>1. /\ request[w] \in Workload /\ r.asset \in Asset
        /\ CoveredBy(OperationOf(w), r, held[w], <<>>)
    BY AtWork DEF IInv
  <1>2. \A x : ~Listed(x, <<>>)
    BY EmptySeq DEF Listed
  <1>3. Needed(r) \subseteq held[w]
    BY <1>1, <1>2 DEF CoveredBy
  <1>4. TargetRows(r) \subseteq MasterRow
    BY <1>1, JobFacts DEF LineOf
  <1>5. ledger[OperationOf(w)] = NoLine /\ Judged(w) /\ Read(w)
    BY DEF IInv, Current
  <1>6. custody[r.asset] \in Custody
    BY <1>1 DEF IInv, Typed
  <1> QED
    BY <1>1, <1>3, <1>4, <1>5, <1>6 DEF Judged, Read, Needed

\* Two transactions that hold the row of their asset, or of its code, and
\* were not refused work on different assets.
LEMMA OneWriter ==
  ASSUME IInv, NEW v \in Worker, NEW w \in Worker, v # w,
         Reserved(v), Reserved(w), ~refused[v], ~refused[w],
         LastRow(LineOf(v)) \in held[v], LastRow(LineOf(w)) \in held[w]
  PROVE  LineOf(v).asset # LineOf(w).asset
  <1> DEFINE q == LineOf(v)
             r == LineOf(w)
  <1>1. SUFFICES ASSUME q.asset = r.asset PROVE FALSE
    OBVIOUS
  <1>2. LastRow(q) # LastRow(r)
    BY DEF IInv, LocksExclusive
  <1>3. Fits(q, custody[q.asset]) /\ Fits(r, custody[q.asset])
    BY <1>1 DEF IInv, Current, Judged
  <1>4. /\ request[v] \in Workload /\ q = request[v][2]
        /\ request[w] \in Workload /\ r = request[w][2]
        /\ q.asset \in Asset
    BY AtWork DEF IInv, LineOf
  <1>5. custody[q.asset] \in Custody
    BY <1>4 DEF IInv, Typed
  <1>6. q.type = "RECEIPT" <=> r.type = "RECEIPT"
    BY <1>3, <1>4, <1>5, MovedFacts
  <1> QED
    BY <1>1, <1>2, <1>6 DEF LastRow

\* A line of one asset leaves the numbers of the others alone.
LEMMA NumbersKept ==
  ASSUME Typed, NEW o \in OperationId, ledger[o] = NoLine, NEW r, NEW n,
         ledger' = [ledger EXCEPT ![o] = r], number' = [number EXCEPT ![o] = n],
         NEW a \in Asset, a # r.asset
  PROVE  C!NextNumber(a)' = C!NextNumber(a)
  <1>1. NoLine.asset = None /\ None # a
    BY AssetConstants DEF AssetConstants, NoLine
  <1>2. ledger'[o] = r /\ \A p \in OperationId \ {o} : ledger'[p] = ledger[p]
    BY DEF Typed
  <1>3. \A p \in OperationId \ {o} : number'[p] = number[p]
    BY DEF Typed
  <1>4. C!EventsOf(a)' = C!EventsOf(a) /\ o \notin C!EventsOf(a)
    BY <1>1, <1>2 DEF C!EventsOf
  <1>5. {number'[p] : p \in C!EventsOf(a)} = {number[p] : p \in C!EventsOf(a)}
    BY <1>3, <1>4 DEF C!EventsOf
  <1> QED
    BY <1>4, <1>5 DEF C!NextNumber

\* A commit leaves what another transaction has read true: they hold
\* different rows.
LEMMA CommitDisturbsNobody ==
  ASSUME IInv, NEW w \in Worker, Commit(w), NEW v \in Worker \ {w}
  PROVE  Current(v)'
  <1> DEFINE o == OperationOf(w)
             r == LineOf(w)
             p == OperationOf(v)
             q == LineOf(v)
  <1>1. /\ Reserved(w) /\ todo[w] = <<>> /\ ~refused[w] /\ Finish(w)
        /\ ledger' = [ledger EXCEPT ![o] = r]
        /\ number' = [number EXCEPT ![o] = drawn[w]]
        /\ custody' = [custody EXCEPT ![r.asset] = Moved(r, seen[w])]
        /\ active' = active
    BY DEF Commit
  <1>2. /\ Needed(r) \subseteq held[w] /\ ledger[o] = NoLine
        /\ o \in OperationId /\ r.asset \in Asset
    BY <1>1, ReadyFacts, AtWork DEF IInv
  <1>3. Aside(v)
    BY <1>1, FinishFacts
  <1>4. /\ Reserved(v)' <=> Reserved(v)
        /\ OperationOf(v)' = p /\ LineOf(v)' = q
    BY <1>3 DEF Aside, Reserved, OperationOf, LineOf
  <1>5. SUFFICES ASSUME Reserved(v)
        PROVE  /\ ledger'[p] = NoLine
               /\ ~refused[v] => Judged(v)' /\ (todo[v] = <<>> => Read(v)')
    BY <1>3, <1>4 DEF Current, Aside
  <1>6. p \in OperationId /\ q.asset \in Asset
    BY <1>5, AtWork DEF IInv
  <1>7. held[v] \intersect held[w] = {}
    BY DEF IInv, LocksExclusive
  <1>8. p # o
    BY <1>1, <1>5, <1>7 DEF Reserved
  <1>9. ledger'[p] = NoLine
    BY <1>1, <1>2, <1>5, <1>6, <1>8 DEF IInv, Current, Typed
  <1>10. ASSUME ~refused[v] PROVE Judged(v)' /\ (todo[v] = <<>> => Read(v)')
    <2>1. Judged(v) /\ (todo[v] = <<>> => Read(v))
      BY <1>5, <1>10 DEF IInv, Current
    <2>2. ASSUME OriginalRows(q) \subseteq held[v] PROVE C!OriginalFits(q)'
      <3>1. CASE q.type # "RETURN"
        BY <1>4, <3>1 DEF C!OriginalFits
      <3>2. CASE q.type = "RETURN"
        <4>1. /\ ledger[q.original].type = "ISSUE"
              /\ ledger[q.original].asset = q.asset
              /\ \A k \in OperationId : ~ /\ ledger[k].type = "RETURN"
                                          /\ ledger[k].original = q.original
          BY <2>1, <2>2, <3>2 DEF Judged, C!OriginalFits
        <4>2. q.original # o
          BY <1>2, <4>1 DEF NoLine
        <4>3. q.original \in OperationId
          BY <1>5, <3>2, AtWork, JobFacts DEF IInv, LineOf
        <4>4. ledger'[q.original] = ledger[q.original]
          BY <1>1, <4>2, <4>3 DEF IInv, Typed
        <4>5. ~(r.type = "RETURN" /\ r.original = q.original)
          <5>1. LineRow(q.original) \in held[v]
            BY <2>2, <3>2 DEF OriginalRows
          <5>2. r.type = "RETURN" => LineRow(r.original) \in held[w]
            BY <1>2 DEF Needed, OriginalRows
          <5> QED
            BY <1>7, <5>1, <5>2
        <4>6. \A k \in OperationId : ledger'[k] = r \/ ledger'[k] = ledger[k]
          BY <1>1 DEF IInv, Typed
        <4>7. \A k \in OperationId : ~ /\ ledger'[k].type = "RETURN"
                                       /\ ledger'[k].original = q.original
          BY <4>1, <4>5, <4>6
        <4>8. /\ LineOf(v)' = q
              /\ ledger'[q.original].type = "ISSUE"
              /\ ledger'[q.original].asset = q.asset
          BY <1>4, <4>1, <4>4
        <4> QED
          BY <4>7, <4>8 DEF C!OriginalFits
      <3> QED
        BY <3>1, <3>2
    <2>3. ASSUME LastRow(q) \in held[v]
          PROVE  /\ Fits(q, custody'[q.asset])
                 /\ custody'[q.asset] = custody[q.asset]
                 /\ C!NextNumber(q.asset)' = C!NextNumber(q.asset)
      <3>1. LastRow(r) \in held[w]
        BY <1>2 DEF Needed
      <3>2. q.asset # r.asset
        BY <1>1, <1>5, <1>10, <2>3, <3>1, OneWriter
      <3>3. custody'[q.asset] = custody[q.asset]
        BY <1>1, <1>6, <3>2 DEF IInv, Typed
      <3>4. Fits(q, custody[q.asset])
        BY <2>1, <2>3 DEF Judged
      <3>5. DEFINE a == q.asset
      <3>6. a \in Asset /\ a # r.asset /\ LineOf(v)'.asset = a
        BY <1>4, <1>6, <3>2
      <3>7. C!NextNumber(a)' = C!NextNumber(a)
        <4>1. \A b \in Asset : b # r.asset =>
                C!NextNumber(b)' = C!NextNumber(b)
          BY <1>1, <1>2, NumbersKept DEF IInv
        <4> QED
          BY <1>4, <3>6, <4>1
      <3> QED
        BY <3>3, <3>4, <3>7
    <2>4. held[v] \intersect MasterRow \subseteq active
      BY <2>1 DEF Judged
    <2>5. Judged(v)'
      BY <1>1, <1>3, <1>4, <2>2, <2>3, <2>4 DEF Judged, Aside
    <2>6. ASSUME todo[v] = <<>> PROVE Read(v)'
      <3>1. LastRow(q) \in held[v]
        BY <1>5, <1>10, <2>6, ReadyFacts DEF Needed
      <3>2. Read(v)
        BY <2>1, <2>6
      <3> QED
        BY <1>3, <1>4, <2>3, <3>1, <3>2 DEF Read, Aside
    <2> QED
      BY <2>5, <2>6
  <1> QED
    BY <1>9, <1>10

\* A commit writes one line and the custody that follows from it.
LEMMA CommitKeeps ==
  ASSUME IInv, NEW w \in Worker, Commit(w)
  PROVE  IInv'
  <1> DEFINE o == OperationOf(w)
             r == LineOf(w)
  <1>1. /\ Reserved(w) /\ todo[w] = <<>> /\ ~refused[w] /\ Finish(w)
        /\ ledger' = [ledger EXCEPT ![o] = r]
        /\ number' = [number EXCEPT ![o] = drawn[w]]
        /\ custody' = [custody EXCEPT ![r.asset] = Moved(r, seen[w])]
        /\ active' = active
    BY DEF Commit
  <1>2. /\ request[w] \in Workload /\ r = request[w][2]
        /\ o \in OperationId /\ r \in Line /\ r.asset \in Asset
    BY <1>1, AtWork DEF IInv, LineOf
  <1>3. /\ seen[w] = custody[r.asset] /\ custody[r.asset] \in Custody
        /\ Fits(r, custody[r.asset]) /\ TargetRows(r) \subseteq active
    BY <1>1, ReadyFacts
  <1>4. /\ Moved(r, seen[w]) \in Custody
        /\ Moved(r, seen[w]).state = "IN_STOCK" =>
             r.type # "ISSUE" /\ Moved(r, seen[w]).location = r.target
    BY <1>2, <1>3, MovedFacts
  <1>5. Typed'
    <2>1. ledger' \in [OperationId -> Line \union {NoLine}]
      BY <1>1, <1>2 DEF IInv, Typed
    <2>2. DOMAIN number' = OperationId
      BY <1>1 DEF IInv, Typed
    <2>3. custody' \in [Asset -> Custody]
      BY <1>1, <1>4 DEF IInv, Typed
    <2>4. active' \subseteq MasterRow
      BY <1>1 DEF IInv, Typed
    <2> QED
      BY <1>1, <2>1, <2>2, <2>3, <2>4, FinishFacts DEF Typed
  <1>6. \A v \in Worker : Current(v)'
    BY <1>1, FinishFacts, CommitDisturbsNobody
  <1>7. AssetsAtUsableLocations'
    <2> SUFFICES ASSUME NEW a \in Asset, custody'[a].state = "IN_STOCK"
                 PROVE  LocationRow(custody'[a].location) \in active
      BY <1>1 DEF AssetsAtUsableLocations
    <2>1. CASE a = r.asset
      <3>1. custody'[a] = Moved(r, seen[w])
        BY <1>1, <1>2, <2>1 DEF IInv, Typed
      <3> QED
        BY <1>3, <1>4, <3>1 DEF TargetRows
    <2>2. CASE a # r.asset
      <3>1. custody'[a] = custody[a]
        BY <1>1, <2>2 DEF IInv, Typed
      <3> QED
        BY <3>1 DEF IInv, AssetsAtUsableLocations
    <2> QED
      BY <2>1, <2>2
  <1> QED
    BY <1>1, <1>5, <1>6, <1>7, FinishFacts DEF IInv

\* Switching a master touches no row that a transaction holds.
LEMMA SetActiveKeeps ==
  ASSUME IInv, NEW x \in MasterRow, SetActive(x)
  PROVE  IInv'
  <1>1. /\ \A w \in Worker : x \notin held[w]
        /\ active' \subseteq active \union {x} /\ active \ {x} \subseteq active'
        /\ x \in active => \A a \in Asset : x # LocationRow(custody[a].location)
        /\ x \notin active => active \subseteq active'
        /\ UNCHANGED <<data, request, held, todo, refused, seen, drawn>>
    BY DEF SetActive
  <1>2. Typed'
    BY <1>1 DEF IInv, Typed, data
  <1>3. LocksExclusive'
    BY <1>1 DEF IInv, LocksExclusive
  <1>4. ASSUME NEW w \in Worker PROVE Covers(w)' /\ Current(w)'
    <2>1. Aside(w)
      BY <1>1 DEF Aside
    <2>2. Covers(w)'
      BY <2>1, CoversAside DEF IInv
    <2>3. /\ ledger' = ledger /\ number' = number /\ custody' = custody
          /\ Reserved(w)' <=> Reserved(w)
          /\ OperationOf(w)' = OperationOf(w) /\ LineOf(w)' = LineOf(w)
      BY <1>1 DEF data, Reserved, OperationOf, LineOf
    <2>4. C!OriginalFits(LineOf(w))' <=> C!OriginalFits(LineOf(w))
      BY <2>3 DEF C!OriginalFits
    <2>5. C!NextNumber(LineOf(w).asset)' = C!NextNumber(LineOf(w).asset)
      BY <2>3 DEF C!NextNumber, C!EventsOf
    <2>6. Judged(w) => Judged(w)'
      BY <1>1, <2>3, <2>4 DEF Judged
    <2>7. Read(w) => Read(w)'
      BY <1>1, <2>3, <2>5 DEF Read
    <2>8. Current(w)'
      BY <1>1, <2>3, <2>6, <2>7 DEF IInv, Current
    <2> QED
      BY <2>2, <2>8
  <1>5. AssetsAtUsableLocations'
    BY <1>1 DEF IInv, AssetsAtUsableLocations, data
  <1> QED
    BY <1>2, <1>3, <1>4, <1>5 DEF IInv

-----------------------------------------------------------------------------
(***************************************************************************)
(* The invariant and the theorems                                          *)
(***************************************************************************)
\* At first there are no transactions and no assets.
LEMMA InitEstablishes == Init => IInv
  <1> SUFFICES ASSUME Init PROVE IInv
    OBVIOUS
  <1>1. /\ ledger = [o \in OperationId |-> NoLine]
        /\ number = [o \in OperationId |-> 0]
        /\ custody = [a \in Asset |-> Unregistered]
        /\ active = MasterRow
        /\ request = [w \in Worker |-> NoJob]
        /\ held = [w \in Worker |-> {}]
        /\ todo = [w \in Worker |-> <<>>]
        /\ refused = [w \in Worker |-> FALSE]
        /\ seen = [w \in Worker |-> Unregistered]
        /\ drawn = [w \in Worker |-> 0]
    BY DEF Init, C!Init, NoLine, C!NoLine, Unregistered, C!Unregistered
  <1>2. Unregistered \in Custody
    BY DEF Custody
  <1>3. Typed
    BY <1>1, <1>2 DEF Typed
  <1>4. LocksExclusive
    BY <1>1 DEF LocksExclusive
  <1>5. \A w \in Worker : ~Reserved(w)
    BY <1>1 DEF Reserved
  <1>6. \A w \in Worker : Covers(w) /\ Current(w)
    BY <1>1, <1>5 DEF Covers, Current
  <1>7. AssetsAtUsableLocations
    BY <1>1 DEF AssetsAtUsableLocations, Unregistered
  <1> QED
    BY <1>3, <1>4, <1>6, <1>7 DEF IInv

\* Every step preserves the invariant, action by action.
LEMMA StepKeeps == IInv /\ [Next]_vars => IInv'
  <1> SUFFICES ASSUME IInv, [Next]_vars PROVE IInv'
    OBVIOUS
  <1>1. ASSUME NEW w \in Worker, NEW job \in Workload, Submit(w, job)
        PROVE  IInv'
    BY <1>1, SubmitKeeps
  <1>2. ASSUME NEW w \in Worker, Reserve(w) PROVE IInv'
    BY <1>2, ReserveKeeps
  <1>3. ASSUME NEW w \in Worker, Duplicate(w) \/ Reject(w) \/ Crash(w)
        PROVE  IInv'
    BY <1>3, EndKeeps DEF Duplicate, Reject, Crash
  <1>4. ASSUME NEW w \in Worker, Lock(w) PROVE IInv'
    BY <1>4, LockKeeps
  <1>5. ASSUME NEW w \in Worker, Commit(w) PROVE IInv'
    BY <1>5, CommitKeeps
  <1>6. ASSUME NEW x \in MasterRow, SetActive(x) PROVE IInv'
    BY <1>6, SetActiveKeeps
  <1>7. CASE UNCHANGED vars
    <2>1. \A w \in Worker : Aside(w)
      BY <1>7 DEF vars, Aside
    <2>2. UNCHANGED <<data, active>>
      BY <1>7 DEF vars
    <2>3. \A w \in Worker : Covers(w)' /\ Current(w)'
      BY <2>1, <2>2, CoversAside, CurrentAside DEF IInv
    <2>4. Typed' /\ LocksExclusive' /\ AssetsAtUsableLocations'
      BY <1>7 DEF IInv, Typed, LocksExclusive, AssetsAtUsableLocations, vars, data
    <2> QED
      BY <2>3, <2>4 DEF IInv
  <1> QED
    BY <1>1, <1>2, <1>3, <1>4, <1>5, <1>6, <1>7 DEF Next

\* The invariant holds: locks are exclusive, cover what a commit relies on, and
\* keep true what was read under them.
THEOREM Invariance == Spec => []IInv
  BY InitEstablishes, StepKeeps, PTL DEF Spec

\* An asset in stock is at a location in use, however receipts, returns and
\* transfers race with switching the location off.
THEOREM AssetsStayUsable == Spec => []AssetsAtUsableLocations
  <1>1. IInv => AssetsAtUsableLocations
    BY DEF IInv
  <1> QED
    BY <1>1, Invariance, PTL

\* A commit is a post of the abstract custody; nothing else changes it.
LEMMA CommitPosts ==
  ASSUME IInv, NEW w \in Worker, Commit(w)
  PROVE  C!Next
  <1> DEFINE r == LineOf(w)
  <1>1. /\ Reserved(w) /\ todo[w] = <<>> /\ ~refused[w]
        /\ ledger' = [ledger EXCEPT ![OperationOf(w)] = r]
        /\ number' = [number EXCEPT ![OperationOf(w)] = drawn[w]]
        /\ custody' = [custody EXCEPT ![r.asset] = Moved(r, seen[w])]
    BY DEF Commit
  <1>2. /\ request[w] \in Workload /\ ledger[OperationOf(w)] = NoLine
        /\ C!OriginalFits(r) /\ Fits(r, custody[r.asset])
        /\ seen[w] = custody[r.asset] /\ drawn[w] = C!NextNumber(r.asset)
    BY <1>1, ReadyFacts
  <1>3. /\ NoLine = C!NoLine
        /\ \A at : Fits(r, at) <=> C!Fits(r, at)
        /\ \A at : Moved(r, at) = C!Moved(r, at)
    BY DEF NoLine, C!NoLine, Unregistered, C!Unregistered, Fits, C!Fits, Moved,
           C!Moved
  <1>4. C!Post(OperationOf(w), r)
    <2>1. custody' = [custody EXCEPT ![r.asset] = C!Moved(r, custody[r.asset])]
      BY <1>1, <1>2, <1>3
    <2> QED
      BY <1>1, <1>2, <1>3, <2>1 DEF C!Post
  <1> QED
    BY <1>2, <1>4 DEF C!Next, OperationOf, LineOf

\* The transactions implement AssetCustody: every commit is one line, numbered
\* next and admissible in the custody that the asset has at that moment,
\* although it is written from what was read under locks.
THEOREM CustodyImplemented == Spec => ImplementsCustody
  <1>1. Init => C!Init
    BY DEF Init
  <1>2. IInv /\ [Next]_vars => [C!Next]_C!vars
    <2> SUFFICES ASSUME IInv, [Next]_vars PROVE C!Next \/ UNCHANGED C!vars
      OBVIOUS
    <2>1. ASSUME NEW w \in Worker, Commit(w) PROVE C!Next
      BY <2>1, CommitPosts
    <2>2. ASSUME NEW w \in Worker, NEW job \in Workload, Submit(w, job)
          PROVE  UNCHANGED C!vars
      BY <2>2 DEF Submit, data, C!vars
    <2>3. ASSUME NEW w \in Worker,
                 Reserve(w) \/ Duplicate(w) \/ Lock(w) \/ Reject(w) \/ Crash(w)
          PROVE  UNCHANGED C!vars
      BY <2>3 DEF Reserve, Duplicate, Lock, Reject, Crash, data, C!vars
    <2>4. ASSUME NEW x \in MasterRow, SetActive(x) PROVE UNCHANGED C!vars
      BY <2>4 DEF SetActive, data, C!vars
    <2>5. CASE UNCHANGED vars
      BY <2>5 DEF vars, data, C!vars
    <2> QED
      BY <2>1, <2>2, <2>3, <2>4, <2>5 DEF Next
  <1> QED
    BY <1>1, <1>2, Invariance, PTL DEF Spec, ImplementsCustody, C!Spec

-----------------------------------------------------------------------------
(***************************************************************************)
(* The lines of an asset and its custody                                   *)
(***************************************************************************)

\* The issues of an asset that no line returned.
Open(a) == {o \in History(a) : ledger[o].type = "ISSUE" /\ ~Returned(o)}

\* An asset has lines exactly if it is registered, a receipt among them; while
\* it is issued, one issue of it is open, of its condition, and else none.
LinesFit(a) ==
  /\ custody[a] = Unregistered <=> History(a) = {}
  /\ History(a) # {} => Established(a)
  /\ custody[a].state = "IN_STOCK" => Open(a) = {}
  /\ custody[a].state = "ISSUED" =>
       \E o \in OperationId : /\ Open(a) = {o}
                              /\ ledger[o].condition = custody[a].condition

ReturnsReferToIssues ==
  \A o \in OperationId :
    ledger[o].type = "RETURN" => /\ ledger[o].original \in OperationId
                                 /\ ledger[ledger[o].original].type = "ISSUE"

HistoryInv == (\A a \in Asset : LinesFit(a)) /\ ReturnsReferToIssues

\* What a commit writes, in terms of what the tables hold before it.
LEMMA CommitFacts ==
  ASSUME IInv, NEW w \in Worker, Commit(w)
  PROVE  LET o == request[w][1]
             r == request[w][2]
             a == r.asset
             at == custody[a]
         IN
         /\ request[w] \in Workload /\ o \in OperationId /\ r \in Line
         /\ a \in Asset /\ at \in Custody
         /\ ledger[o] = NoLine /\ C!OriginalFits(r) /\ Fits(r, at)
         /\ TargetRows(r) \subseteq active
         /\ ledger' = [ledger EXCEPT ![o] = r]
         /\ custody' = [custody EXCEPT ![a] = Moved(r, at)]
         /\ number' = [number EXCEPT ![o] = C!NextNumber(a)]
         /\ ledger'[o] = r /\ custody'[a] = Moved(r, at)
         /\ number'[o] = C!NextNumber(a)
         /\ \A p \in OperationId \ {o} : ledger'[p] = ledger[p]
         /\ \A b \in Asset \ {a} : custody'[b] = custody[b]
  <1> DEFINE o == request[w][1]
             r == request[w][2]
             a == r.asset
             at == custody[a]
  <1>1. /\ Reserved(w) /\ todo[w] = <<>> /\ ~refused[w]
        /\ ledger' = [ledger EXCEPT ![o] = r]
        /\ number' = [number EXCEPT ![o] = drawn[w]]
        /\ custody' = [custody EXCEPT ![a] = Moved(r, seen[w])]
    BY DEF Commit, OperationOf, LineOf
  <1>2. /\ request[w] \in Workload /\ o \in OperationId /\ r \in Line /\ a \in Asset
    BY <1>1, AtWork DEF IInv, OperationOf, LineOf
  <1>3. /\ at \in Custody /\ ledger[o] = NoLine /\ C!OriginalFits(r) /\ Fits(r, at)
        /\ TargetRows(r) \subseteq active
        /\ seen[w] = at /\ drawn[w] = C!NextNumber(a)
    BY <1>1, ReadyFacts DEF OperationOf, LineOf
  <1>4. /\ custody' = [custody EXCEPT ![a] = Moved(r, at)]
        /\ number' = [number EXCEPT ![o] = C!NextNumber(a)]
    BY <1>1, <1>3
  <1>5. /\ ledger'[o] = r /\ custody'[a] = Moved(r, at)
        /\ number'[o] = C!NextNumber(a)
        /\ \A p \in OperationId \ {o} : ledger'[p] = ledger[p]
        /\ \A b \in Asset \ {a} : custody'[b] = custody[b]
    BY <1>1, <1>2, <1>4 DEF IInv, Typed
  <1> HIDE DEF o, r, at, a
  <1>6. /\ request[w] \in Workload /\ o \in OperationId /\ r \in Line
        /\ a \in Asset /\ at \in Custody
        /\ ledger[o] = NoLine /\ C!OriginalFits(r) /\ Fits(r, at)
        /\ TargetRows(r) \subseteq active
        /\ ledger' = [ledger EXCEPT ![o] = r]
        /\ custody' = [custody EXCEPT ![a] = Moved(r, at)]
        /\ number' = [number EXCEPT ![o] = C!NextNumber(a)]
    BY <1>1, <1>2, <1>3, <1>4
  <1> QED
    BY <1>5, <1>6 DEF o, r, at, a

\* A line that is posted as AssetCustody says keeps the lines of every asset
\* in agreement with its custody.
LEMMA PostKeepsHistory ==
  ASSUME HistoryInv, NEW job \in Workload,
         NEW o, NEW r, NEW a, NEW at \in Custody,
         o = job[1], r = job[2], a = r.asset, at = custody[a],
         ledger[o] = NoLine, C!OriginalFits(r), Fits(r, at),
         ledger'[o] = r, custody'[a] = Moved(r, at),
         \A p \in OperationId \ {o} : ledger'[p] = ledger[p],
         \A b \in Asset \ {a} : custody'[b] = custody[b]
  PROVE  HistoryInv'
  <1>1. /\ o \in OperationId /\ r \in Line /\ a \in Asset
        /\ custody[a] \in Custody
        /\ ledger[o] = NoLine /\ C!OriginalFits(r) /\ Fits(r, at)
        /\ ledger'[o] = r /\ custody'[a] = Moved(r, at)
        /\ \A p \in OperationId \ {o} : ledger'[p] = ledger[p]
        /\ \A b \in Asset \ {a} : custody'[b] = custody[b]
    BY JobFacts
  <1>2. /\ r.type \in {"RECEIPT", "ISSUE", "RETURN", "TRANSFER"}
        /\ r.type = "RETURN" => r.original \in OperationId
        /\ r.type # "RETURN" => r.original = NoOperation
        /\ r.type = "RECEIPT" <=> at = Unregistered
        /\ NoOperation \notin OperationId
    BY <1>1, JobFacts, MovedFacts, AssetConstants DEF Line, AssetConstants
  <1>3. NoLine.asset = None /\ NoLine.type = "NONE" /\ None \notin Asset
    BY AssetConstants DEF AssetConstants, NoLine
  <1>4. r.type = "RETURN" =>
          /\ ledger[r.original].type = "ISSUE" /\ ledger[r.original].asset = a
          /\ ~Returned(r.original) /\ r.original # o
    BY <1>1, <1>3 DEF C!OriginalFits, Returned
  <1>5. \A p \in OperationId \ {o} :
          Returned(p)' <=> Returned(p) \/ (r.type = "RETURN" /\ r.original = p)
    BY <1>1, <1>3 DEF Returned
  <1>6. ~Returned(o)'
    <2>1. \A p \in OperationId :
            ledger[p].type = "RETURN" => ledger[p].original # o
      BY <1>1, <1>3 DEF HistoryInv, ReturnsReferToIssues
    <2> QED
      BY <1>1, <1>4, <2>1 DEF Returned
  <1>7. /\ \A b \in Asset \ {a} : History(b)' = History(b)
        /\ History(a)' = History(a) \union {o}
        /\ \A b \in Asset : o \notin History(b) /\ History(b) \subseteq OperationId
    BY <1>1, <1>3 DEF History
  <1>8. ReturnsReferToIssues'
    <2> SUFFICES ASSUME NEW p \in OperationId, ledger'[p].type = "RETURN"
                 PROVE  /\ ledger'[p].original \in OperationId
                        /\ ledger'[ledger'[p].original].type = "ISSUE"
      BY DEF ReturnsReferToIssues
    <2>1. CASE p = o
      BY <1>1, <1>2, <1>4, <2>1
    <2>2. CASE p # o
      <3>1. /\ ledger'[p] = ledger[p] /\ ledger[p].original \in OperationId
            /\ ledger[ledger[p].original].type = "ISSUE"
        BY <1>1, <2>2 DEF HistoryInv, ReturnsReferToIssues
      <3>2. ledger[p].original # o
        BY <1>1, <1>3, <3>1
      <3> QED
        BY <1>1, <3>1, <3>2
    <2> QED
      BY <2>1, <2>2
  <1>9. ASSUME NEW b \in Asset \ {a} PROVE LinesFit(b)'
    <2>1. LinesFit(b) /\ custody'[b] = custody[b] /\ History(b)' = History(b)
      BY <1>1, <1>7 DEF HistoryInv
    <2>2. \A p \in History(b) : p \in OperationId \ {o} /\ ledger'[p] = ledger[p]
      BY <1>1, <1>7
    <2>3. \A p \in History(b) : Returned(p)' <=> Returned(p)
      BY <1>4, <1>5, <2>2 DEF History
    <2>4. Open(b)' = Open(b)
      BY <2>1, <2>2, <2>3 DEF Open
    <2>5. Established(b) => Established(b)'
      BY <2>1, <2>2 DEF Established
    <2>6. \A p \in Open(b) : ledger'[p] = ledger[p]
      BY <2>2 DEF Open
    <2> QED
      BY <2>1, <2>4, <2>5, <2>6 DEF LinesFit
  <1>10. LinesFit(a)'
    <2>1. LinesFit(a)
      BY <1>1 DEF HistoryInv
    <2>2. \A p \in History(a) : p \in OperationId \ {o} /\ ledger'[p] = ledger[p]
      BY <1>1, <1>7
    <2>3. History(a)' # {} /\ o \in History(a)'
      BY <1>7
    <2>4. CASE r.type = "RECEIPT"
      <3>1. at = Unregistered /\ History(a) = {}
        BY <1>2, <2>1, <2>4 DEF LinesFit
      <3>2. Moved(r, at).state = "IN_STOCK" /\ Moved(r, at) # Unregistered
        BY <2>4 DEF Moved, Unregistered
      <3>3. Open(a)' = {}
        BY <1>1, <1>7, <2>4, <3>1 DEF Open
      <3>4. Established(a)'
        BY <1>1, <2>3, <2>4 DEF Established
      <3> QED
        BY <1>1, <2>3, <3>2, <3>3, <3>4 DEF LinesFit
    <2>5. CASE r.type # "RECEIPT"
      <3>1. History(a) # {} /\ Established(a)
        BY <1>2, <2>1, <2>5 DEF LinesFit
      <3>2. Established(a)'
        BY <1>7, <2>2, <3>1 DEF Established
      <3>3. CASE r.type = "ISSUE"
        <4>1. /\ at.state = "IN_STOCK" /\ at.condition = r.condition
          BY <1>1, <3>3 DEF Fits
        <4>2. Open(a) = {}
          BY <2>1, <4>1 DEF LinesFit
        <4>3. \A p \in History(a) : Returned(p)' <=> Returned(p)
          BY <1>5, <2>2, <3>3
        <4>4. Open(a)' = {o}
          BY <1>1, <1>6, <1>7, <2>2, <3>3, <4>2, <4>3 DEF Open
        <4>5. /\ Moved(r, at).state = "ISSUED"
              /\ Moved(r, at).condition = r.condition
          <5>1. at \in [material : Material, condition : Condition,
                        state : {"IN_STOCK"}, location : Location]
            BY <1>1, <4>1 DEF Custody, Unregistered
          <5> QED
            BY <3>3, <4>1, <5>1 DEF Moved
        <4>6. Moved(r, at) # Unregistered
          BY <4>5 DEF Unregistered
        <4> QED
          BY <1>1, <2>3, <3>2, <4>4, <4>5, <4>6 DEF LinesFit
      <3>4. CASE r.type # "ISSUE"
        <4>1. /\ Moved(r, at).state = "IN_STOCK" /\ Moved(r, at) # Unregistered
          <5>1. at.state \in {"IN_STOCK", "ISSUED"}
            BY <1>1, <1>2, <2>5, <3>4 DEF Fits
          <5>2. at = [material |-> at.material, condition |-> at.condition,
                      state |-> at.state, location |-> at.location]
            BY <1>1 DEF Custody, Unregistered
          <5>3. Moved(r, at).state = "IN_STOCK"
            BY <2>5, <3>4, <5>2 DEF Moved
          <5> QED
            BY <5>3 DEF Unregistered
        <4>2. Open(a)' = {}
          <5>1. CASE r.type = "RETURN"
            <6>1. PICK i \in OperationId : Open(a) = {i}
              BY <1>1, <2>1, <5>1 DEF Fits, LinesFit
            <6>2. r.original \in Open(a)
              BY <1>2, <1>4, <5>1 DEF Open, History
            <6>3. \A p \in History(a) : ledger[p].type = "ISSUE" => Returned(p)'
              BY <1>5, <2>2, <5>1, <6>1, <6>2 DEF Open
            <6> QED
              BY <1>1, <1>7, <2>2, <3>4, <6>3 DEF Open
          <5>2. CASE r.type # "RETURN"
            <6>1. at.state = "IN_STOCK"
              BY <1>1, <1>2, <2>5, <3>4, <5>2 DEF Fits
            <6>2. Open(a) = {}
              BY <2>1, <6>1 DEF LinesFit
            <6>3. \A p \in History(a) : Returned(p)' <=> Returned(p)
              BY <1>5, <2>2, <5>2
            <6> QED
              BY <1>1, <1>7, <2>2, <3>4, <6>2, <6>3 DEF Open
          <5> QED
            BY <5>1, <5>2
        <4> QED
          BY <1>1, <2>3, <3>2, <4>1, <4>2 DEF LinesFit
      <3> QED
        BY <3>3, <3>4
    <2> QED
      BY <2>4, <2>5
  <1> QED
    BY <1>8, <1>9, <1>10 DEF HistoryInv

\* So does a commit, which is such a post.
LEMMA CommitKeepsHistory ==
  ASSUME IInv, HistoryInv, NEW w \in Worker, Commit(w)
  PROVE  HistoryInv'
  BY CommitFacts, PostKeepsHistory

\* The lines of every asset agree with its custody at all times: an issued
\* asset has one issue that was not returned, and one in stock has none.
THEOREM HistoryInvariance == Spec => []HistoryInv
  <1>1. Init => HistoryInv
    <2> SUFFICES ASSUME Init PROVE HistoryInv
      OBVIOUS
    <2>1. /\ ledger = [o \in OperationId |-> NoLine]
          /\ custody = [a \in Asset |-> Unregistered]
      BY DEF Init, C!Init, NoLine, C!NoLine, Unregistered, C!Unregistered
    <2>2. NoLine.asset = None /\ NoLine.type = "NONE" /\ None \notin Asset
      BY AssetConstants DEF AssetConstants, NoLine
    <2>3. \A a \in Asset : History(a) = {}
      BY <2>1, <2>2 DEF History
    <2>4. \A a \in Asset : LinesFit(a)
      BY <2>1, <2>3 DEF LinesFit, Unregistered
    <2> QED
      BY <2>1, <2>2, <2>4 DEF HistoryInv, ReturnsReferToIssues
  <1>2. IInv /\ HistoryInv /\ [Next]_vars => HistoryInv'
    <2> SUFFICES ASSUME IInv, HistoryInv, [Next]_vars PROVE HistoryInv'
      OBVIOUS
    <2>1. ASSUME NEW w \in Worker, Commit(w) PROVE HistoryInv'
      BY <2>1, CommitKeepsHistory
    <2>2. CASE UNCHANGED data
      BY <2>2 DEF data, HistoryInv, LinesFit, ReturnsReferToIssues, Open, History,
                  Established, Returned
    <2>3. CASE ~(\E w \in Worker : Commit(w))
      BY <2>2, <2>3 DEF Next, Submit, Reserve, Duplicate, Lock, Reject, Crash,
                        SetActive, vars, data
    <2> QED
      BY <2>1, <2>3
  <1> QED
    BY <1>1, <1>2, Invariance, PTL DEF Spec

-----------------------------------------------------------------------------
(***************************************************************************)
(* The triggers                                                            *)
(***************************************************************************)

\* What AssetCustody posts is what the triggers accept.
LEMMA PostAccepted ==
  ASSUME NEW job \in Workload,
         NEW o, NEW r, NEW a, NEW at \in Custody,
         o = job[1], r = job[2], a = r.asset, at = custody[a], LinesFit(a),
         ledger[o] = NoLine, C!OriginalFits(r), Fits(r, at),
         TargetRows(r) \subseteq active,
         ledger'[o] = r, custody'[a] = Moved(r, at), number'[o] = C!NextNumber(a)
  PROVE  Accepted(o)
  <1> DEFINE x == RowOf(r)
             to == Moved(r, at)
  <1>1. /\ r \in Line /\ a \in Asset
        /\ r.type \in {"RECEIPT", "ISSUE", "RETURN", "TRANSFER"}
        /\ r.type # "ISSUE" => r.target \in Location
        /\ r.type = "RETURN" => r.original \in OperationId
        /\ r.type = "RECEIPT" => r.material \in Material /\ r.condition \in Condition
        /\ r.type = "TRANSFER" => r.source \in Location /\ r.source # r.target
        /\ r.type = "ISSUE" => r.source \in Location /\ r.target = None
        /\ r.type \in {"RECEIPT", "RETURN"} => r.source = None
        /\ r.type # "RETURN" => r.original = NoOperation
        /\ r.type = "RECEIPT" <=> at = Unregistered
    BY JobFacts, MovedFacts DEF Line
  <1>2. None \notin Location \union Condition /\ NoOperation \notin OperationId
    BY AssetConstants DEF AssetConstants
  <1>3. /\ x.type = r.type /\ x.asset = a /\ x.source = r.source
        /\ x.target = r.target /\ x.original = r.original
        /\ r.type = "RECEIPT" => x.material = r.material
        /\ r.type # "RECEIPT" => x.material = at.material
        /\ r.type = "RETURN" => x.condition = ledger[r.original].condition
        /\ r.type # "RETURN" => x.condition = r.condition
    BY <1>1 DEF RowOf, Line
  <1>4. r.type = "RECEIPT" => History(a) = {}
    BY <1>1 DEF LinesFit
  <1>5. r.type # "RECEIPT" => History(a) # {} /\ Established(a)
    BY <1>1 DEF LinesFit
  <1>6. r.type # "RECEIPT" =>
          /\ at = [material |-> at.material, condition |-> at.condition,
                   state |-> at.state, location |-> at.location]
          /\ at.condition \in Condition
          /\ at.state = "ISSUED" => at.location = None
    BY <1>1 DEF Custody, Unregistered
  <1>7. NextInOrder(a, number'[o])
    BY DEF NextInOrder, History, C!NextNumber, C!EventsOf, Max, C!Max
  <1>8. Intact(to)
    <2>1. r.type # "ISSUE" => LocationRow(r.target) \in active
      BY DEF TargetRows
    <2> QED
      BY <1>1, <1>2, <1>6, <2>1 DEF Moved, Intact
  <1>9. r.type # "RECEIPT" => to.material = at.material
    BY <1>1, <1>6 DEF Moved
  <1> HIDE DEF x, to
  <1>10. LineAccepted(x, number'[o])
    <2>1. CASE r.type = "RECEIPT"
      <3>1. to = [material |-> r.material, condition |-> r.condition,
                  state |-> "IN_STOCK", location |-> r.target]
        BY <2>1 DEF Moved, to
      <3>2. AssetOf(x) = to
        BY <1>3, <2>1 DEF AssetOf, to
      <3>3. ReceiptAccepted(x, to)
        BY <1>1, <1>2, <1>3, <1>4, <2>1, <3>1 DEF ReceiptAccepted
      <3> QED
        BY <1>3, <1>7, <2>1, <3>1, <3>2, <3>3 DEF LineAccepted
    <2>2. CASE r.type # "RECEIPT"
      <3>1. AssetOf(x) = at
        BY <1>3, <2>2 DEF AssetOf
      <3>2. CASE r.type = "ISSUE"
        <4>1. FromWhereItIs(x, at) /\ at.state = "IN_STOCK"
          BY <1>3, <3>2 DEF Fits, FromWhereItIs
        <4>2. \A p \in History(a) : ledger[p].type = "ISSUE" => Returned(p)
          BY <4>1 DEF LinesFit, Open
        <4>3. IssueAccepted(x, at)
          BY <1>1, <1>2, <1>3, <3>2, <4>1, <4>2 DEF IssueAccepted
        <4> QED
          BY <1>3, <1>5, <1>7, <2>2, <3>1, <3>2, <4>3 DEF LineAccepted
      <3>3. CASE r.type = "RETURN"
        <4>1. at.state = "ISSUED"
          BY <3>3 DEF Fits
        <4>2. PICK i \in OperationId : /\ Open(a) = {i}
                                       /\ ledger[i].condition = at.condition
          BY <4>1 DEF LinesFit
        <4>3. /\ ledger[r.original].type = "ISSUE"
              /\ ledger[r.original].asset = a
              /\ ~Returned(r.original)
          BY <3>3 DEF C!OriginalFits, Returned
        <4>4. r.original = i
          BY <1>1, <3>3, <4>2, <4>3 DEF Open, History
        <4>5. ReturnAccepted(x, at)
          BY <1>1, <1>2, <1>3, <1>6, <2>2, <3>3, <4>1, <4>2, <4>3, <4>4
          DEF ReturnAccepted
        <4> QED
          BY <1>3, <1>5, <1>7, <2>2, <3>1, <3>3, <4>5 DEF LineAccepted
      <3>4. CASE r.type = "TRANSFER"
        <4>1. FromWhereItIs(x, at)
          BY <1>3, <3>4 DEF Fits, FromWhereItIs
        <4>2. TransferAccepted(x, at)
          BY <1>1, <1>2, <1>3, <3>4, <4>1 DEF TransferAccepted
        <4> QED
          BY <1>3, <1>5, <1>7, <2>2, <3>1, <3>4, <4>2 DEF LineAccepted
      <3> QED
        BY <1>1, <2>2, <3>2, <3>3, <3>4
    <2> QED
      BY <2>1, <2>2
  <1>11. IdentityKept(a)
    BY <1>4, <1>9 DEF IdentityKept, to
  <1> QED
    BY <1>8, <1>10, <1>11 DEF Accepted, x, to

\* No commit of a service meets a refusal of the triggers, neither for the
\* line nor for the asset's row: in particular a return is always against the
\* issue that took the asset, although the service does not look for it.
THEOREM TriggersNeverObject == Spec => AssetTriggersAccept
  <1>1. /\ IInv /\ HistoryInv /\ [Next]_vars
        => [\A o \in OperationId : ledger'[o] # ledger[o] => Accepted(o)]_vars
    <2> SUFFICES ASSUME IInv, HistoryInv, [Next]_vars, NEW o \in OperationId,
                        ledger'[o] # ledger[o]
                 PROVE  Accepted(o)
      OBVIOUS
    <2>1. PICK w \in Worker : Commit(w)
      BY DEF Next, Submit, Reserve, Duplicate, Lock, Reject, Crash, SetActive,
             vars, data
    <2>2. o = request[w][1]
      BY <2>1, CommitFacts
    <2>3. LinesFit(request[w][2].asset)
      BY <2>1, CommitFacts DEF HistoryInv
    <2> QED
      BY <2>1, <2>2, <2>3, CommitFacts, PostAccepted
  <1> QED
    BY <1>1, Invariance, HistoryInvariance, PTL DEF Spec, AssetTriggersAccept

-----------------------------------------------------------------------------
(***************************************************************************)
(* The replay of an asset's lines.  l and n are a ledger and its numbers;  *)
(* ReplayedBy says that f is the replay of the first `last' lines of       *)
(* asset a, from its recursive definition.                                 *)
(***************************************************************************)
EventsIn(l, a) == {o \in OperationId : l[o].asset = a}

NthIn(l, n, a, k) == CHOOSE o \in EventsIn(l, a) : n[o] = k

Untouched == [at |-> Unregistered, issue |-> NoOperation, ok |-> TRUE]

After(l, s, o) ==
  LET r == l[o] IN
  IF /\ s.ok
     /\ Fits(r, s.at)
     /\ r.type = "RETURN" => r.original = s.issue
  THEN [at |-> Moved(r, s.at), ok |-> TRUE,
        issue |-> IF r.type = "ISSUE" THEN o ELSE NoOperation]
  ELSE [at |-> Unregistered, issue |-> NoOperation, ok |-> FALSE]

ReplayedBy(f, l, n, a, last) ==
  f = [k \in 0 .. last |-> IF k = 0 THEN Untouched
                           ELSE After(l, f[k - 1], NthIn(l, n, a, k))]

\* The first k lines of asset a can be replayed, and lead to s.
ReplaysTo(s, l, n, a, k) == \E f : ReplayedBy(f, l, n, a, k) /\ f[k] = s

\* The lines of set E are numbered 1 to k, no two alike.
Numbers(E, n, k) ==
  /\ \A o \in E : n[o] \in 1 .. k
  /\ \A j \in 1 .. k : \E o \in E : n[o] = j
  /\ \A o, p \in E : n[o] = n[p] => o = p

\* What AssetCustody replays is such a function.
LEMMA ReplayChosen ==
  ASSUME NEW a
  PROVE  /\ C!EventsOf(a) = EventsIn(ledger, a)
         /\ C!Cardinality(C!EventsOf(a)) = Cardinality(EventsIn(ledger, a))
         /\ C!Replayed(a) =
              (CHOOSE f : ReplayedBy(f, ledger, number, a,
                                     Cardinality(EventsIn(ledger, a))))
                [Cardinality(EventsIn(ledger, a))]
  <1>1. C!EventsOf(a) = EventsIn(ledger, a)
    BY Zenon DEF C!EventsOf, EventsIn
  <1>2. C!Cardinality(C!EventsOf(a)) = Cardinality(EventsIn(ledger, a))
    BY Zenon DEF C!Cardinality, Cardinality, C!EventsOf, EventsIn
  <1>3. C!Replayed(a) =
          (CHOOSE f : ReplayedBy(f, ledger, number, a, C!Cardinality(C!EventsOf(a))))
            [C!Cardinality(C!EventsOf(a))]
    BY Zenon DEF C!Replayed, ReplayedBy, C!EventsOf, EventsIn, NthIn, After,
         Untouched, C!Reduce, C!Broken, Fits, C!Fits, Moved, C!Moved, Unregistered,
         C!Unregistered
  <1> QED
    BY <1>1, <1>2, <1>3, Zenon

\* A replay is determined by the ledger and its numbers.
LEMMA ReplayUnique ==
  ASSUME NEW l, NEW n, NEW a, NEW last \in Nat,
         NEW f, ReplayedBy(f, l, n, a, last), NEW g, ReplayedBy(g, l, n, a, last)
  PROVE  f[last] = g[last]
  <1> DEFINE G == {k \in Nat : k <= last => f[k] = g[k]}
  <1>1. /\ \A k \in 0 .. last : f[k] = IF k = 0 THEN Untouched
                                ELSE After(l, f[k - 1], NthIn(l, n, a, k))
        /\ \A k \in 0 .. last : g[k] = IF k = 0 THEN Untouched
                                ELSE After(l, g[k - 1], NthIn(l, n, a, k))
    BY DEF ReplayedBy
  <1>2. 0 \in G
    BY <1>1
  <1>3. ASSUME NEW k \in Nat, k \in G PROVE k + 1 \in G
    <2>1. SUFFICES ASSUME k + 1 <= last PROVE f[k + 1] = g[k + 1]
      OBVIOUS
    <2>2. f[k] = g[k] /\ k + 1 \in 0 .. last /\ k + 1 # 0 /\ (k + 1) - 1 = k
      BY <1>3, <2>1
    <2>3. /\ f[k + 1] = After(l, f[k], NthIn(l, n, a, k + 1))
          /\ g[k + 1] = After(l, g[k], NthIn(l, n, a, k + 1))
      BY <1>1, <2>2
    <2> QED
      BY <2>2, <2>3
  <1> HIDE DEF G
  <1>4. last \in G
    BY <1>2, <1>3, InductionOverNaturals
  <1> QED
    BY <1>4 DEF G

\* The n-th line of an asset is the one with that number.
LEMMA NthFound ==
  ASSUME NEW l, NEW n, NEW a, NEW k \in Nat, NEW j \in 1 .. k,
         Numbers(EventsIn(l, a), n, k)
  PROVE  /\ NthIn(l, n, a, j) \in EventsIn(l, a)
         /\ \A o \in EventsIn(l, a) : n[o] = j <=> o = NthIn(l, n, a, j)
  <1>1. \E o \in EventsIn(l, a) : n[o] = j
    BY DEF Numbers
  <1>2. NthIn(l, n, a, j) \in EventsIn(l, a) /\ n[NthIn(l, n, a, j)] = j
    BY <1>1 DEF NthIn
  <1> QED
    BY <1>2 DEF Numbers

\* A replay looks at nothing but the lines of its asset and their numbers.
LEMMA ReplaySame ==
  ASSUME NEW l, NEW n, NEW m, NEW q, NEW a, NEW k \in Nat,
         EventsIn(l, a) \subseteq EventsIn(m, a),
         \A o \in EventsIn(l, a) : m[o] = l[o] /\ q[o] = n[o],
         Numbers(EventsIn(l, a), n, k),
         \A o \in EventsIn(m, a) \ EventsIn(l, a) : q[o] \notin 1 .. k,
         NEW j \in 1 .. k, NEW s
  PROVE  After(m, s, NthIn(m, q, a, j)) = After(l, s, NthIn(l, n, a, j))
  <1> DEFINE o == NthIn(l, n, a, j)
             p == NthIn(m, q, a, j)
  <1>1. o \in EventsIn(l, a) /\ \A x \in EventsIn(l, a) : n[x] = j <=> x = o
    BY NthFound
  <1>2. q[o] = j /\ o \in EventsIn(m, a)
    BY <1>1
  <1>3. p \in EventsIn(m, a) /\ q[p] = j
    BY <1>2 DEF NthIn
  <1>4. p = o
    BY <1>1, <1>3
  <1>5. m[p] = l[o]
    BY <1>1, <1>4
  <1> QED
    BY <1>4, <1>5 DEF After

\* Line o of ledger m comes after the k lines that asset a has in ledger l.
Added(l, n, m, q, a, k, o) ==
  /\ o \notin EventsIn(l, a)
  /\ EventsIn(m, a) = EventsIn(l, a) \union {o}
  /\ \A p \in EventsIn(l, a) : m[p] = l[p] /\ q[p] = n[p]
  /\ Numbers(EventsIn(l, a), n, k)
  /\ q[o] = k + 1

\* The next line is replayed after those before it.
LEMMA ReplayExtends ==
  ASSUME NEW l, NEW n, NEW m, NEW q, NEW a, NEW k \in Nat, NEW o,
         Added(l, n, m, q, a, k, o), NEW f, ReplayedBy(f, l, n, a, k)
  PROVE  /\ Numbers(EventsIn(m, a), q, k + 1)
         /\ ReplaysTo(After(m, f[k], o), m, q, a, k + 1)
  <1> USE DEF Added
  <1> DEFINE g == [j \in 0 .. k + 1 |-> IF j <= k THEN f[j] ELSE After(m, f[k], o)]
  <1>1. Numbers(EventsIn(m, a), q, k + 1)
    <2>1. \A p \in EventsIn(l, a) : q[p] \in 1 .. k /\ q[p] = n[p]
      BY DEF Numbers
    <2>2. \A p \in EventsIn(m, a) : q[p] \in 1 .. k + 1
      BY <2>1
    <2>3. ASSUME NEW j \in 1 .. k + 1 PROVE \E p \in EventsIn(m, a) : q[p] = j
      <3>1. CASE j = k + 1
        BY <3>1
      <3>2. CASE j # k + 1
        <4>1. j \in 1 .. k
          BY <3>2
        <4> QED
          BY <2>1, <4>1 DEF Numbers
      <3> QED
        BY <3>1, <3>2
    <2>4. \A x, y \in EventsIn(m, a) : q[x] = q[y] => x = y
      <3>1. \A p \in EventsIn(l, a) : q[p] # q[o]
        BY <2>1
      <3>2. \A x, y \in EventsIn(l, a) : q[x] = q[y] => x = y
        BY <2>1 DEF Numbers
      <3> QED
        BY <3>1, <3>2
    <2> QED
      BY <2>2, <2>3, <2>4 DEF Numbers
  <1>2. \A j \in 0 .. k : f[j] = IF j = 0 THEN Untouched
                                 ELSE After(l, f[j - 1], NthIn(l, n, a, j))
    BY DEF ReplayedBy
  <1>3. \A j \in 0 .. k + 1 : g[j] = IF j <= k THEN f[j] ELSE After(m, f[k], o)
    OBVIOUS
  <1>4. NthIn(m, q, a, k + 1) = o
    <2>1. k + 1 \in 1 .. k + 1 /\ o \in EventsIn(m, a)
      OBVIOUS
    <2>2. ASSUME NEW h \in Nat, h = k + 1
          PROVE  \A x \in EventsIn(m, a) : q[x] = h <=> x = NthIn(m, q, a, h)
      <3>1. Numbers(EventsIn(m, a), q, h) /\ h \in 1 .. h
        BY <1>1, <2>2
      <3> QED
        BY <3>1, NthFound
    <2> QED
      BY <2>1, <2>2
  <1>5. \A p \in EventsIn(m, a) \ EventsIn(l, a) : q[p] \notin 1 .. k
    OBVIOUS
  <1>6. ASSUME NEW j \in 0 .. k + 1
        PROVE  g[j] = IF j = 0 THEN Untouched
                      ELSE After(m, g[j - 1], NthIn(m, q, a, j))
    <2> HIDE DEF g
    <2>1. CASE j = 0
      BY <1>2, <1>3, <2>1
    <2>2. CASE j = k + 1
      <3>1. g[j] = After(m, f[k], o) /\ j # 0 /\ j - 1 = k
        BY <1>3, <2>2
      <3>2. g[k] = f[k]
        BY <1>3
      <3> QED
        BY <1>4, <2>2, <3>1, <3>2
    <2>3. CASE j # 0 /\ j # k + 1
      <3>1. j \in 1 .. k /\ j \in 0 .. k /\ j - 1 \in 0 .. k + 1 /\ j - 1 <= k /\ j <= k
        BY <2>3
      <3>2. g[j] = f[j] /\ g[j - 1] = f[j - 1]
        BY <1>3, <3>1
      <3>3. f[j] = After(l, f[j - 1], NthIn(l, n, a, j))
        BY <1>2, <2>3, <3>1
      <3>4. EventsIn(l, a) \subseteq EventsIn(m, a)
        OBVIOUS
      <3>5. After(m, f[j - 1], NthIn(m, q, a, j)) = After(l, f[j - 1], NthIn(l, n, a, j))
        BY <1>5, <3>1, <3>4, ReplaySame
      <3> QED
        BY <2>3, <3>2, <3>3, <3>5
    <2> QED
      BY <2>1, <2>2, <2>3
  <1>7. g = [j \in 0 .. k + 1 |-> g[j]]
    OBVIOUS
  <1>8. g[k + 1] = After(m, f[k], o)
    BY <1>3
  <1> HIDE DEF g
  <1>9. ReplayedBy(g, m, q, a, k + 1)
    <2>1. [j \in 0 .. k + 1 |-> g[j]] =
            [j \in 0 .. k + 1 |-> IF j = 0 THEN Untouched
                                  ELSE After(m, g[j - 1], NthIn(m, q, a, j))]
      BY <1>6
    <2> QED
      BY <1>7, <2>1 DEF ReplayedBy
  <1> QED
    BY <1>1, <1>8, <1>9 DEF ReplaysTo

\* A line of another asset does not change a replay.
LEMMA ReplayKept ==
  ASSUME NEW l, NEW n, NEW m, NEW q, NEW a, NEW k \in Nat,
         EventsIn(m, a) = EventsIn(l, a),
         \A p \in EventsIn(l, a) : m[p] = l[p] /\ q[p] = n[p],
         Numbers(EventsIn(l, a), n, k),
         NEW f, ReplayedBy(f, l, n, a, k)
  PROVE  Numbers(EventsIn(m, a), q, k) /\ ReplayedBy(f, m, q, a, k)
  <1>1. Numbers(EventsIn(m, a), q, k)
    BY DEF Numbers
  <1>2. ASSUME NEW j \in 0 .. k, j # 0
        PROVE  After(m, f[j - 1], NthIn(m, q, a, j)) = After(l, f[j - 1], NthIn(l, n, a, j))
    <2>1. j \in 1 .. k
      BY <1>2
    <2>2. /\ EventsIn(l, a) \subseteq EventsIn(m, a)
          /\ \A o \in EventsIn(m, a) \ EventsIn(l, a) : q[o] \notin 1 .. k
      OBVIOUS
    <2> QED
      BY <2>1, <2>2, ReplaySame
  <1>3. [j \in 0 .. k |-> IF j = 0 THEN Untouched
                          ELSE After(l, f[j - 1], NthIn(l, n, a, j))] =
          [j \in 0 .. k |-> IF j = 0 THEN Untouched
                            ELSE After(m, f[j - 1], NthIn(m, q, a, j))]
    BY <1>2
  <1>4. f = [j \in 0 .. k |-> IF j = 0 THEN Untouched
                              ELSE After(l, f[j - 1], NthIn(l, n, a, j))]
    BY DEF ReplayedBy
  <1>5. ReplayedBy(f, m, q, a, k)
    BY <1>3, <1>4, Zenon DEF ReplayedBy
  <1> QED
    BY <1>1, <1>5

\* The lines of an asset are numbered in order, and their replay, impossible at no
\* line, ends in the asset's custody, with the issue that is open.
ReplayFits(a) ==
  LET E == EventsIn(ledger, a)
      k == Cardinality(EventsIn(ledger, a))
  IN  /\ IsFiniteSet(E)
      /\ Numbers(E, number, k)
      /\ \E f : /\ ReplayedBy(f, ledger, number, a, k)
                /\ f[k].ok
                /\ f[k].at = custody[a]
                /\ custody[a].state = "ISSUED" => f[k].issue \in Open(a)

\* The next number of an asset is one more than it has lines.
LEMMA NextNumberIs ==
  ASSUME NEW a, NEW k \in Nat, Numbers(EventsIn(ledger, a), number, k)
  PROVE  C!NextNumber(a) = k + 1
  <1> DEFINE S == {number[o] : o \in EventsIn(ledger, a)} \union {0}
  <1>1. k \in S /\ \A x \in S : x \in Nat /\ x <= k
    <2>1. \A x \in S : x = 0 \/ x \in 1 .. k
      BY DEF Numbers
    <2>2. k = 0 \/ k \in 1 .. k
      OBVIOUS
    <2>3. k \in 1 .. k => \E o \in EventsIn(ledger, a) : number[o] = k
      BY DEF Numbers
    <2> QED
      BY <2>1, <2>2, <2>3
  <1>2. C!NextNumber(a) = 1 + C!Max(S)
    BY DEF C!NextNumber, C!EventsOf, EventsIn
  <1> HIDE DEF S
  <1>3. \A x \in S : (\A y \in S : x >= y) <=> x = k
    BY <1>1
  <1>4. C!Max(S) = k
    BY <1>1, <1>3 DEF C!Max
  <1> QED
    BY <1>2, <1>4

\* A line that is posted as AssetCustody says is the next of its asset's replay, and
\* not seen in any other.
LEMMA PostKeepsReplay ==
  ASSUME HistoryInv, NEW job \in Workload, \A b \in Asset : ReplayFits(b),
         NEW o, NEW r, NEW a, NEW at \in Custody,
         o = job[1], r = job[2], a = r.asset, at = custody[a],
         ledger[o] = NoLine, C!OriginalFits(r), Fits(r, at),
         ledger'[o] = r, custody'[a] = Moved(r, at),
         number' = [number EXCEPT ![o] = C!NextNumber(a)],
         DOMAIN number = OperationId,
         \A p \in OperationId \ {o} : ledger'[p] = ledger[p],
         \A b \in Asset \ {a} : custody'[b] = custody[b]
  PROVE  \A b \in Asset : ReplayFits(b)'
  <1>1. o \in OperationId /\ r \in Line /\ a \in Asset
    BY JobFacts
  <1>2. NoLine.asset = None /\ NoLine.type = "NONE" /\ None \notin Asset
    BY AssetConstants DEF AssetConstants, NoLine
  <1>3. /\ \A b \in Asset \ {a} : EventsIn(ledger', b) = EventsIn(ledger, b)
        /\ EventsIn(ledger', a) = EventsIn(ledger, a) \union {o}
        /\ \A b \in Asset : /\ o \notin EventsIn(ledger, b)
                            /\ EventsIn(ledger, b) \subseteq OperationId
    BY <1>1, <1>2 DEF EventsIn
  <1>4. /\ number'[o] = C!NextNumber(a)
        /\ \A b \in Asset : \A p \in EventsIn(ledger, b) :
             ledger'[p] = ledger[p] /\ number'[p] = number[p]
    BY <1>1, <1>3
  <1>5. /\ r.type = "RETURN" =>
             /\ r.original \in OperationId
             /\ ledger[r.original].type = "ISSUE" /\ ledger[r.original].asset = a
             /\ ~Returned(r.original)
        /\ \A p \in OperationId : ledger[p].type = "RETURN" => ledger[p].original # o
    BY <1>1, <1>2, JobFacts
    DEF C!OriginalFits, Returned, HistoryInv, ReturnsReferToIssues
  <1>6. ASSUME NEW b \in Asset \ {a} PROVE ReplayFits(b)'
    <2> DEFINE k == Cardinality(EventsIn(ledger, b))
    <2>1. /\ IsFiniteSet(EventsIn(ledger, b))
          /\ Numbers(EventsIn(ledger, b), number, k)
      BY DEF ReplayFits
    <2>2. PICK f : /\ ReplayedBy(f, ledger, number, b, k)
                   /\ f[k].ok
                   /\ f[k].at = custody[b]
                   /\ custody[b].state = "ISSUED" => f[k].issue \in Open(b)
      BY DEF ReplayFits
    <2>3. k \in Nat
      BY <2>1, FS_CardinalityType
    <2>4. EventsIn(ledger', b) = EventsIn(ledger, b) /\ custody'[b] = custody[b]
      BY <1>3
    <2>5. k = Cardinality(EventsIn(ledger', b))
      BY <2>4
    <2> HIDE DEF k
    <2>6. /\ Numbers(EventsIn(ledger', b), number', k)
          /\ ReplayedBy(f, ledger', number', b, k)
      <3>1. \A p \in EventsIn(ledger, b) : ledger'[p] = ledger[p] /\ number'[p] = number[p]
        BY <1>4
      <3> QED
        BY <2>1, <2>2, <2>3, <2>4, <3>1, ReplayKept
    <2>7. Open(b) \subseteq Open(b)'
      <3> SUFFICES ASSUME NEW p \in Open(b) PROVE p \in Open(b)'
        OBVIOUS
      <3>1. /\ p \in EventsIn(ledger, b) /\ ledger[p].type = "ISSUE" /\ ~Returned(p)
            /\ ledger[p].asset = b
        BY DEF Open, History, EventsIn
      <3>2. /\ p \in OperationId \ {o} /\ ledger'[p] = ledger[p]
        BY <1>3, <3>1
      <3>3. ~(r.type = "RETURN" /\ r.original = p)
        BY <1>5, <3>1
      <3>4. ~Returned(p)'
        BY <3>1, <3>3 DEF Returned
      <3> QED
        BY <3>1, <3>2, <3>4 DEF Open, History
    <2>8. f[k].ok /\ f[k].at = custody'[b]
          /\ (custody'[b].state = "ISSUED" => f[k].issue \in Open(b)')
      BY <2>2, <2>4, <2>7
    <2> QED
      BY <2>1, <2>4, <2>5, <2>6, <2>8 DEF ReplayFits
  <1>7. ReplayFits(a)'
    <2> DEFINE k == Cardinality(EventsIn(ledger, a))
    <2>1. /\ IsFiniteSet(EventsIn(ledger, a))
          /\ Numbers(EventsIn(ledger, a), number, k)
      BY <1>1 DEF ReplayFits
    <2>2. PICK f : /\ ReplayedBy(f, ledger, number, a, k)
                   /\ f[k].ok
                   /\ f[k].at = at
                   /\ at.state = "ISSUED" => f[k].issue \in Open(a)
      BY <1>1 DEF ReplayFits
    <2>3. k \in Nat
      BY <2>1, FS_CardinalityType
    <2>4. IsFiniteSet(EventsIn(ledger', a)) /\ Cardinality(EventsIn(ledger', a)) = k + 1
      BY <1>1, <1>3, <2>1, FS_AddElement
    <2> HIDE DEF k
    <2>5. number'[o] = k + 1
      BY <1>4, <2>1, <2>3, NextNumberIs
    <2>6. PICK g : /\ Numbers(EventsIn(ledger', a), number', k + 1)
                   /\ ReplayedBy(g, ledger', number', a, k + 1)
                   /\ g[k + 1] = After(ledger', f[k], o)
      <3>1. \A p \in EventsIn(ledger, a) : ledger'[p] = ledger[p] /\ number'[p] = number[p]
        BY <1>1, <1>4
      <3>2. o \notin EventsIn(ledger, a)
        BY <1>1, <1>3
      <3>3. EventsIn(ledger', a) = EventsIn(ledger, a) \union {o}
        BY <1>3
      <3>4. Numbers(EventsIn(ledger, a), number, k) /\ ReplayedBy(f, ledger, number, a, k)
        BY <2>1, <2>2
      <3>5. /\ Numbers(EventsIn(ledger', a), number', k + 1)
            /\ ReplaysTo(After(ledger', f[k], o), ledger', number', a, k + 1)
        <4>1. Added(ledger, number, ledger', number', a, k, o)
          BY <2>5, <3>1, <3>2, <3>3, <3>4 DEF Added
        <4> QED
          BY <2>3, <3>4, <4>1, ReplayExtends
      <3> QED
        BY <3>5 DEF ReplaysTo
    <2>7. r.type = "RETURN" => r.original = f[k].issue
      <3> SUFFICES ASSUME r.type = "RETURN" PROVE r.original = f[k].issue
        OBVIOUS
      <3>1. at.state = "ISSUED"
        BY DEF Fits
      <3>2. f[k].issue \in Open(a) /\ \E i \in OperationId : Open(a) = {i}
        BY <1>1, <2>2, <3>1 DEF HistoryInv, LinesFit
      <3>3. r.original \in Open(a)
        BY <1>5 DEF Open, History
      <3> QED
        BY <3>2, <3>3
    <2>8. g[k + 1] = [at |-> Moved(r, at), ok |-> TRUE,
                      issue |-> IF r.type = "ISSUE" THEN o ELSE NoOperation]
      BY <2>2, <2>6, <2>7 DEF After
    <2>9. Moved(r, at).state = "ISSUED" => g[k + 1].issue \in Open(a)'
      <3> SUFFICES ASSUME Moved(r, at).state = "ISSUED" PROVE g[k + 1].issue \in Open(a)'
        OBVIOUS
      <3>1. r.type = "ISSUE"
        <4>1. r.type = "RECEIPT" => Moved(r, at).state = "IN_STOCK"
          BY DEF Moved
        <4>2. at = [material |-> at.material, condition |-> at.condition,
                    state |-> at.state, location |-> at.location]
          BY DEF Custody, Unregistered
        <4>3. r.type \notin {"RECEIPT", "ISSUE"} => Moved(r, at).state = "IN_STOCK"
          BY <4>2 DEF Moved
        <4> QED
          BY <4>1, <4>3
      <3>2. ~Returned(o)'
        BY <1>1, <1>5, <3>1 DEF Returned
      <3>3. o \in Open(a)'
        BY <1>1, <1>3, <3>1, <3>2 DEF Open, History
      <3> QED
        BY <2>8, <3>1, <3>3
    <2>10. g[k + 1].ok /\ g[k + 1].at = custody'[a]
      BY <2>8
    <2> QED
      BY <2>4, <2>6, <2>9, <2>10 DEF ReplayFits
  <1> QED
    BY <1>6, <1>7

\* A replay that fits is what AssetCustody says of it.
LEMMA ReplayFitsMeans ==
  ASSUME NEW a, ReplayFits(a)
  PROVE  /\ {number[o] : o \in C!EventsOf(a)} = 1 .. C!Cardinality(C!EventsOf(a))
         /\ C!Replayed(a).ok
         /\ C!Replayed(a).at = custody[a]
  <1> DEFINE k == Cardinality(EventsIn(ledger, a))
             h == CHOOSE f : ReplayedBy(f, ledger, number, a, k)
  <1>1. /\ IsFiniteSet(EventsIn(ledger, a))
        /\ Numbers(EventsIn(ledger, a), number, k)
    BY DEF ReplayFits
  <1>2. k \in Nat
    BY <1>1, FS_CardinalityType
  <1>3. PICK f : ReplayedBy(f, ledger, number, a, k) /\ f[k].ok /\ f[k].at = custody[a]
    BY DEF ReplayFits
  <1>4. ReplayedBy(h, ledger, number, a, k)
    BY <1>3, Zenon
  <1>5. /\ C!EventsOf(a) = EventsIn(ledger, a)
        /\ C!Cardinality(C!EventsOf(a)) = k
        /\ C!Replayed(a) = h[k]
    BY ReplayChosen
  <1> HIDE DEF k, h
  <1>6. h[k] = f[k]
    BY <1>2, <1>3, <1>4, ReplayUnique
  <1>7. {number[o] : o \in EventsIn(ledger, a)} = 1 .. k
    BY <1>1 DEF Numbers
  <1> QED
    BY <1>3, <1>5, <1>6, <1>7

\* The numbered history of every asset leads to the custody that is recorded, under
\* every interleaving of the services.
THEOREM HistoriesReplay == Spec => []HistoryReplays
  <1>1. Init => \A a \in Asset : ReplayFits(a)
    <2> SUFFICES ASSUME Init, NEW a \in Asset PROVE ReplayFits(a)
      OBVIOUS
    <2>1. /\ ledger = [o \in OperationId |-> NoLine]
          /\ custody[a] = Unregistered
      BY DEF Init, C!Init, NoLine, C!NoLine, Unregistered, C!Unregistered
    <2>2. NoLine.asset = None /\ None \notin Asset
      BY AssetConstants DEF AssetConstants, NoLine
    <2>3. EventsIn(ledger, a) = {}
      BY <2>1, <2>2 DEF EventsIn
    <2>4. IsFiniteSet({}) /\ Cardinality({}) = 0
      BY FS_EmptySet
    <2>5. Numbers({}, number, 0)
      BY DEF Numbers
    <2> DEFINE f == [k \in 0 .. 0 |-> Untouched]
    <2>6. ReplayedBy(f, ledger, number, a, 0)
      <3>1. [k \in 0 .. 0 |-> Untouched] =
              [k \in 0 .. 0 |-> IF k = 0 THEN Untouched
                                ELSE After(ledger, f[k - 1], NthIn(ledger, number, a, k))]
        OBVIOUS
      <3> QED
        BY <3>1 DEF ReplayedBy
    <2>7. f[0].ok /\ f[0].at = custody[a] /\ custody[a].state # "ISSUED"
      BY <2>1 DEF Untouched, Unregistered
    <2> HIDE DEF f
    <2> QED
      BY <2>3, <2>4, <2>5, <2>6, <2>7 DEF ReplayFits
  <1>2. /\ IInv /\ HistoryInv /\ (\A a \in Asset : ReplayFits(a)) /\ [Next]_vars
        => (\A a \in Asset : ReplayFits(a))'
    <2> SUFFICES ASSUME IInv, HistoryInv, \A a \in Asset : ReplayFits(a), [Next]_vars
                 PROVE  \A a \in Asset : ReplayFits(a)'
      OBVIOUS
    <2>1. ASSUME NEW w \in Worker, Commit(w) PROVE \A a \in Asset : ReplayFits(a)'
      <3>1. DOMAIN number = OperationId
        BY DEF IInv, Typed
      <3> QED
        BY <2>1, <3>1, CommitFacts, PostKeepsReplay
    <2>2. CASE UNCHANGED data
      BY <2>2 DEF data, ReplayFits, Open, History, Returned
    <2>3. CASE ~(\E w \in Worker : Commit(w))
      BY <2>2, <2>3 DEF Next, Submit, Reserve, Duplicate, Lock, Reject, Crash,
                        SetActive, vars, data
    <2> QED
      BY <2>1, <2>3
  <1>3. (\A a \in Asset : ReplayFits(a)) => HistoryReplays
    BY ReplayFitsMeans DEF HistoryReplays, C!HistoryReplays
  <1> QED
    BY <1>1, <1>2, <1>3, Invariance, HistoryInvariance, PTL DEF Spec

-----------------------------------------------------------------------------
(***************************************************************************)
(* Deadlocks.  All requests lock their rows in one order, RowBefore.       *)
(***************************************************************************)
Rank(x) ==
  CASE x[1] = "transaction" -> 0
    [] x[1] = "line"        -> 1
    [] x[1] = "material"    -> 2
    [] x[1] = "location"    -> 3
    [] x[1] = "condition"   -> 4
    [] x[1] = "code"        -> 5
    [] OTHER                -> 6

RowBefore(x, y) ==
  \/ Rank(x) < Rank(y)
  \/ \E k, l \in Location : x = LocationRow(k) /\ y = LocationRow(l) /\ k < l

\* The rows h come before the rows that s lists, and those in their order.
InOrder(h, s) ==
  /\ \A x \in h : \A i \in 1 .. Len(s) : RowBefore(x, s[i])
  /\ \A i, j \in 1 .. Len(s) : i < j => RowBefore(s[i], s[j])

LocksInOrder == \A w \in Worker : Reserved(w) => InOrder(held[w], todo[w])

LEMMA RankIs ==
  ASSUME NEW a
  PROVE  /\ Rank(TransactionRow(a)) = 0 /\ Rank(LineRow(a)) = 1
         /\ Rank(MaterialRow(a)) = 2 /\ Rank(LocationRow(a)) = 3
         /\ Rank(ConditionRow(a)) = 4 /\ Rank(CodeRow(a)) = 5
         /\ Rank(AssetRow(a)) = 6
  BY DEF Rank, TransactionRow, LineRow, MaterialRow, LocationRow, ConditionRow,
         CodeRow, AssetRow

LEMMA RowOrder ==
  ASSUME NEW x
  PROVE  /\ ~RowBefore(x, x)
         /\ \A y, z : RowBefore(x, y) /\ RowBefore(y, z) => RowBefore(x, z)
  <1>1. \A y : Rank(y) \in 0 .. 6
    BY DEF Rank
  <1>2. \A k, l : LocationRow(k) = LocationRow(l) => k = l
    BY DEF LocationRow
  <1>3. \A k \in Location : k \in Nat
    BY AssetConstants DEF AssetConstants
  <1>4. \A k : Rank(LocationRow(k)) = 3
    BY RankIs
  <1>5. ~RowBefore(x, x)
    BY <1>1, <1>2, <1>3 DEF RowBefore
  <1>6. ASSUME NEW y, NEW z, RowBefore(x, y), RowBefore(y, z)
        PROVE  RowBefore(x, z)
    <2>1. CASE Rank(x) < Rank(y) \/ Rank(y) < Rank(z)
      <3>1. Rank(x) <= Rank(y) /\ Rank(y) <= Rank(z)
        BY <1>1, <1>4, <1>6 DEF RowBefore
      <3>2. Rank(x) < Rank(z)
        BY <1>1, <2>1, <3>1
      <3> QED
        BY <3>2 DEF RowBefore
    <2>2. CASE ~(Rank(x) < Rank(y)) /\ ~(Rank(y) < Rank(z))
      <3>1. PICK k \in Location, l \in Location :
              x = LocationRow(k) /\ y = LocationRow(l) /\ k < l
        BY <1>6, <2>2 DEF RowBefore
      <3>2. PICK m \in Location, n \in Location :
              y = LocationRow(m) /\ z = LocationRow(n) /\ m < n
        BY <1>6, <2>2 DEF RowBefore
      <3>3. l = m
        BY <1>2, <3>1, <3>2
      <3>4. k < n
        BY <1>3, <3>1, <3>2, <3>3
      <3> QED
        BY <3>1, <3>2, <3>4 DEF RowBefore
    <2> QED
      BY <2>1, <2>2
  <1> QED
    BY <1>5, <1>6

\* The services list the rows to lock in their order.
LEMMA RequestsLockInOrder ==
  ASSUME NEW job \in Workload, NEW at \in Custody
  PROVE  InOrder({TransactionRow(job[1])}, RowsInOrder(job[2], at))
  <1> DEFINE r == job[2]
             s == RowsInOrder(r, at)
             h == TransactionRow(job[1])
  <1>1. Rank(h) = 0
    BY RankIs
  <1>2. /\ r.type \in {"RECEIPT", "ISSUE", "RETURN", "TRANSFER"}
        /\ r.type = "TRANSFER" => r.source \in Location /\ r.target \in Location
    BY JobFacts DEF Line
  <1>3. CASE r.type \in {"RECEIPT", "ISSUE"}
    <2>1. PICK a, b, c, d : /\ s = <<a, b, c, d>>
                            /\ Rank(a) = 2 /\ Rank(b) = 3 /\ Rank(c) = 4
                            /\ Rank(d) \in {5, 6}
      <3>1. CASE r.type = "RECEIPT"
        <4>1. s = <<MaterialRow(r.material), LocationRow(r.target),
                    ConditionRow(r.condition), CodeRow(r.asset)>>
          BY <3>1 DEF RowsInOrder
        <4> HIDE DEF s
        <4> QED
          BY <4>1, RankIs
      <3>2. CASE r.type = "ISSUE"
        <4>1. s = <<MaterialRow(at.material), LocationRow(r.source),
                    ConditionRow(r.condition), AssetRow(r.asset)>>
          BY <3>2 DEF RowsInOrder
        <4> HIDE DEF s
        <4> QED
          BY <4>1, RankIs
      <3> QED
        BY <1>3, <3>1, <3>2
    <2> HIDE DEF s, h
    <2>2. Len(s) = 4 /\ s[1] = a /\ s[2] = b /\ s[3] = c /\ s[4] = d
      BY <2>1
    <2>3. \A i \in 1 .. 4 : Rank(h) < Rank(s[i])
      BY <1>1, <2>1, <2>2
    <2>4. \A i, j \in 1 .. 4 : i < j => Rank(s[i]) < Rank(s[j])
      BY <2>1, <2>2
    <2> QED
      BY <2>2, <2>3, <2>4 DEF InOrder, RowBefore, s, h
  <1>4. CASE r.type = "RETURN"
    <2>1. s = <<LineRow(r.original), MaterialRow(at.material), LocationRow(r.target),
                ConditionRow(at.condition), AssetRow(r.asset)>>
      BY <1>4 DEF RowsInOrder
    <2> HIDE DEF s, h
    <2>2. /\ Len(s) = 5 /\ Rank(s[1]) = 1 /\ Rank(s[2]) = 2 /\ Rank(s[3]) = 3
          /\ Rank(s[4]) = 4 /\ Rank(s[5]) = 6
      BY <2>1, RankIs
    <2>3. \A i \in 1 .. 5 : Rank(h) < Rank(s[i])
      BY <1>1, <2>2
    <2>4. \A i, j \in 1 .. 5 : i < j => Rank(s[i]) < Rank(s[j])
      BY <2>2
    <2> QED
      BY <2>2, <2>3, <2>4 DEF InOrder, RowBefore, s, h
  <1>5. CASE r.type = "TRANSFER"
    <2>1. PICK k \in Location, l \in Location :
            LocationRows(r) = <<LocationRow(k), LocationRow(l)>> /\ k < l
      <3>1. r.source # r.target
        BY <1>5, AssetConstants DEF AssetConstants
      <3>2. r.source \in Nat /\ r.target \in Nat
        BY <1>2, <1>5, AssetConstants DEF AssetConstants
      <3>3. CASE r.source < r.target
        BY <1>2, <1>5, <3>3 DEF LocationRows
      <3>4. CASE ~(r.source < r.target)
        <4>1. r.target < r.source
          BY <3>1, <3>2, <3>4
        <4> QED
          BY <1>2, <1>5, <3>4, <4>1 DEF LocationRows
      <3> QED
        BY <3>3, <3>4
    <2>2. s = <<MaterialRow(at.material), LocationRow(k), LocationRow(l),
                ConditionRow(r.condition), AssetRow(r.asset)>>
      BY <1>5, <2>1, FiveRows DEF RowsInOrder
    <2> HIDE DEF s, h
    <2>3. /\ Len(s) = 5 /\ Rank(s[1]) = 2 /\ Rank(s[2]) = 3 /\ Rank(s[3]) = 3
          /\ Rank(s[4]) = 4 /\ Rank(s[5]) = 6
      BY <2>2, RankIs
    <2>4. s[2] = LocationRow(k) /\ s[3] = LocationRow(l)
      BY <2>2
    <2>5. RowBefore(s[2], s[3])
      BY <2>1, <2>4 DEF RowBefore
    <2>6. \A i \in 1 .. 5 : Rank(h) < Rank(s[i])
      BY <1>1, <2>3
    <2>7. \A i, j \in 1 .. 5 : i < j => Rank(s[i]) < Rank(s[j]) \/ (i = 2 /\ j = 3)
      BY <2>3
    <2> QED
      BY <2>3, <2>5, <2>6, <2>7 DEF InOrder, RowBefore, s, h
  <1> QED
    BY <1>2, <1>3, <1>4, <1>5

\* What is left to lock is in order after what is held, the next row included.
LEMMA NextRowInOrder ==
  ASSUME NEW R, NEW s \in Seq(R), s # <<>>, NEW h, InOrder(h, s)
  PROVE  InOrder(h \union {Head(s)}, Tail(s))
  <1> DEFINE t == Tail(s)
  <1>1. /\ Head(s) = s[1] /\ Len(t) = Len(s) - 1 /\ Len(s) \in Nat \ {0}
        /\ \A i \in 1 .. Len(t) : t[i] = s[i + 1]
    <2>1. /\ Len(t) = Len(s) - 1
          /\ \A i \in 1 .. Len(t) : t[i] = s[i + 1]
      BY HeadTailProperties
    <2>2. Len(s) \in Nat \ {0} /\ Head(s) = s[1]
      BY EmptySeq
    <2> QED
      BY <2>1, <2>2
  <1> HIDE DEF t
  <1>2. \A i \in 1 .. Len(t) : i + 1 \in 1 .. Len(s) /\ 1 \in 1 .. Len(s) /\ 1 < i + 1
    BY <1>1
  <1>3. \A i \in 1 .. Len(t) : RowBefore(Head(s), t[i])
    BY <1>1, <1>2 DEF InOrder
  <1>4. \A x \in h : \A i \in 1 .. Len(t) : RowBefore(x, t[i])
    BY <1>1, <1>2 DEF InOrder
  <1>5. \A i, j \in 1 .. Len(t) : i < j => RowBefore(t[i], t[j])
    <2> SUFFICES ASSUME NEW i \in 1 .. Len(t), NEW j \in 1 .. Len(t), i < j
                 PROVE  RowBefore(t[i], t[j])
      OBVIOUS
    <2>1. i + 1 \in 1 .. Len(s) /\ j + 1 \in 1 .. Len(s) /\ i + 1 < j + 1
      BY <1>2
    <2>2. RowBefore(s[i + 1], s[j + 1])
      BY <2>1 DEF InOrder
    <2> QED
      BY <1>1, <2>2
  <1> QED
    BY <1>3, <1>4, <1>5 DEF InOrder, t

\* A step keeps what transactions hold before what they have still to lock.
LEMMA StepKeepsOrder ==
  ASSUME IInv, LocksInOrder, [Next]_vars
  PROVE  LocksInOrder'
  <1>1. ASSUME NEW w \in Worker, \A v \in Worker \ {w} : Aside(v),
               Reserved(w)' => InOrder(held'[w], todo'[w])
        PROVE  LocksInOrder'
    <2> SUFFICES ASSUME NEW v \in Worker, Reserved(v)'
                 PROVE  InOrder(held'[v], todo'[v])
      BY DEF LocksInOrder
    <2>1. CASE v = w
      BY <1>1, <2>1
    <2>2. CASE v # w
      <3>1. Aside(v)
        BY <1>1, <2>2
      <3>2. Reserved(v) /\ held'[v] = held[v] /\ todo'[v] = todo[v]
        BY <3>1 DEF Aside, Reserved, OperationOf
      <3> QED
        BY <3>2 DEF LocksInOrder
    <2> QED
      BY <2>1, <2>2
  <1>2. ASSUME NEW w \in Worker, Finish(w) PROVE LocksInOrder'
    <2>1. \A v \in Worker \ {w} : Aside(v)
      BY <1>2, FinishFacts
    <2>2. ~Reserved(w)'
      BY <1>2 DEF Finish, IInv, Typed, Reserved
    <2> QED
      BY <1>1, <2>1, <2>2
  <1>3. ASSUME NEW w \in Worker, NEW job \in Workload, Submit(w, job)
        PROVE  LocksInOrder'
    <2>1. \A v \in Worker \ {w} : Aside(v)
      BY <1>3 DEF Submit, IInv, Typed, Aside
    <2>2. held'[w] = {}
      BY <1>3 DEF Submit, IInv, Covers
    <2> QED
      BY <1>1, <2>1, <2>2 DEF Reserved
  <1>4. ASSUME NEW w \in Worker, Reserve(w), ~Finish(w) PROVE LocksInOrder'
    <2> DEFINE o == OperationOf(w)
               r == LineOf(w)
    <2>1. /\ request[w] # NoJob
          /\ held' = [held EXCEPT ![w] = {TransactionRow(o)}]
          /\ todo' = [todo EXCEPT ![w] = RowsInOrder(r, custody[r.asset])]
          /\ request' = request /\ refused' = refused /\ seen' = seen
          /\ drawn' = drawn
      BY <1>4 DEF Reserve
    <2>2. \A v \in Worker \ {w} : Aside(v)
      BY <2>1 DEF IInv, Typed, Aside
    <2>3. request[w] \in Workload /\ r.asset \in Asset
      BY <2>1, JobFacts DEF IInv, Typed, LineOf
    <2>4. custody[r.asset] \in Custody
      BY <2>3 DEF IInv, Typed
    <2>5. InOrder({TransactionRow(o)}, RowsInOrder(r, custody[r.asset]))
      BY <2>3, <2>4, RequestsLockInOrder DEF OperationOf, LineOf
    <2>6. /\ held'[w] = {TransactionRow(o)}
          /\ todo'[w] = RowsInOrder(r, custody[r.asset])
      BY <2>1 DEF IInv, Typed
    <2> QED
      BY <1>1, <2>2, <2>5, <2>6
  <1>5. ASSUME NEW w \in Worker, Lock(w) PROVE LocksInOrder'
    <2>1. /\ Reserved(w) /\ todo[w] # <<>>
          /\ held' = [held EXCEPT ![w] = @ \union {Head(todo[w])}]
          /\ todo' = [todo EXCEPT ![w] = Tail(@)]
      BY <1>5 DEF Lock
    <2>2. \A v \in Worker \ {w} : Aside(v)
      BY <1>5 DEF Lock, IInv, Typed, Aside
    <2>3. todo[w] \in Seq(RowsFor(OperationOf(w), LineOf(w)))
      BY <2>1, AtWork DEF IInv, CoveredBy
    <2>4. InOrder(held[w], todo[w])
      BY <2>1 DEF LocksInOrder
    <2>5. InOrder(held[w] \union {Head(todo[w])}, Tail(todo[w]))
      BY <2>1, <2>3, <2>4, NextRowInOrder
    <2>6. held'[w] = held[w] \union {Head(todo[w])} /\ todo'[w] = Tail(todo[w])
      BY <2>1 DEF IInv, Typed
    <2> QED
      BY <1>1, <2>2, <2>5, <2>6
  <1>6. CASE UNCHANGED <<request, held, todo>>
    BY <1>6 DEF LocksInOrder, Reserved, OperationOf
  <1>7. ASSUME NEW w \in Worker, Duplicate(w) \/ Reject(w) \/ Commit(w) \/ Crash(w)
        PROVE  LocksInOrder'
    BY <1>2, <1>7 DEF Duplicate, Reject, Commit, Crash
  <1> QED
    BY <1>2, <1>3, <1>4, <1>5, <1>6, <1>7 DEF Next, SetActive, vars

\* Finitely many transactions that hold rows in order do not wait for each other.
LEMMA OrderedNeverWait ==
  ASSUME IInv, LocksInOrder, NEW S \in SUBSET Worker, IsFiniteSet(S), S # {},
         \A w \in S : \E v \in S : WaitsFor(w, v)
  PROVE  FALSE
  <1> DEFINE T == {w \in S : Reserved(w)}
             R == {vw \in T \X T : RowBefore(Head(todo[vw[1]]), Head(todo[vw[2]]))}
  <1>1. \A w \in S : \E v \in T : /\ WaitsFor(w, v)
                                  /\ Reserved(w) => Head(todo[w]) \in held[v]
    <2> SUFFICES ASSUME NEW w \in S
                 PROVE  \E v \in T : /\ WaitsFor(w, v)
                                     /\ Reserved(w) => Head(todo[w]) \in held[v]
      OBVIOUS
    <2>1. PICK v \in S : WaitsFor(w, v)
      OBVIOUS
    <2>2. held[v] # {} /\ (Reserved(w) => Head(todo[w]) \in held[v])
      BY <2>1 DEF WaitsFor
    <2>3. Reserved(v)
      BY <2>2 DEF IInv, Covers
    <2> QED
      BY <2>1, <2>2, <2>3
  <1>2. ASSUME NEW w \in T
        PROVE  /\ 1 \in 1 .. Len(todo[w]) /\ Head(todo[w]) = todo[w][1]
               /\ InOrder(held[w], todo[w])
    <2>1. todo[w] # <<>>
      BY <1>1 DEF WaitsFor
    <2>2. todo[w] \in Seq(RowsFor(OperationOf(w), LineOf(w)))
      BY AtWork DEF IInv, CoveredBy
    <2>3. Len(todo[w]) \in Nat \ {0}
      BY <2>1, <2>2, EmptySeq
    <2>4. Head(todo[w]) = todo[w][1]
      BY <2>1, <2>2
    <2> QED
      BY <2>3, <2>4 DEF LocksInOrder
  <1>3. \A w \in T : \E v \in T : <<w, v>> \in R
    <2> SUFFICES ASSUME NEW w \in T PROVE \E v \in T : <<w, v>> \in R
      OBVIOUS
    <2>1. PICK v \in T : Head(todo[w]) \in held[v]
      BY <1>1
    <2>2. RowBefore(Head(todo[w]), Head(todo[v]))
      BY <1>2, <2>1 DEF InOrder
    <2> QED
      BY <2>2
  <1>4. \A w \in T : <<w, w>> \notin R
    BY RowOrder
  <1>5. \A u, v, w \in T : <<u, v>> \in R /\ <<v, w>> \in R => <<u, w>> \in R
    <2> SUFFICES ASSUME NEW u \in T, NEW v \in T, NEW w \in T,
                        RowBefore(Head(todo[u]), Head(todo[v])),
                        RowBefore(Head(todo[v]), Head(todo[w]))
                 PROVE  RowBefore(Head(todo[u]), Head(todo[w]))
      OBVIOUS
    <2> QED
      BY RowOrder
  <1>6. T # {} /\ IsFiniteSet(T)
    BY <1>1, FS_Subset
  <1> HIDE DEF R, T
  <1> QED
    BY <1>3, <1>4, <1>5, <1>6, SomethingIsLast

\* However many workers serve whatever requests for serialized assets, no set of
\* transactions waits in a cycle: PostgreSQL has no deadlock to detect.
THEOREM AssetsNeverDeadlock ==
  ASSUME IsFiniteSet(Worker)
  PROVE  Spec => []NoWaitCycle
  <1>1. Init => LocksInOrder
    BY DEF Init, LocksInOrder, Reserved
  <1>2. IInv /\ LocksInOrder /\ [Next]_vars => LocksInOrder'
    BY StepKeepsOrder
  <1>3. IInv /\ LocksInOrder => NoWaitCycle
    <2> SUFFICES ASSUME IInv, LocksInOrder, NEW S \in (SUBSET Worker) \ {{}}
                 PROVE  \E w \in S : \A v \in S : ~WaitsFor(w, v)
      BY Zenon DEF NoWaitCycle
    <2>1. S \in SUBSET Worker /\ S # {}
      OBVIOUS
    <2>2. IsFiniteSet(S)
      BY <2>1, FS_Subset
    <2> QED
      BY <2>1, <2>2, OrderedNeverWait, Zenon
  <1> QED
    BY <1>1, <1>2, <1>3, Invariance, PTL DEF Spec
=============================================================================
