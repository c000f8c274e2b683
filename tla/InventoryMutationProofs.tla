----------------------- MODULE InventoryMutationProofs -----------------------
(***************************************************************************)
(* What holds of InventoryMutation for every set of workers, rows and      *)
(* requests, and that it implements StockLedger.                           *)
(*                                                                         *)
(* The argument: rows are held by one transaction at a time                *)
(* (LocksExclusive), a transaction in its locking phase holds or still     *)
(* wants every row its request concerns, its own header included           *)
(* (LocksCover), hence what it has read is still true (ReadsCurrent) when  *)
(* it writes.                                                              *)
(***************************************************************************)
EXTENDS QuantityGuards, PostingLemmas

LocksExclusive ==
  \A v, w \in Worker : v # w => held[v] \intersect held[w] = {}

LocksCover ==
  \A w \in Worker :
    /\ phase[w] # "idle" => request[w] \in Workload
    /\ phase[w] # "locking" => held[w] = {} /\ want[w] = {}
    /\ phase[w] = "locking" =>
         /\ TransactionRow(OperationOf(w)) \in held[w]
         /\ RowsOf(PostingOf(w)) \subseteq held[w] \union want[w]
         /\ want[w] \subseteq RowsOf(PostingOf(w))
         /\ ledger[OperationOf(w)] = NoPosting

IInv ==
  /\ TypeOK
  /\ LocksExclusive
  /\ LocksCover
  /\ ReadsCurrent

-----------------------------------------------------------------------------
(***************************************************************************)
(* Lemmas about requests and rows                                          *)
(***************************************************************************)

\* A request in the workload is a well-formed posting of an operation.
LEMMA JobFacts ==
  ASSUME NEW job \in Workload
  PROVE  /\ job[1] \in OperationId
         /\ job[2] \in Posting
         /\ job[2] # NoPosting
         /\ WellFormed(job[2])
         /\ job = <<job[1], job[2]>>
  BY WorkloadOfPostings DEF WorkloadOfPostings, Posting, NoPosting, Shape

\* The rows a request locks are rows.
LEMMA RowsAreRows ==
  ASSUME NEW r \in Posting
  PROVE  RowsOf(r) \subseteq Row
  <1> DEFINE masters  == UNION {MasterRowsOf(b) : b \in Touched(r)}
             balances == {BalanceRow(b) : b \in Touched(r)}
             line == IF r.original = NoOperation THEN {}
                     ELSE {LineRow(r.original)}
  <1>1. Touched(r) \subseteq Bucket
    BY TouchedBuckets
  <1>2. masters \subseteq Row
    BY <1>1 DEF MasterRow, Row
  <1>3. balances \subseteq Row
    BY <1>1 DEF Row
  <1>4. r.original = NoOperation \/ r.original \in OperationId
    BY DEF Posting
  <1>5. line \subseteq Row
    BY <1>4 DEF Row
  <1>6. RowsOf(r) = line \union masters \union balances
    BY DEF RowsOf
  <1> HIDE DEF masters, balances, line
  <1> QED
    BY <1>2, <1>3, <1>5, <1>6

\* A header is inserted, never one of the rows that a request locks.
LEMMA NoHeaderInRows ==
  ASSUME NEW r, NEW x \in RowsOf(r)
  PROVE  x.table # "transaction"
  <1>1. CASE r.original # NoOperation /\ x = LineRow(r.original)
    BY <1>1 DEF LineRow
  <1>2. CASE \E b \in Touched(r) : x \in MasterRowsOf(b)
    BY <1>2 DEF MasterRowsOf, MaterialRow, LocationRow, ConditionRow
  <1>3. CASE \E b \in Touched(r) : x = BalanceRow(b)
    BY <1>3 DEF BalanceRow
  <1> QED
    BY <1>1, <1>2, <1>3 DEF RowsOf

\* A balance row is the row of a bucket.
LEMMA BalanceRowKey ==
  ASSUME NEW x \in Row, x.table = "balance"
  PROVE  x.key \in Bucket /\ x = BalanceRow(x.key)
  BY DEF Row, MasterRow, MasterRowsOf, TransactionRow, LineRow, MaterialRow,
         LocationRow, ConditionRow, BalanceRow

\* What a posting's line allows is not changed by a posting that refers to
\* another line: its returns and its corrections are the same sets.
LEMMA OriginalStable ==
  ASSUME NEW L \in [OperationId -> Posting \union {NoPosting}],
         NEW o \in OperationId, L[o] = NoPosting,
         NEW q \in Posting,
         NEW r \in Posting, WellFormed(r),
         q.original # r.original,
         OriginalAllows(L, r)
  PROVE  OriginalAllows([L EXCEPT ![o] = q], r)
  <1> DEFINE M == [L EXCEPT ![o] = q]
             k == r.original
  <1>1. CASE r.type \notin {"RETURN", "CONTROLLED_CORRECTION"}
    BY <1>1 DEF OriginalAllows
  <1>2. CASE r.type \in {"RETURN", "CONTROLLED_CORRECTION"}
    <2>1. k \in OperationId
      BY <1>2 DEF WellFormed, Posting
    <2>2. L[k].type # "NONE"
      BY <1>2 DEF OriginalAllows, ReturnAllowed, CorrectionAllowed
    <2>3. k # o
      BY <2>2 DEF NoPosting, Shape
    <2>4. M[k] = L[k]
      BY <2>1, <2>3
    <2>5. \A p \in OperationId : p # o => M[p] = L[p]
      OBVIOUS
    <2>6. M[o] = q
      OBVIOUS
    <2>7. L[o].type = "NONE"
      BY DEF NoPosting, Shape
    <2>8. ReturnsOf(M, k) = ReturnsOf(L, k)
      BY <2>5, <2>6, <2>7 DEF ReturnsOf
    <2>9. CorrectionsOf(M, k) = CorrectionsOf(L, k)
      BY <2>5, <2>6, <2>7 DEF CorrectionsOf
    <2>10. o \notin ReturnsOf(L, k) /\ o \notin CorrectionsOf(L, k)
      BY <2>7 DEF ReturnsOf, CorrectionsOf
    <2>11. ASSUME NEW S \in SUBSET OperationId, o \notin S
           PROVE  EntriesOf(M, S) = EntriesOf(L, S)
      BY <2>5, <2>11 DEF EntriesOf
    <2>12. Returnable(M, k) = Returnable(L, k)
      <3>1. ReturnsOf(L, k) \in SUBSET OperationId
        BY DEF ReturnsOf
      <3>2. EntriesOf(M, ReturnsOf(L, k)) = EntriesOf(L, ReturnsOf(L, k))
        BY <3>1, <2>10, <2>11
      <3> HIDE DEF M
      <3> QED
        BY <3>2, <2>4, <2>8 DEF Returnable
    <2>13. Equivalent(M, k) = Equivalent(L, k)
      <3> DEFINE C  == CorrectionsOf(L, k)
                 lo == {p \in C : L[p].source # NoBucket}
      <3>1. C \in SUBSET OperationId /\ o \notin C
        BY <2>10 DEF CorrectionsOf
      <3>2. lo = {p \in C : M[p].source # NoBucket}
        BY <3>1, <2>5
      <3> HIDE DEF M, C
      <3>3. EntriesOf(M, lo) = EntriesOf(L, lo)
        BY <3>1, <2>11
      <3>4. EntriesOf(M, C \ lo) = EntriesOf(L, C \ lo)
        BY <3>1, <2>11
      <3>5. Equivalent(L, k) = L[k].quantity - Total(EntriesOf(L, lo))
                                 + Total(EntriesOf(L, C \ lo))
        BY DEF Equivalent, C
      <3>6. Equivalent(M, k) = M[k].quantity - Total(EntriesOf(M, lo))
                                 + Total(EntriesOf(M, C \ lo))
        BY <2>9, <3>2 DEF Equivalent, C
      <3> QED
        BY <3>3, <3>4, <3>5, <3>6, <2>4
    <2> HIDE DEF M
    <2>14. ReturnAllowed(L, r) <=> ReturnAllowed(M, r)
      BY <2>4, <2>12 DEF ReturnAllowed
    <2>15. CorrectionAllowed(L, r) <=> CorrectionAllowed(M, r)
      BY <2>4, <2>13 DEF CorrectionAllowed
    <2> QED
      BY <2>14, <2>15 DEF OriginalAllows, M
  <1> QED
    BY <1>1, <1>2

-----------------------------------------------------------------------------
(***************************************************************************)
(* The inductive invariant                                                 *)
(***************************************************************************)

\* Initially nobody holds or wants anything.
LEMMA InitIInv == Init => IInv
  <1> SUFFICES ASSUME Init PROVE IInv
    OBVIOUS
  <1>1. TypeOK
    BY DEF Init, TypeOK, NothingRead, Row
  <1>2. LocksExclusive /\ LocksCover /\ ReadsCurrent
    BY DEF Init, LocksExclusive, LocksCover, ReadsCurrent
  <1> QED
    BY <1>1, <1>2 DEF IInv

\* Ending the transaction of w frees its rows and leaves the others alone.
LEMMA FinishFacts ==
  ASSUME IInv, NEW w \in Worker, Finish(w)
  PROVE  /\ phase' \in [Worker -> {"idle", "lookup", "insert", "locking"}]
         /\ request' \in [Worker -> Workload \union {NoJob}]
         /\ held' \in [Worker -> SUBSET Row]
         /\ want' \in [Worker -> SUBSET Row]
         /\ read' \in [Worker -> [Row -> Int]]
         /\ LocksExclusive'
         /\ phase'[w] = "idle" /\ held'[w] = {} /\ want'[w] = {}
         /\ \A v \in Worker \ {w} :
              /\ phase'[v] = phase[v] /\ request'[v] = request[v]
              /\ held'[v] = held[v] /\ want'[v] = want[v]
              /\ read'[v] = read[v]
  <1> USE DEF IInv, TypeOK, Finish
  <1>1. /\ phase' \in [Worker -> {"idle", "lookup", "insert", "locking"}]
        /\ request' \in [Worker -> Workload \union {NoJob}]
        /\ held' \in [Worker -> SUBSET Row]
        /\ want' \in [Worker -> SUBSET Row]
    OBVIOUS
  <1>2. NothingRead \in [Row -> Int]
    BY DEF NothingRead
  <1>3. read' \in [Worker -> [Row -> Int]]
    BY <1>2
  <1>4. phase'[w] = "idle" /\ held'[w] = {} /\ want'[w] = {}
    OBVIOUS
  <1>5. \A v \in Worker \ {w} :
          /\ phase'[v] = phase[v] /\ request'[v] = request[v]
          /\ held'[v] = held[v] /\ want'[v] = want[v]
          /\ read'[v] = read[v]
    OBVIOUS
  <1>6. LocksExclusive'
    BY <1>4, <1>5 DEF LocksExclusive
  <1> QED
    BY <1>1, <1>3, <1>4, <1>5, <1>6

\* A transaction that ends without writing preserves the invariant.
LEMMA RollbackIInv ==
  ASSUME IInv, NEW w \in Worker, Finish(w),
         UNCHANGED <<ledger, stock, active>>, acked' \subseteq Workload
  PROVE  IInv'
  <1>1. TypeOK'
    BY FinishFacts DEF IInv, TypeOK
  <1>2. LocksExclusive'
    BY FinishFacts
  <1>3. LocksCover'
    BY FinishFacts DEF IInv, LocksCover, OperationOf, PostingOf
  <1>4. ReadsCurrent'
    <2> SUFFICES ASSUME NEW v \in Worker,
                        NEW x \in held'[v] \intersect RowsOf(PostingOf(v)')
                 PROVE  \/ read'[v][x] = RowValue(PostingOf(v), x)'
                        \/ x.table = "line" /\ read'[v][x] = 0
      BY DEF ReadsCurrent
    <2>1. v # w
      BY FinishFacts
    <2>2. held'[v] = held[v] /\ read'[v] = read[v] /\ PostingOf(v)' = PostingOf(v)
      BY <2>1, FinishFacts DEF PostingOf
    <2>3. RowValue(PostingOf(v), x)' = RowValue(PostingOf(v), x)
      BY <2>2 DEF RowValue
    <2> QED
      BY <2>2, <2>3 DEF IInv, ReadsCurrent
  <1> QED
    BY <1>1, <1>2, <1>3, <1>4 DEF IInv

\* Before it has inserted its header a transaction holds and wants nothing.
LEMMA ArrivalIInv ==
  ASSUME IInv, NEW w \in Worker,
         \/ \E job \in Workload : Submit(w, job)
         \/ Lookup(w)
  PROVE  IInv'
  <1> USE DEF IInv
  <1>1. /\ UNCHANGED <<ledger, stock, active, held, want, read, acked>>
        /\ phase[w] \in {"idle", "lookup"}
        /\ phase' \in [Worker -> {"idle", "lookup", "insert", "locking"}]
        /\ phase'[w] \in {"lookup", "insert"}
        /\ request' \in [Worker -> Workload \union {NoJob}]
        /\ request'[w] \in Workload
        /\ \A v \in Worker \ {w} : phase'[v] = phase[v] /\ request'[v] = request[v]
    BY DEF TypeOK, Submit, Lookup, LocksCover
  <1>2. TypeOK'
    BY <1>1 DEF TypeOK
  <1>3. held[w] = {} /\ want[w] = {}
    BY <1>1 DEF LocksCover
  <1>4. LocksExclusive'
    BY <1>1 DEF LocksExclusive
  <1>5. LocksCover'
    BY <1>1, <1>3 DEF LocksCover, OperationOf, PostingOf
  <1>6. ReadsCurrent'
    <2> SUFFICES ASSUME NEW v \in Worker,
                        NEW x \in held'[v] \intersect RowsOf(PostingOf(v)')
                 PROVE  \/ read'[v][x] = RowValue(PostingOf(v), x)'
                        \/ x.table = "line" /\ read'[v][x] = 0
      BY DEF ReadsCurrent
    <2>1. v # w
      BY <1>1, <1>3
    <2>2. held'[v] = held[v] /\ read'[v] = read[v] /\ PostingOf(v)' = PostingOf(v)
      BY <1>1, <2>1 DEF PostingOf
    <2>3. RowValue(PostingOf(v), x)' = RowValue(PostingOf(v), x)
      BY <1>1, <2>2 DEF RowValue
    <2> QED
      BY <2>2, <2>3 DEF ReadsCurrent
  <1> QED
    BY <1>2, <1>4, <1>5, <1>6

\* The header reserved by w was free, and what w will lock covers its request.
LEMMA ReserveIInv ==
  ASSUME IInv, NEW w \in Worker, Reserve(w)
  PROVE  IInv'
  <1> USE DEF IInv
  <1> DEFINE h == TransactionRow(OperationOf(w))
  <1>1. /\ request[w] \in Workload
        /\ OperationOf(w) \in OperationId
        /\ PostingOf(w) \in Posting
    BY JobFacts DEF Reserve, LocksCover, OperationOf, PostingOf
  <1>2. h \in Row /\ RowsOf(PostingOf(w)) \subseteq Row
    BY <1>1, RowsAreRows DEF Row
  <1>3. /\ UNCHANGED <<ledger, stock, active, request, read, acked>>
        /\ phase[w] = "insert" /\ phase'[w] = "locking"
        /\ held'[w] = {h} /\ want'[w] = RowsOf(PostingOf(w))
        /\ ledger[OperationOf(w)] = NoPosting
        /\ \A v \in Worker \ {w} :
             /\ phase'[v] = phase[v]
             /\ held'[v] = held[v] /\ want'[v] = want[v]
             /\ h \notin held[v]
    BY DEF TypeOK, Reserve, Free
  <1>4. TypeOK'
    BY <1>2 DEF TypeOK, Reserve
  <1>5. LocksExclusive'
    BY <1>3 DEF LocksExclusive
  <1>6. LocksCover'
    BY <1>1, <1>3 DEF LocksCover, OperationOf, PostingOf
  <1>7. h \notin RowsOf(PostingOf(w))
    BY NoHeaderInRows DEF TransactionRow
  <1>8. ReadsCurrent'
    <2> SUFFICES ASSUME NEW v \in Worker,
                        NEW x \in held'[v] \intersect RowsOf(PostingOf(v)')
                 PROVE  \/ read'[v][x] = RowValue(PostingOf(v), x)'
                        \/ x.table = "line" /\ read'[v][x] = 0
      BY DEF ReadsCurrent
    <2>1. PostingOf(v)' = PostingOf(v)
      BY <1>3 DEF PostingOf
    <2>2. v # w
      BY <1>3, <1>7, <2>1
    <2>3. held'[v] = held[v] /\ read'[v] = read[v]
      BY <1>3, <2>2
    <2>4. RowValue(PostingOf(v), x)' = RowValue(PostingOf(v), x)
      BY <1>3, <2>1 DEF RowValue
    <2> QED
      BY <2>1, <2>3, <2>4 DEF ReadsCurrent
  <1> QED
    BY <1>4, <1>5, <1>6, <1>8

\* The value of a row is an integer.
LEMMA RowValueInt ==
  ASSUME TypeOK, NEW r, NEW x \in Row
  PROVE  RowValue(r, x) \in Int
  <1>1. x.table = "balance" => stock[x.key] \in Int
    BY BalanceRowKey DEF TypeOK
  <1>2. \A p \in BOOLEAN : Truth(p) \in Int
    BY DEF Truth
  <1>3. Truth(x \in active) \in Int /\ Truth(OriginalAllows(ledger, r)) \in Int
    BY DEF Truth
  <1> QED
    BY <1>1, <1>3 DEF RowValue

\* A row is locked when nobody holds it, and read as it is then.
LEMMA LockIInv ==
  ASSUME IInv, NEW w \in Worker, Lock(w)
  PROVE  IInv'
  <1> USE DEF IInv
  <1>1. PICK x \in want[w] :
          /\ Free(w, x)
          /\ held' = [held EXCEPT ![w] = @ \union {x}]
          /\ want' = [want EXCEPT ![w] = @ \ {x}]
          /\ read' = [read EXCEPT ![w][x] = RowValue(PostingOf(w), x)]
    BY DEF Lock
  <1>2. phase[w] = "locking" /\ UNCHANGED <<ledger, stock, active, phase, request, acked>>
    BY DEF Lock
  <1>3. x \in Row /\ RowValue(PostingOf(w), x) \in Int
    BY RowValueInt DEF TypeOK
  <1>4. /\ held'[w] = held[w] \union {x} /\ want'[w] = want[w] \ {x}
        /\ \A v \in Worker \ {w} :
             /\ held'[v] = held[v] /\ want'[v] = want[v]
             /\ read'[v] = read[v]
             /\ x \notin held[v]
    BY <1>1 DEF TypeOK, Free
  <1>5. /\ read'[w] = [read[w] EXCEPT ![x] = RowValue(PostingOf(w), x)]
        /\ read[w] \in [Row -> Int]
    BY <1>1 DEF TypeOK
  <1>6. TypeOK'
    BY <1>1, <1>2, <1>3, <1>5 DEF TypeOK
  <1>7. LocksExclusive'
    BY <1>4 DEF LocksExclusive
  <1>8. LocksCover'
    BY <1>2, <1>4 DEF LocksCover, OperationOf, PostingOf
  <1>9. ReadsCurrent'
    <2> SUFFICES ASSUME NEW v \in Worker,
                        NEW y \in held'[v] \intersect RowsOf(PostingOf(v)')
                 PROVE  \/ read'[v][y] = RowValue(PostingOf(v), y)'
                        \/ y.table = "line" /\ read'[v][y] = 0
      BY DEF ReadsCurrent
    <2>1. PostingOf(v)' = PostingOf(v)
      BY <1>2 DEF PostingOf
    <2>2. RowValue(PostingOf(v), y)' = RowValue(PostingOf(v), y)
      BY <1>2, <2>1 DEF RowValue
    <2>3. CASE v = w /\ y = x
      BY <1>3, <1>5, <2>2, <2>3
    <2>4. CASE v = w /\ y # x
      <3>1. y \in held[w]
        BY <1>4, <2>4
      <3>2. read'[w][y] = read[w][y]
        BY <1>5, <2>4, <3>1 DEF TypeOK
      <3> QED
        BY <2>1, <2>2, <2>4, <3>1, <3>2 DEF ReadsCurrent
    <2>5. CASE v # w
      BY <1>4, <2>1, <2>2, <2>5 DEF ReadsCurrent
    <2> QED
      BY <2>3, <2>4, <2>5
  <1> QED
    BY <1>6, <1>7, <1>8, <1>9

\* The masters that must be active, and the line and the balances, are rows
\* that the request locks.
LEMMA RowsOfFacts ==
  ASSUME NEW r \in Posting
  PROVE  /\ RequiredActive(r) \subseteq RowsOf(r)
         /\ \A b \in Touched(r) : BalanceRow(b) \in RowsOf(r)
         /\ r.original # NoOperation => LineRow(r.original) \in RowsOf(r)
         /\ r.target # NoBucket =>
              LocationRow(LocationOf(r.target)) \in RequiredActive(r)
  <1> DEFINE checked == IF r.type \in {"CONTROLLED_CORRECTION",
                                       "COUNT_RECONCILIATION"}
                        THEN {r.target} \ {NoBucket} ELSE Touched(r)
  <1>1. checked \subseteq Touched(r)
    BY DEF Touched
  <1>2. r.target # NoBucket => r.target \in checked
    BY DEF Touched
  <1>3. RequiredActive(r) = UNION {MasterRowsOf(b) : b \in checked}
    BY DEF RequiredActive
  <1> HIDE DEF checked
  <1>4. RequiredActive(r) \subseteq RowsOf(r)
    BY <1>1, <1>3 DEF RowsOf
  <1>5. /\ \A b \in Touched(r) : BalanceRow(b) \in RowsOf(r)
        /\ r.original # NoOperation => LineRow(r.original) \in RowsOf(r)
    BY DEF RowsOf
  <1>6. r.target # NoBucket =>
          LocationRow(LocationOf(r.target)) \in RequiredActive(r)
    BY <1>2, <1>3 DEF MasterRowsOf
  <1> QED
    BY <1>4, <1>5, <1>6

\* A master whose check passed is active, a line that passed allows r, and
\* what was read of a balance is its quantity: all as they are at the commit.
LEMMA CommitFacts ==
  ASSUME IInv, NEW w \in Worker,
         phase[w] = "locking", want[w] = {}, ~Failing(w)
  PROVE  /\ request[w] \in Workload
         /\ OperationOf(w) \in OperationId
         /\ PostingOf(w) \in Posting
         /\ PostingOf(w) # NoPosting
         /\ WellFormed(PostingOf(w))
         /\ request[w] = <<OperationOf(w), PostingOf(w)>>
         /\ ledger[OperationOf(w)] = NoPosting
         /\ TransactionRow(OperationOf(w)) \in held[w]
         /\ RowsOf(PostingOf(w)) \subseteq held[w]
         /\ RequiredActive(PostingOf(w)) \subseteq active
         /\ OriginalAllows(ledger, PostingOf(w))
         /\ \A b \in Touched(PostingOf(w)) :
              /\ b \in Bucket
              /\ read[w][BalanceRow(b)] = stock[b]
              /\ BucketAllows(PostingOf(w), b, stock[b])
  <1> USE DEF IInv
  <1> DEFINE r == PostingOf(w)
  <1>1. /\ request[w] \in Workload
        /\ TransactionRow(OperationOf(w)) \in held[w]
        /\ RowsOf(r) \subseteq held[w]
        /\ ledger[OperationOf(w)] = NoPosting
    BY DEF LocksCover
  <1>2. /\ OperationOf(w) \in OperationId
        /\ r \in Posting /\ r # NoPosting /\ WellFormed(r)
        /\ request[w] = <<OperationOf(w), r>>
    BY <1>1, JobFacts DEF OperationOf, PostingOf
  <1>3. \A x \in RowsOf(r) : Passes(r, x, read[w][x])
    BY <1>1 DEF Failing
  <1>4. \A x \in RowsOf(r) :
          read[w][x] = RowValue(r, x) \/ (x.table = "line" /\ read[w][x] = 0)
    BY <1>1 DEF ReadsCurrent
  <1> HIDE DEF r
  <1>5. RequiredActive(r) \subseteq active
    <2> SUFFICES ASSUME NEW x \in RequiredActive(r) PROVE x \in active
      OBVIOUS
    <2>1. x \in RowsOf(r)
      BY <1>2, RowsOfFacts
    <2>2. x.table \in {"material", "location", "condition"}
      BY DEF RequiredActive, MasterRowsOf, MaterialRow, LocationRow, ConditionRow
    <2>3. read[w][x] = 1 /\ read[w][x] = RowValue(r, x)
      BY <1>3, <1>4, <2>1, <2>2 DEF Passes
    <2> QED
      BY <2>2, <2>3 DEF RowValue, Truth
  <1>6. OriginalAllows(ledger, r)
    <2>1. CASE r.original = NoOperation
      BY <2>1, <1>2 DEF OriginalAllows, WellFormed
    <2>2. CASE r.original # NoOperation
      <3>1. LineRow(r.original) \in RowsOf(r) /\ LineRow(r.original).table = "line"
        BY <1>2, <2>2, RowsOfFacts DEF LineRow
      <3>2. RowValue(r, LineRow(r.original)) = 1
        BY <1>3, <1>4, <3>1 DEF Passes
      <3> QED
        BY <3>1, <3>2 DEF RowValue, Truth
    <2> QED
      BY <2>1, <2>2
  <1>7. ASSUME NEW b \in Touched(r)
        PROVE  /\ b \in Bucket
               /\ read[w][BalanceRow(b)] = stock[b]
               /\ BucketAllows(r, b, stock[b])
    <2>1. b \in Bucket /\ BalanceRow(b) \in RowsOf(r)
      BY <1>2, TouchedBuckets, RowsOfFacts
    <2>2. BalanceRow(b).table = "balance" /\ BalanceRow(b).key = b
      BY DEF BalanceRow
    <2>3. read[w][BalanceRow(b)] = stock[b]
      BY <1>4, <2>1, <2>2 DEF RowValue
    <2> QED
      BY <1>3, <2>1, <2>2, <2>3 DEF Passes
  <1> QED
    BY <1>1, <1>2, <1>5, <1>6, <1>7 DEF r

\* What w writes leaves what the others have read under their locks true.
LEMMA CommitIInv ==
  ASSUME IInv, NEW w \in Worker, Commit(w)
  PROVE  IInv'
  <1> USE DEF IInv
  <1> DEFINE r == PostingOf(w)
             o == OperationOf(w)
  <1>1. phase[w] = "locking" /\ want[w] = {} /\ ~Failing(w)
    BY DEF Commit
  <1>2. /\ o \in OperationId /\ r \in Posting /\ WellFormed(r)
        /\ request[w] \in Workload
        /\ ledger[o] = NoPosting
        /\ TransactionRow(o) \in held[w] /\ RowsOf(r) \subseteq held[w]
        /\ \A b \in Touched(r) :
             /\ b \in Bucket
             /\ read[w][BalanceRow(b)] = stock[b]
             /\ BucketAllows(r, b, stock[b])
    BY <1>1, CommitFacts
  <1>3. /\ ledger' = [ledger EXCEPT ![o] = r]
        /\ stock' = [b \in Bucket |->
                       IF b \in Touched(r)
                       THEN NewQuantity(r, b, read[w][BalanceRow(b)])
                       ELSE stock[b]]
        /\ acked' = acked \union {request[w]}
        /\ Finish(w) /\ UNCHANGED active
    BY DEF Commit
  <1> HIDE DEF r, o
  <1>4. TypeOK'
    <2>1. ledger' \in [OperationId -> Posting \union {NoPosting}]
      BY <1>2, <1>3 DEF TypeOK
    <2>2. ASSUME NEW b \in Touched(r)
          PROVE  NewQuantity(r, b, read[w][BalanceRow(b)]) \in Nat
      BY <1>2, NewQuantityNat DEF TypeOK
    <2>3. stock' \in [Bucket -> Nat]
      BY <1>3, <2>2 DEF TypeOK
    <2>4. active' \subseteq MasterRow /\ acked' \subseteq Workload
      BY <1>2, <1>3 DEF TypeOK
    <2> QED
      BY <1>3, <2>1, <2>3, <2>4, FinishFacts DEF TypeOK
  <1>5. LocksExclusive'
    BY <1>3, FinishFacts
  <1>6. ASSUME NEW v \in Worker, v # w, phase[v] = "locking"
        PROVE  OperationOf(v) # o
    BY <1>2, <1>6 DEF LocksExclusive, LocksCover
  <1>7. LocksCover'
    <2> SUFFICES ASSUME NEW v \in Worker
                 PROVE  /\ phase'[v] # "idle" => request'[v] \in Workload
                        /\ phase'[v] # "locking" => held'[v] = {} /\ want'[v] = {}
                        /\ phase'[v] = "locking" =>
                             /\ TransactionRow(OperationOf(v)') \in held'[v]
                             /\ RowsOf(PostingOf(v)') \subseteq held'[v] \union want'[v]
                             /\ want'[v] \subseteq RowsOf(PostingOf(v)')
                             /\ ledger'[OperationOf(v)'] = NoPosting
      BY DEF LocksCover
    <2>1. CASE v = w
      BY <1>3, <2>1, FinishFacts
    <2>2. CASE v # w
      <3>1. /\ phase'[v] = phase[v] /\ request'[v] = request[v]
            /\ held'[v] = held[v] /\ want'[v] = want[v]
            /\ OperationOf(v)' = OperationOf(v) /\ PostingOf(v)' = PostingOf(v)
        BY <1>3, <2>2, FinishFacts DEF OperationOf, PostingOf
      <3>2. phase[v] = "locking" => OperationOf(v) \in OperationId
        BY JobFacts DEF LocksCover, OperationOf
      <3>3. phase[v] = "locking" => ledger'[OperationOf(v)] = NoPosting
        BY <1>2, <1>3, <1>6, <2>2, <3>2 DEF TypeOK, LocksCover
      <3> QED
        BY <3>1, <3>3 DEF LocksCover
    <2> QED
      BY <2>1, <2>2
  <1>8. ReadsCurrent'
    <2> SUFFICES ASSUME NEW v \in Worker,
                        NEW x \in held'[v] \intersect RowsOf(PostingOf(v)')
                 PROVE  \/ read'[v][x] = RowValue(PostingOf(v), x)'
                        \/ x.table = "line" /\ read'[v][x] = 0
      BY DEF ReadsCurrent
    <2> DEFINE s == PostingOf(v)
    <2>1. v # w
      BY <1>3, FinishFacts
    <2>2. /\ held'[v] = held[v] /\ read'[v] = read[v] /\ PostingOf(v)' = s
          /\ x \in held[v] \intersect RowsOf(s) /\ x \in Row
      BY <1>3, <2>1, FinishFacts DEF PostingOf, TypeOK
    <2>3. phase[v] = "locking" /\ s \in Posting /\ WellFormed(s)
      BY <2>2, JobFacts DEF LocksCover, PostingOf
    <2>4. x \notin held[w]
      BY <2>1, <2>2 DEF LocksExclusive
    <2>5. CASE x.table = "balance"
      <3>1. x.key \in Bucket /\ x = BalanceRow(x.key)
        BY <2>2, <2>5, BalanceRowKey
      <3>2. x.key \notin Touched(r)
        BY <1>2, <2>4, <3>1, RowsOfFacts
      <3>3. stock'[x.key] = stock[x.key]
        BY <1>3, <3>1, <3>2
      <3> QED
        BY <2>2, <2>5, <3>3 DEF ReadsCurrent, RowValue
    <2>6. CASE x.table = "line"
      <3>1. CASE read[v][x] = 0
        BY <2>2, <2>6, <3>1
      <3>2. CASE read[v][x] # 0
        <4>1. OriginalAllows(ledger, s) /\ read[v][x] = 1
          BY <2>2, <2>6, <3>2 DEF ReadsCurrent, RowValue, Truth
        <4>2. x = LineRow(s.original) /\ s.original # NoOperation
          BY <2>2, <2>6 DEF RowsOf, MasterRowsOf, MaterialRow, LocationRow,
             ConditionRow, BalanceRow
        <4>3. r.original # s.original
          BY <1>2, <2>4, <4>2, RowsOfFacts
        <4>4. OriginalAllows(ledger', s)
          BY <1>2, <1>3, <2>3, <4>1, <4>3, OriginalStable DEF TypeOK
        <4>5. RowValue(PostingOf(v), x)' = 1
          BY <2>2, <2>6, <4>4 DEF RowValue, Truth
        <4> QED
          BY <2>2, <4>1, <4>5
      <3> QED
        BY <3>1, <3>2
    <2>7. CASE x.table \notin {"balance", "line"}
      BY <1>3, <2>2, <2>7 DEF ReadsCurrent, RowValue
    <2> QED
      BY <2>5, <2>6, <2>7
  <1> QED
    BY <1>4, <1>5, <1>7, <1>8

\* A master is switched only while nobody holds its row.
LEMMA SetActiveIInv ==
  ASSUME IInv, NEW x \in MasterRow, SetActive(x)
  PROVE  IInv'
  <1> USE DEF IInv
  <1>1. /\ UNCHANGED <<ledger, stock, phase, request, held, want, read, acked>>
        /\ active' = active \union {x} \/ active' = active \ {x}
        /\ \A w \in Worker : x \notin held[w]
    BY DEF SetActive
  <1>2. TypeOK'
    BY <1>1 DEF TypeOK
  <1>3. LocksExclusive' /\ LocksCover'
    BY <1>1 DEF LocksExclusive, LocksCover, OperationOf, PostingOf
  <1>4. ReadsCurrent'
    <2> SUFFICES ASSUME NEW v \in Worker,
                        NEW y \in held'[v] \intersect RowsOf(PostingOf(v)')
                 PROVE  \/ read'[v][y] = RowValue(PostingOf(v), y)'
                        \/ y.table = "line" /\ read'[v][y] = 0
      BY DEF ReadsCurrent
    <2>1. held'[v] = held[v] /\ read'[v] = read[v] /\ PostingOf(v)' = PostingOf(v)
      BY <1>1 DEF PostingOf
    <2>2. y \in active' <=> y \in active
      BY <1>1, <2>1
    <2>3. RowValue(PostingOf(v), y)' = RowValue(PostingOf(v), y)
      BY <1>1, <2>1, <2>2 DEF RowValue, Truth
    <2> QED
      BY <2>1, <2>3 DEF ReadsCurrent
  <1> QED
    BY <1>2, <1>3, <1>4

\* Every step preserves the inductive invariant.
LEMMA NextIInv == IInv /\ [Next]_vars => IInv'
  <1> SUFFICES ASSUME IInv, [Next]_vars PROVE IInv'
    OBVIOUS
  <1>1. ASSUME NEW w \in Worker, NEW job \in Workload, Submit(w, job) PROVE IInv'
    BY <1>1, ArrivalIInv
  <1>2. ASSUME NEW w \in Worker, Lookup(w) PROVE IInv'
    BY <1>2, ArrivalIInv
  <1>3. ASSUME NEW w \in Worker, Reserve(w) PROVE IInv'
    BY <1>3, ReserveIInv
  <1>4. ASSUME NEW w \in Worker, Replay(w) PROVE IInv'
    <2>1. request[w] \in Workload
      BY <1>4 DEF IInv, LocksCover, Replay, Existing
    <2>2. acked' \subseteq Workload
      BY <1>4, <2>1 DEF IInv, TypeOK, Replay
    <2> QED
      BY <1>4, <2>2, RollbackIInv DEF Replay
  <1>5. ASSUME NEW w \in Worker, Conflict(w) PROVE IInv'
    BY <1>5, RollbackIInv DEF Conflict, IInv, TypeOK
  <1>6. ASSUME NEW w \in Worker, Lock(w) PROVE IInv'
    BY <1>6, LockIInv
  <1>7. ASSUME NEW w \in Worker, Reject(w) PROVE IInv'
    BY <1>7, RollbackIInv DEF Reject, IInv, TypeOK
  <1>8. ASSUME NEW w \in Worker, Commit(w) PROVE IInv'
    BY <1>8, CommitIInv
  <1>9. ASSUME NEW w \in Worker, Crash(w) PROVE IInv'
    BY <1>9, RollbackIInv DEF Crash, IInv, TypeOK
  <1>10. ASSUME NEW w \in Worker, BreakDeadlock(w) PROVE IInv'
    BY <1>10, RollbackIInv DEF BreakDeadlock, IInv, TypeOK
  <1>11. ASSUME NEW x \in MasterRow, SetActive(x) PROVE IInv'
    BY <1>11, SetActiveIInv
  <1>12. CASE UNCHANGED vars
    BY <1>12 DEF vars, IInv, TypeOK, LocksExclusive, LocksCover, ReadsCurrent,
                 OperationOf, PostingOf, RowValue
  <1> QED
    BY <1>1, <1>2, <1>3, <1>4, <1>5, <1>6, <1>7, <1>8, <1>9, <1>10, <1>11, <1>12
    DEF Next, Step

LEMMA Invariance == Spec => []IInv
  BY InitIInv, NextIInv, PTL DEF Spec

-----------------------------------------------------------------------------
(***************************************************************************)
(* Theorems                                                                *)
(***************************************************************************)

\* Every variable keeps its type: above all, no balance ever becomes negative.
THEOREM TypeCorrect == Spec => []TypeOK
  <1>1. IInv => TypeOK
    BY DEF IInv
  <1> QED
    BY <1>1, Invariance, PTL

\* What a transaction read under its locks is true until it ends.
THEOREM ReadsStayCurrent == Spec => []ReadsCurrent
  <1>1. IInv => ReadsCurrent
    BY DEF IInv
  <1> QED
    BY <1>1, Invariance, PTL

\* A step writes the ledger only at an operation that had no posting.
LEMMA LedgerGrows ==
  ASSUME IInv, [Next]_vars, NEW o \in OperationId, ledger[o] # NoPosting
  PROVE  ledger'[o] = ledger[o]
  <1>1. ASSUME NEW w \in Worker, Commit(w) PROVE ledger'[o] = ledger[o]
    <2>1. ledger[OperationOf(w)] = NoPosting /\ OperationOf(w) \in OperationId
      BY <1>1, CommitFacts DEF Commit
    <2>2. ledger' = [ledger EXCEPT ![OperationOf(w)] = PostingOf(w)]
      BY <1>1 DEF Commit
    <2> QED
      BY <2>1, <2>2 DEF IInv, TypeOK
  <1>2. CASE UNCHANGED ledger
    BY <1>2
  <1> QED
    BY <1>1, <1>2 DEF Next, Step, Submit, Lookup, Reserve, Replay, Conflict, Lock,
       Reject, Crash, BreakDeadlock, SetActive, vars

\* Whoever was told a request succeeded finds it posted, for ever.
THEOREM AnswersAreKept == Spec => []AckedIsPosted
  <1>1. Init => AckedIsPosted
    BY DEF Init, AckedIsPosted
  <1>2. IInv /\ AckedIsPosted /\ [Next]_vars => AckedIsPosted'
    <2> SUFFICES ASSUME IInv, AckedIsPosted, [Next]_vars, NEW job \in acked'
                 PROVE  ledger'[job[1]] = job[2]
      BY DEF AckedIsPosted
    <2>1. CASE job \in acked
      <3>1. job[1] \in OperationId /\ ledger[job[1]] # NoPosting
        BY <2>1, JobFacts DEF IInv, TypeOK, AckedIsPosted
      <3> QED
        BY <2>1, <3>1, LedgerGrows DEF AckedIsPosted
    <2>2. ASSUME NEW w \in Worker, Replay(w), job = request[w]
          PROVE  ledger'[job[1]] = job[2]
      BY <2>2 DEF Replay, SameRequest, OperationOf, PostingOf
    <2>3. ASSUME NEW w \in Worker, Commit(w), job = request[w]
          PROVE  ledger'[job[1]] = job[2]
      <3>1. OperationOf(w) \in OperationId
        BY <2>3, CommitFacts DEF Commit
      <3> QED
        BY <2>3, <3>1 DEF Commit, IInv, TypeOK, OperationOf, PostingOf
    <2> QED
      BY <2>1, <2>2, <2>3 DEF Next, Step, Submit, Lookup, Reserve, Replay,
         Conflict, Lock, Reject, Commit, Crash, BreakDeadlock, SetActive, vars
  <1> QED
    BY <1>1, <1>2, Invariance, PTL DEF Spec

\* No stock at a location that is switched off, however switching it off races
\* with the transactions that bring stock there.
THEOREM StockStaysUsable == Spec => []StockOnlyAtUsableLocations
  <1>1. Init => StockOnlyAtUsableLocations
    BY DEF Init, StockOnlyAtUsableLocations
  <1>2. IInv /\ StockOnlyAtUsableLocations /\ [Next]_vars
          => StockOnlyAtUsableLocations'
    <2> SUFFICES ASSUME IInv, StockOnlyAtUsableLocations, [Next]_vars,
                        NEW b \in Bucket, stock'[b] > 0
                 PROVE  LocationRow(LocationOf(b)) \in active'
      BY DEF StockOnlyAtUsableLocations
    <2>1. ASSUME NEW w \in Worker, Commit(w)
          PROVE  LocationRow(LocationOf(b)) \in active'
      <3> DEFINE r == PostingOf(w)
      <3>1. /\ r \in Posting /\ WellFormed(r)
            /\ RequiredActive(r) \subseteq active
            /\ b \in Touched(r) => /\ read[w][BalanceRow(b)] = stock[b]
                                   /\ BucketAllows(r, b, stock[b])
        BY <2>1, CommitFacts DEF Commit
      <3>2. /\ active' = active
            /\ stock'[b] = IF b \in Touched(r)
                           THEN NewQuantity(r, b, read[w][BalanceRow(b)])
                           ELSE stock[b]
        BY <2>1 DEF Commit
      <3> HIDE DEF r
      <3>3. stock[b] \in Nat
        BY DEF IInv, TypeOK
      <3>4. CASE b = r.target
        <4>1. b # NoBucket
          BY <3>1, TouchedBuckets
        <4> QED
          BY <3>1, <3>2, <3>4, <4>1, RowsOfFacts
      <3>5. CASE b # r.target
        <4>1. stock[b] > 0
          BY <3>1, <3>2, <3>3, <3>5, NewQuantityNat
        <4> QED
          BY <3>2, <4>1 DEF StockOnlyAtUsableLocations
      <3> QED
        BY <3>4, <3>5
    <2>2. ASSUME NEW x \in MasterRow, SetActive(x)
          PROVE  LocationRow(LocationOf(b)) \in active'
      BY <2>2 DEF SetActive, StockOnlyAtUsableLocations
    <2>3. CASE UNCHANGED <<stock, active>>
      BY <2>3 DEF StockOnlyAtUsableLocations
    <2> QED
      BY <2>1, <2>2, <2>3 DEF Next, Step, Submit, Lookup, Reserve, Replay,
         Conflict, Lock, Reject, Crash, BreakDeadlock, vars
  <1> QED
    BY <1>1, <1>2, Invariance, PTL DEF Spec

\* The vocabulary that StockLedger uses is this module's.
LEMMA SameVocabulary ==
  ASSUME NEW r, NEW b, NEW v, NEW o
  PROVE  /\ Ledger!NoPosting = NoPosting
         /\ Ledger!Bucket = Bucket
         /\ Ledger!Touched(r) = Touched(r)
         /\ Ledger!BucketAllows(r, b, v) <=> BucketAllows(r, b, v)
         /\ Ledger!NewQuantity(r, b, v) = NewQuantity(r, b, v)
         /\ Ledger!OriginalAllows(ledger, r) <=> OriginalAllows(ledger, r)
         /\ Ledger!LedgerBalance(ledger, b) = LedgerBalance(ledger, b)
         /\ Ledger!Returnable(ledger, o) = Returnable(ledger, o)
         /\ Ledger!Equivalent(ledger, o) = Equivalent(ledger, o)
  <1>1. Ledger!NoPosting = NoPosting
    BY DEF NoPosting, Ledger!NoPosting, Shape, Ledger!Shape
  <1>2. Ledger!Bucket = Bucket
    BY DEF Bucket, Ledger!Bucket
  <1>3. Ledger!Touched(r) = Touched(r)
    BY DEF Touched, Ledger!Touched
  <1>4. Ledger!BucketAllows(r, b, v) <=> BucketAllows(r, b, v)
    BY DEF BucketAllows, Ledger!BucketAllows
  <1>5. Ledger!NewQuantity(r, b, v) = NewQuantity(r, b, v)
    BY DEF NewQuantity, Ledger!NewQuantity, Effect, Ledger!Effect
  <1>6. \A k : Ledger!Returnable(ledger, k) = Returnable(ledger, k)
    BY DEF Returnable, Ledger!Returnable, ReturnsOf, Ledger!ReturnsOf,
       EntriesOf, Ledger!EntriesOf, Total, Ledger!Total, MapThenSumSet,
       Ledger!MapThenSumSet, MapThenFoldSet, Ledger!MapThenFoldSet
  <1>7. \A k : Ledger!Equivalent(ledger, k) = Equivalent(ledger, k)
    BY DEF Equivalent, Ledger!Equivalent, CorrectionsOf, Ledger!CorrectionsOf,
       EntriesOf, Ledger!EntriesOf, Total, Ledger!Total, MapThenSumSet,
       Ledger!MapThenSumSet, MapThenFoldSet, Ledger!MapThenFoldSet
  <1>8. Ledger!ReturnAllowed(ledger, r) <=> ReturnAllowed(ledger, r)
    BY <1>6 DEF ReturnAllowed, Ledger!ReturnAllowed, MaterialOf, ConditionOf,
       Ledger!MaterialOf, Ledger!ConditionOf
  <1>9. Ledger!CorrectionAllowed(ledger, r) <=> CorrectionAllowed(ledger, r)
    BY <1>7 DEF CorrectionAllowed, Ledger!CorrectionAllowed, Affected,
       Ledger!Affected, Touched, Ledger!Touched, Proposed, Ledger!Proposed
  <1>10. Ledger!OriginalAllows(ledger, r) <=> OriginalAllows(ledger, r)
    BY <1>8, <1>9 DEF OriginalAllows, Ledger!OriginalAllows
  <1>11. Ledger!LedgerBalance(ledger, b) = LedgerBalance(ledger, b)
    BY DEF LedgerBalance, Ledger!LedgerBalance, Effect, Ledger!Effect, Total,
       Ledger!Total, MapThenSumSet, Ledger!MapThenSumSet, MapThenFoldSet,
       Ledger!MapThenFoldSet
  <1> QED
    BY <1>1, <1>2, <1>3, <1>4, <1>5, <1>6, <1>7, <1>10, <1>11

\* The concurrent transactions implement the atomic ledger: a commit is the
\* abstract posting, every other step changes neither ledger nor stock.
THEOREM Implementation == Spec => ImplementsLedger
  <1>1. Init => Ledger!Init
    BY DEF Init, Ledger!Init, NoPosting, Ledger!NoPosting, Shape, Ledger!Shape,
       Bucket, Ledger!Bucket
  <1>2. IInv /\ [Next]_vars => [Ledger!Next]_Ledger!vars
    <2> SUFFICES ASSUME IInv, [Next]_vars
                 PROVE  Ledger!Next \/ UNCHANGED Ledger!vars
      OBVIOUS
    <2>1. ASSUME NEW w \in Worker, Commit(w) PROVE Ledger!Next
      <3> DEFINE r == PostingOf(w)
                 o == OperationOf(w)
      <3>1. /\ request[w] \in Workload /\ o = request[w][1] /\ r = request[w][2]
            /\ ledger[o] = NoPosting
            /\ OriginalAllows(ledger, r)
            /\ \A b \in Touched(r) :
                 /\ read[w][BalanceRow(b)] = stock[b]
                 /\ BucketAllows(r, b, stock[b])
        BY <2>1, CommitFacts DEF Commit, OperationOf, PostingOf
      <3>2. /\ ledger' = [ledger EXCEPT ![o] = r]
            /\ stock' = [b \in Bucket |->
                           IF b \in Touched(r)
                           THEN NewQuantity(r, b, read[w][BalanceRow(b)])
                           ELSE stock[b]]
        BY <2>1 DEF Commit
      <3> HIDE DEF r, o
      <3>3. stock' = [b \in Bucket |->
                       IF b \in Touched(r) THEN NewQuantity(r, b, stock[b])
                                           ELSE stock[b]]
        BY <3>1, <3>2
      <3>4. Ledger!Admissible(r)
        BY <3>1, SameVocabulary DEF Ledger!Admissible
      <3>5. Ledger!Post(o, r)
        BY <3>1, <3>2, <3>3, <3>4, SameVocabulary DEF Ledger!Post
      <3> QED
        BY <3>1, <3>5 DEF Ledger!Next
    <2>2. CASE UNCHANGED <<ledger, stock>>
      BY <2>2 DEF Ledger!vars
    <2> QED
      BY <2>1, <2>2 DEF Next, Step, Submit, Lookup, Reserve, Replay, Conflict,
         Lock, Reject, Crash, BreakDeadlock, SetActive, vars
  <1> QED
    BY <1>1, <1>2, Invariance, PTL DEF Spec, ImplementsLedger, Ledger!Spec

\* A commit keeps the ledger sound, for it posts what the ledger admits at that
\* moment; nothing else changes ledger or stock.
LEMMA SoundInvariant == Spec => []Sound(ledger, stock)
  <1>1. Init => Sound(ledger, stock)
    <2> SUFFICES ASSUME Init PROVE Sound(ledger, stock)
      OBVIOUS
    <2>1. /\ ledger = [o \in OperationId |-> NoPosting]
          /\ stock = [b \in Bucket |-> 0]
      BY DEF Init
    <2> QED
      BY <2>1, SoundEmpty, Zenon
  <1>2. IInv /\ Sound(ledger, stock) /\ [Next]_vars => Sound(ledger, stock)'
    <2> SUFFICES ASSUME IInv, Sound(ledger, stock), [Next]_vars
                 PROVE  Sound(ledger, stock)'
      OBVIOUS
    <2>1. ASSUME NEW w \in Worker, Commit(w) PROVE Sound(ledger, stock)'
      <3> DEFINE r == PostingOf(w)
                 o == OperationOf(w)
      <3>1. /\ o \in OperationId /\ r \in Posting /\ WellFormed(r)
            /\ ledger[o] = NoPosting
            /\ OriginalAllows(ledger, r)
            /\ \A b \in Touched(r) :
                 /\ read[w][BalanceRow(b)] = stock[b]
                 /\ BucketAllows(r, b, stock[b])
        BY <2>1, CommitFacts DEF Commit
      <3>2. /\ ledger' = [ledger EXCEPT ![o] = r]
            /\ stock' = [b \in Bucket |->
                           IF b \in Touched(r)
                           THEN NewQuantity(r, b, read[w][BalanceRow(b)])
                           ELSE stock[b]]
        BY <2>1 DEF Commit
      <3>3. /\ ledger \in [OperationId -> Posting \union {NoPosting}]
            /\ stock \in [Bucket -> Nat]
        BY DEF IInv, TypeOK
      <3> HIDE DEF r, o
      <3>4. ledger' = Posted(ledger, o, r) /\ stock' = StockAfter(stock, r)
        BY <3>1, <3>2 DEF Posted, StockAfter
      <3>5. Sound(Posted(ledger, o, r), StockAfter(stock, r))
        BY <3>1, <3>3, SoundPosted
      <3> QED
        BY <3>4, <3>5, Zenon
    <2>2. CASE UNCHANGED <<ledger, stock>>
      BY <2>2
    <2> QED
      BY <2>1, <2>2 DEF Next, Step, Submit, Lookup, Reserve, Replay, Conflict,
         Lock, Reject, Crash, BreakDeadlock, SetActive, vars
  <1> QED
    BY <1>1, <1>2, Invariance, PTL DEF Spec

\* Under every interleaving of the six services the projection is the ledger:
\* verify_quantity_projection has nothing to report.
THEOREM ProjectionStaysLedger == Spec => []Ledger!BalanceIsLedger
  <1>1. Sound(ledger, stock) => Ledger!BalanceIsLedger
    BY SameVocabulary DEF Sound, Balanced, Ledger!BalanceIsLedger
  <1> QED
    BY <1>1, SoundInvariant, PTL

\* Concurrent returns of one issue never exceed it together.
THEOREM ConcurrentReturnsCapped == Spec => []Ledger!ReturnsWithinIssue
  <1>1. Sound(ledger, stock) => Ledger!ReturnsWithinIssue
    BY SameVocabulary DEF Sound, Capped, Ledger!ReturnsWithinIssue
  <1> QED
    BY <1>1, SoundInvariant, PTL

\* Concurrent corrections of one posting never take it below nothing together.
THEOREM ConcurrentCorrectionsFloored == Spec => []Ledger!CorrectionFloor
  <1>1. Sound(ledger, stock) => Ledger!CorrectionFloor
    BY SameVocabulary DEF Sound, Floored, Ledger!CorrectionFloor
  <1> QED
    BY <1>1, SoundInvariant, PTL

-----------------------------------------------------------------------------
(***************************************************************************)
(* The triggers.  They count line by line what the services count posting  *)
(* by posting.  The lines of two postings are different lines, for each    *)
(* names its header, so that the sums over lines are sums over postings    *)
(* (TotalRenamed): what is returned of an issue by its lines is what its   *)
(* returns say (ReturnedIs), and what is taken from a posting by the lines *)
(* of its corrections is what its equivalent lacks (CorrectedAwayIs).      *)
(* Both need of the postings in the ledger that they are well formed.      *)
(***************************************************************************)
\* Every posting in the ledger is one a service could be asked for.
AllWellFormed(l) == \A p \in OperationId : l[p] # NoPosting => WellFormed(l[p])

\* What a posting that is no transfer takes, and what it gives; and a transfer.
TakingLine(o, r) == LedgerLine(o, r, r.source, At(r.source), {})
GivingLine(o, r) == LedgerLine(o, r, r.target, {}, At(r.target))
MovingLine(o, r) == LedgerLine(o, r, r.source, At(r.source), At(r.target))

\* The fields of a line.
LEMMA LineFields ==
  ASSUME NEW o, NEW r, NEW b, NEW from, NEW to
  PROVE  LET x == LedgerLine(o, r, b, from, to) IN
         /\ x.header = o /\ x.material = MaterialOf(b) /\ x.condition = ConditionOf(b)
         /\ x.from = from /\ x.to = to /\ x.quantity = r.quantity
         /\ x.issue = IF r.type = "RETURN" THEN r.original ELSE NoOperation
         /\ x.corrected = IF r.type = "CONTROLLED_CORRECTION" THEN r.original ELSE NoOperation
  BY DEF LedgerLine

\* The lines of a posting.
LEMMA LinesAre ==
  ASSUME NEW o, NEW r
  PROVE  /\ r.type = "TRANSFER" => LinesOf(o, r) = {MovingLine(o, r)}
         /\ r.type # "TRANSFER" =>
              \A x : x \in LinesOf(o, r) <=>
                      \/ r.source # NoBucket /\ x = TakingLine(o, r)
                      \/ r.target # NoBucket /\ x = GivingLine(o, r)
         /\ r.source # NoBucket => TakingLine(o, r) # GivingLine(o, r)
  <1>1. r.type = "TRANSFER" => LinesOf(o, r) = {MovingLine(o, r)}
    BY DEF LinesOf, MovingLine
  <1>2. ASSUME r.type # "TRANSFER", NEW x
        PROVE  x \in LinesOf(o, r) <=> \/ r.source # NoBucket /\ x = TakingLine(o, r)
                                       \/ r.target # NoBucket /\ x = GivingLine(o, r)
    <2>1. LinesOf(o, r) =
            {LedgerLine(o, r, r.source, At(b), {}) : b \in {r.source} \ {NoBucket}}
              \union {LedgerLine(o, r, r.target, {}, At(b)) : b \in {r.target} \ {NoBucket}}
      BY <1>2 DEF LinesOf
    <2> QED
      BY <2>1, Zenon DEF TakingLine, GivingLine
  <1>3. r.source # NoBucket => TakingLine(o, r).from # {} /\ GivingLine(o, r).from = {}
    BY DEF LedgerLine, TakingLine, GivingLine, At
  <1> QED
    BY <1>1, <1>2, <1>3

\* A posting that may be referred to has one line, with the buckets it touches.
LEMMA TheLineIs ==
  ASSUME NEW l, NEW k, l[k] \in Posting, WellFormed(l[k]),
         l[k].type # "CONTROLLED_CORRECTION"
  PROVE  /\ LinesOf(k, l[k]) = {TheLine(l, k)}
         /\ TheLine(l, k).quantity = l[k].quantity
         /\ \A b \in Touched(l[k]) :
              /\ TheLine(l, k).material = MaterialOf(b)
              /\ TheLine(l, k).condition = ConditionOf(b)
              /\ LocationOf(b) \in TheLine(l, k).from \union TheLine(l, k).to
  <1> DEFINE r == l[k]
  <1>1. /\ r.type \in {"RECEIPT", "ISSUE", "RETURN", "TRANSFER", "COUNT_RECONCILIATION"}
        /\ r.source # r.target
    BY DEF Posting, WellFormed
  <1> HIDE DEF r
  <1>2. CASE r.type = "TRANSFER"
    <2>1. LinesOf(k, r) = {MovingLine(k, r)}
      BY <1>2, LinesAre
    <2>2. TheLine(l, k) = MovingLine(k, r)
      BY <2>1 DEF TheLine, r
    <2>3. /\ NoBucket \notin {r.source, r.target}
          /\ MaterialOf(r.source) = MaterialOf(r.target)
          /\ ConditionOf(r.source) = ConditionOf(r.target)
      BY <1>2 DEF WellFormed, r
    <2>4. LET x == MovingLine(k, r) IN
          /\ x.quantity = r.quantity /\ x.material = MaterialOf(r.source)
          /\ x.condition = ConditionOf(r.source)
          /\ x.from = At(r.source) /\ x.to = At(r.target)
      BY LineFields DEF MovingLine
    <2>5. At(r.source) = {LocationOf(r.source)} /\ At(r.target) = {LocationOf(r.target)}
      BY <2>3 DEF At
    <2> QED
      BY <2>1, <2>2, <2>3, <2>4, <2>5 DEF Touched, r
  <1>3. CASE r.type # "TRANSFER"
    <2>1. \/ r.source = NoBucket /\ r.target # NoBucket
          \/ r.source # NoBucket /\ r.target = NoBucket
      BY <1>1, <1>3 DEF WellFormed, r
    <2>2. CASE r.source = NoBucket /\ r.target # NoBucket
      <3>1. LinesOf(k, r) = {GivingLine(k, r)}
        BY <1>3, <2>2, LinesAre
      <3>2. TheLine(l, k) = GivingLine(k, r)
        BY <3>1 DEF TheLine, r
      <3>3. LET x == GivingLine(k, r) IN
            /\ x.quantity = r.quantity /\ x.material = MaterialOf(r.target)
            /\ x.condition = ConditionOf(r.target) /\ x.to = At(r.target)
        BY LineFields DEF GivingLine
      <3>4. At(r.target) = {LocationOf(r.target)} /\ Touched(r) = {r.target}
        BY <2>2 DEF At, Touched
      <3> QED
        BY <3>1, <3>2, <3>3, <3>4 DEF r
    <2>3. CASE r.source # NoBucket /\ r.target = NoBucket
      <3>1. LinesOf(k, r) = {TakingLine(k, r)}
        BY <1>3, <2>3, LinesAre
      <3>2. TheLine(l, k) = TakingLine(k, r)
        BY <3>1 DEF TheLine, r
      <3>3. LET x == TakingLine(k, r) IN
            /\ x.quantity = r.quantity /\ x.material = MaterialOf(r.source)
            /\ x.condition = ConditionOf(r.source) /\ x.from = At(r.source)
        BY LineFields DEF TakingLine
      <3>4. At(r.source) = {LocationOf(r.source)} /\ Touched(r) = {r.source}
        BY <2>3 DEF At, Touched
      <3> QED
        BY <3>1, <3>2, <3>3, <3>4 DEF r
    <2> QED
      BY <2>1, <2>2, <2>3
  <1> QED
    BY <1>2, <1>3

\* What the trigger finds returned of an issue is what its returns say.
LEMMA ReturnedIs ==
  ASSUME NEW l \in [OperationId -> Posting \union {NoPosting}], AllWellFormed(l),
         NEW o \in OperationId
  PROVE  ReturnedOf(l, o) = Total(EntriesOf(l, ReturnsOf(l, o)))
  <1> DEFINE S == ReturnsOf(l, o)
             h == [p \in S |-> GivingLine(p, l[p])]
             f == [p \in S |-> l[p].quantity]
             X == {y \in Lines(l) : y.issue = o}
             g == [x \in X |-> x.quantity]
  <1>1. S \subseteq OperationId /\ IsFiniteSet(S)
    BY FiniteOperations, FS_Subset DEF FiniteOperations, ReturnsOf
  <1>2. ASSUME NEW p \in S
        PROVE  /\ LinesOf(p, l[p]) = {GivingLine(p, l[p])}
               /\ GivingLine(p, l[p]).issue = o
               /\ GivingLine(p, l[p]).header = p
               /\ GivingLine(p, l[p]).quantity = l[p].quantity
               /\ l[p].quantity \in Int
    <2>1. l[p].type = "RETURN" /\ l[p].original = o
      BY DEF ReturnsOf
    <2>2. l[p] \in Posting /\ WellFormed(l[p])
      BY <1>1, <2>1 DEF AllWellFormed, NoPosting, Shape
    <2>3. l[p].source = NoBucket /\ l[p].target # NoBucket
      BY <2>1, <2>2 DEF WellFormed
    <2>4. LinesOf(p, l[p]) = {GivingLine(p, l[p])}
      BY <2>1, <2>3, LinesAre
    <2>5. l[p].quantity \in Int
      BY <2>2, TouchedBuckets
    <2> QED
      BY <2>1, <2>4, <2>5, LineFields DEF GivingLine
  <1>3. ASSUME NEW p \in OperationId, NEW x \in LinesOf(p, l[p]), x.issue = o
        PROVE  p \in S /\ x = GivingLine(p, l[p])
    <2>1. \/ x = MovingLine(p, l[p]) \/ x = TakingLine(p, l[p]) \/ x = GivingLine(p, l[p])
      BY LinesAre
    <2>2. x.issue = IF l[p].type = "RETURN" THEN l[p].original ELSE NoOperation
      BY <2>1, LineFields DEF MovingLine, TakingLine, GivingLine
    <2>3. p \in S
      BY <1>3, <2>2, PostingConstants DEF PostingConstants, ReturnsOf
    <2> QED
      BY <1>2, <2>3
  <1>4. X = {h[p] : p \in S}
    <2>1. X = {y \in UNION {LinesOf(p, l[p]) : p \in OperationId} : y.issue = o}
      BY DEF Lines
    <2>2. \A x \in X : \E p \in S : x = h[p]
      BY <1>3, <2>1
    <2>3. \A p \in S : h[p] \in X
      BY <1>1, <1>2, <2>1
    <2> HIDE DEF X, h
    <2> QED
      BY <2>2, <2>3
  <1>5. \A p \in S : f[p] \in Int /\ g[h[p]] = f[p]
    <2>1. \A p \in S : h[p] \in X
      BY <1>4
    <2>2. \A p \in S : h[p].quantity = f[p] /\ f[p] \in Int
      BY <1>2
    <2>3. \A x \in X : g[x] = x.quantity
      OBVIOUS
    <2> HIDE DEF X, h, f, g, S
    <2> QED
      BY <2>1, <2>2, <2>3
  <1>6. \A p, q \in S : h[p] = h[q] => p = q
    <2>1. \A p \in S : h[p].header = p
      BY <1>2
    <2> QED
      BY <2>1, Zenon
  <1>7. ReturnedOf(l, o) = Total(Entries(g, X))
    BY DEF ReturnedOf, Entries
  <1>8. Total(EntriesOf(l, S)) = Total(Entries(f, S))
    BY DEF EntriesOf, Entries
  <1> HIDE DEF S, h, f, X, g
  <1>9. Total(Entries(g, {h[p] : p \in S})) = Total(Entries(f, S))
    BY <1>1, <1>5, <1>6, TotalRenamed
  <1> QED
    BY <1>4, <1>7, <1>8, <1>9 DEF S

\* What a correction's lines take, one by one.
LEMMA CorrectionLines ==
  ASSUME NEW l \in [OperationId -> Posting \union {NoPosting}],
         NEW p \in OperationId, l[p].type = "CONTROLLED_CORRECTION", WellFormed(l[p])
  PROVE  LET t == TakingLine(p, l[p])
             g == GivingLine(p, l[p])
             q == l[p].quantity
         IN  /\ q \in Int
             /\ t.header = p /\ g.header = p /\ t # g
             /\ t.corrected = l[p].original /\ g.corrected = l[p].original
             /\ l[p].source # NoBucket => TakenBy(l, t) = q
             /\ l[p].source = NoBucket => TakenBy(l, g) = -q
             /\ l[p].source # NoBucket /\ l[p].target # NoBucket => TakenBy(l, g) = 0
  <1> DEFINE r == l[p]
             t == TakingLine(p, r)
             g == GivingLine(p, r)
  <1>1. r \in Posting /\ r.source # r.target /\ r.quantity \in Int
    BY TouchedBuckets DEF NoPosting, Shape, WellFormed
  <1>2. /\ t.header = p /\ g.header = p
        /\ t.corrected = r.original /\ g.corrected = r.original
        /\ t.quantity = r.quantity /\ g.quantity = r.quantity
        /\ g.from = {} /\ t.from = At(r.source) /\ t.to = {} /\ g.to = At(r.target)
    BY LineFields DEF TakingLine, GivingLine
  <1>3. t # g
    <2>1. r.source # NoBucket \/ r.target # NoBucket
      BY <1>1
    <2>2. At(r.source) # {} \/ At(r.target) # {}
      BY <2>1 DEF At
    <2> QED
      BY <1>2, <2>2
  <1>4. \A x : x \in LinesOf(p, r) <=> \/ r.source # NoBucket /\ x = t
                                       \/ r.target # NoBucket /\ x = g
    <2>1. r.type # "TRANSFER"
      OBVIOUS
    <2>2. \A x : x \in LinesOf(p, r) <=> \/ r.source # NoBucket /\ x = TakingLine(p, r)
                                         \/ r.target # NoBucket /\ x = GivingLine(p, r)
      <3> HIDE DEF r
      <3> QED
        BY ONLY <2>1, LinesAre, Zenon
    <2> QED
      BY <2>2, Zenon
  <1> HIDE DEF t, g, r
  <1>5. r.source # NoBucket => t.from # {}
    BY <1>2 DEF At
  <1>6. r.source = NoBucket => LinesOf(p, r) = {g}
    BY <1>1, <1>4
  <1>7. r.source # NoBucket /\ r.target # NoBucket => LinesOf(p, r) = {t, g}
    <2>1. CASE r.source # NoBucket /\ r.target # NoBucket
      <3>1. \A x : x \in LinesOf(p, r) <=> x \in {t, g}
        BY <1>4, <2>1, Zenon
      <3> QED
        BY <3>1, Zenon
    <2> QED
      BY <2>1, Zenon
  <1>8. Cardinality({g}) = 1 /\ Cardinality({t, g}) = 2
    BY <1>3, FS_Singleton, TwoOfThem
  <1>9. r.source = NoBucket => Alone(l, g)
    BY <1>2, <1>6, <1>8 DEF Alone, r
  <1>10. r.source # NoBucket /\ r.target # NoBucket => ~Alone(l, g)
    BY <1>2, <1>7, <1>8 DEF Alone, r
  <1>11. r.source # NoBucket => TakenBy(l, t) = r.quantity
    BY <1>2, <1>5 DEF TakenBy
  <1>12. r.source = NoBucket => TakenBy(l, g) = -r.quantity
    BY <1>2, <1>9 DEF TakenBy
  <1>13. r.source # NoBucket /\ r.target # NoBucket => TakenBy(l, g) = 0
    BY <1>2, <1>10 DEF TakenBy
  <1> QED
    BY <1>1, <1>2, <1>3, <1>11, <1>12, <1>13 DEF t, g, r

\* What the trigger finds taken from a posting is what its equivalent lacks.
LEMMA CorrectedAwayIs ==
  ASSUME NEW l \in [OperationId -> Posting \union {NoPosting}], AllWellFormed(l),
         NEW o \in OperationId
  PROVE  CorrectedAway(l, o) = l[o].quantity - Equivalent(l, o)
  <1> DEFINE C == CorrectionsOf(l, o)
             low == {p \in C : l[p].source # NoBucket}
             rai == C \ low
             both == {p \in low : l[p].target # NoBucket}
             t == [p \in C |-> TakingLine(p, l[p])]
             u == [p \in C |-> GivingLine(p, l[p])]
             q == [p \in C |-> l[p].quantity]
             n == [p \in C |-> -l[p].quantity]
             A == {t[p] : p \in low}
             B == {u[p] : p \in rai}
             D == {u[p] : p \in both}
             X == {y \in Lines(l) : y.corrected = o}
             g == [x \in X |-> TakenBy(l, x)]
  <1>1. /\ C \subseteq OperationId /\ IsFiniteSet(C)
        /\ IsFiniteSet(low) /\ IsFiniteSet(rai) /\ IsFiniteSet(both)
    BY FiniteOperations, FS_Subset DEF FiniteOperations, CorrectionsOf
  <1>2. ASSUME NEW p \in C
        PROVE  /\ q[p] \in Int /\ n[p] = -q[p]
               /\ t[p].header = p /\ u[p].header = p /\ t[p] # u[p]
               /\ t[p].corrected = o /\ u[p].corrected = o
               /\ p \in low => TakenBy(l, t[p]) = q[p]
               /\ p \in rai => TakenBy(l, u[p]) = n[p]
               /\ p \in both => TakenBy(l, u[p]) = 0
               /\ \A x : x \in LinesOf(p, l[p]) <=> \/ l[p].source # NoBucket /\ x = t[p]
                                                    \/ l[p].target # NoBucket /\ x = u[p]
               /\ l[p].source # l[p].target
    <2>1. l[p].type = "CONTROLLED_CORRECTION" /\ l[p].original = o
      BY DEF CorrectionsOf
    <2>2. WellFormed(l[p])
      BY <1>1, <2>1 DEF AllWellFormed, NoPosting, Shape
    <2>3. l[p].source # l[p].target
      BY <2>2 DEF WellFormed
    <2>4. \A x : x \in LinesOf(p, l[p]) <=> \/ l[p].source # NoBucket /\ x = t[p]
                                            \/ l[p].target # NoBucket /\ x = u[p]
      BY <2>1, LinesAre
    <2>5. /\ q[p] \in Int
          /\ t[p].header = p /\ u[p].header = p /\ t[p] # u[p]
          /\ t[p].corrected = o /\ u[p].corrected = o
          /\ l[p].source # NoBucket => TakenBy(l, t[p]) = q[p]
          /\ l[p].source = NoBucket => TakenBy(l, u[p]) = -q[p]
          /\ l[p].source # NoBucket /\ l[p].target # NoBucket => TakenBy(l, u[p]) = 0
      BY <1>1, <2>1, <2>2, CorrectionLines
    <2>6. n[p] = -q[p] /\ q[p] = l[p].quantity
      OBVIOUS
    <2>7. /\ p \in low => l[p].source # NoBucket
          /\ p \in rai => l[p].source = NoBucket
          /\ p \in both => l[p].source # NoBucket /\ l[p].target # NoBucket
      OBVIOUS
    <2> HIDE DEF t, u, n, q, low, rai, both, C
    <2> QED
      BY <2>3, <2>4, <2>5, <2>6, <2>7, Zenon
  <1>3. ASSUME NEW p \in OperationId, NEW x \in LinesOf(p, l[p]), x.corrected = o
        PROVE  p \in C /\ x \in A \union B \union D
    <2>1. \/ x = MovingLine(p, l[p]) \/ x = TakingLine(p, l[p]) \/ x = GivingLine(p, l[p])
      BY LinesAre
    <2>2. x.corrected = IF l[p].type = "CONTROLLED_CORRECTION" THEN l[p].original
                                                             ELSE NoOperation
      BY <2>1, LineFields DEF MovingLine, TakingLine, GivingLine
    <2>3. p \in C
      BY <1>3, <2>2, PostingConstants DEF PostingConstants, CorrectionsOf
    <2>4. \/ l[p].source # NoBucket /\ x = t[p]
          \/ l[p].target # NoBucket /\ x = u[p]
      BY <1>2, <2>3
    <2>5. l[p].source # NoBucket => p \in low
      BY <2>3
    <2>6. l[p].target # NoBucket => p \in rai \union both
      BY <2>3
    <2> HIDE DEF t, u, C, low, rai, both
    <2> QED
      BY <2>3, <2>4, <2>5, <2>6
  <1>4. X = (A \union B) \union D
    <2>1. X = {y \in UNION {LinesOf(p, l[p]) : p \in OperationId} : y.corrected = o}
      BY DEF Lines
    <2>2. \A x \in X : x \in A \union B \union D
      BY <1>3, <2>1
    <2>3. /\ \A p \in low : l[p].source # NoBucket /\ p \in C
          /\ \A p \in rai : l[p].target # NoBucket /\ p \in C
          /\ \A p \in both : l[p].target # NoBucket /\ p \in C
      BY <1>2
    <2>4. \A p \in C : /\ l[p].source # NoBucket => t[p] \in X
                       /\ l[p].target # NoBucket => u[p] \in X
      <3> HIDE DEF t, u, low, rai, both
      <3>1. ASSUME NEW p \in C
            PROVE  /\ l[p].source # NoBucket => t[p] \in LinesOf(p, l[p])
                   /\ l[p].target # NoBucket => u[p] \in LinesOf(p, l[p])
                   /\ t[p].corrected = o /\ u[p].corrected = o
                   /\ p \in OperationId
        BY <1>1, <1>2, Zenon
      <3> HIDE DEF C, X
      <3> QED
        BY <3>1, <2>1
    <2> HIDE DEF X, t, u, C, low, rai, both
    <2> QED
      BY <2>2, <2>3, <2>4
  <1>5. /\ \A p \in low : q[p] \in Int /\ g[t[p]] = q[p]
        /\ \A p \in rai : n[p] \in Int /\ g[u[p]] = n[p]
        /\ \A x \in D : g[x] = 0
        /\ \A x \in X : g[x] \in Int
    <2>1. A \subseteq X /\ B \subseteq X /\ D \subseteq X
      BY <1>4
    <2>2. \A x \in X : g[x] = TakenBy(l, x)
      OBVIOUS
    <2>3. low \subseteq C /\ rai \subseteq C /\ both \subseteq C
      OBVIOUS
    <2>4. \A p \in C : /\ q[p] \in Int /\ n[p] \in Int
                       /\ p \in low => TakenBy(l, t[p]) = q[p]
                       /\ p \in rai => TakenBy(l, u[p]) = n[p]
                       /\ p \in both => TakenBy(l, u[p]) = 0
      BY <1>2
    <2> HIDE DEF X, t, u, C, low, rai, both, g, q, n
    <2>5. /\ \A p \in low : q[p] \in Int /\ g[t[p]] = q[p]
          /\ \A p \in rai : n[p] \in Int /\ g[u[p]] = n[p]
          /\ \A p \in both : g[u[p]] = 0
      BY <2>1, <2>2, <2>3, <2>4
    <2>6. \A x \in X : g[x] \in Int
      BY <1>4, <2>3, <2>4, <2>5
    <2> QED
      BY <2>5, <2>6
  <1>6. /\ \A p, k \in low : t[p] = t[k] => p = k
        /\ \A p, k \in rai : u[p] = u[k] => p = k
        /\ \A p, k \in both : u[p] = u[k] => p = k
        /\ A \intersect B = {} /\ (A \union B) \intersect D = {}
    <2>1. \A p \in C : t[p].header = p /\ u[p].header = p /\ t[p] # u[p]
      BY <1>2
    <2>2. low \subseteq C /\ rai \subseteq C /\ both \subseteq low /\ rai \intersect low = {}
      OBVIOUS
    <2> HIDE DEF t, u, C, low, rai, both
    <2>3. \A p, k \in C : t[p] # u[k]
      BY <2>1
    <2>4. \A p, k \in C : (t[p] = t[k] => p = k) /\ (u[p] = u[k] => p = k)
      BY <2>1
    <2> QED
      BY <2>2, <2>3, <2>4
  <1>7. CorrectedAway(l, o) = Total(Entries(g, X))
    BY DEF CorrectedAway, Entries
  <1>8. /\ Total(EntriesOf(l, low)) = Total(Entries(q, low))
        /\ Total(EntriesOf(l, rai)) = Total(Entries(q, rai))
    BY DEF EntriesOf, Entries
  <1>9. Equivalent(l, o) = l[o].quantity - Total(EntriesOf(l, low)) + Total(EntriesOf(l, rai))
    BY DEF Equivalent
  <1>10. \A p \in rai : q[p] \in Int /\ n[p] = -q[p]
    BY <1>2
  <1>11. l[o].quantity \in Int
    BY TouchedBuckets DEF NoPosting, Shape
  <1> HIDE DEF C, low, rai, both, t, u, q, n, X, g
  <1>12. IsFiniteSet(A) /\ Total(Entries(g, A)) = Total(Entries(q, low))
    <2>1. IsFiniteSet(low)
      BY <1>1
    <2>2. \A p \in low : q[p] \in Int /\ g[t[p]] = q[p]
      BY <1>5
    <2>3. \A p, k \in low : t[p] = t[k] => p = k
      BY <1>6
    <2> QED
      BY ONLY <2>1, <2>2, <2>3, TotalRenamed DEF A
  <1>13. IsFiniteSet(B) /\ Total(Entries(g, B)) = Total(Entries(n, rai))
    <2>1. IsFiniteSet(rai)
      BY <1>1
    <2>2. \A p \in rai : n[p] \in Int /\ g[u[p]] = n[p]
      BY <1>5
    <2>3. \A p, k \in rai : u[p] = u[k] => p = k
      BY <1>6
    <2> QED
      BY ONLY <2>1, <2>2, <2>3, TotalRenamed DEF B
  <1>14. Total(Entries(n, rai)) = -Total(Entries(q, rai))
    BY <1>1, <1>10, TotalNegated
  <1>15. IsFiniteSet(D) /\ Total(Entries(g, D)) = 0
    <2> DEFINE zero == [p \in both |-> 0]
    <2>1. \A p \in both : zero[p] \in Int /\ g[u[p]] = zero[p]
      BY <1>5
    <2>2. \A e \in Entries(zero, both) : e[2] = 0
      BY DEF Entries
    <2>3. \A p \in both : zero[p] \in Int
      OBVIOUS
    <2> HIDE DEF zero
    <2>4. IsFiniteSet(D) /\ Total(Entries(g, D)) = Total(Entries(zero, both))
      <3>1. IsFiniteSet(both)
        BY <1>1
      <3>2. \A p, k \in both : u[p] = u[k] => p = k
        BY <1>6
      <3> QED
        BY ONLY <2>1, <3>1, <3>2, TotalRenamed DEF D
    <2>5. IsFiniteSet(Entries(zero, both))
      BY <1>1, <2>3, EntriesFinite
    <2>6. Total(Entries(zero, both)) = 0
      BY <2>2, <2>5, TotalOfZeros
    <2> QED
      BY <2>4, <2>6
  <1>16. /\ \A x \in A \union B : g[x] \in Int
         /\ \A x \in (A \union B) \union D : g[x] \in Int
         /\ \A p \in low : q[p] \in Int
         /\ \A p \in rai : q[p] \in Int
    BY <1>4, <1>5, <1>10
  <1>17. Total(Entries(q, low)) \in Int /\ Total(Entries(q, rai)) \in Int
    BY <1>1, <1>16, EntriesFinite
  <1> HIDE DEF A, B, D
  <1>18. Total(Entries(g, A \union B)) = Total(Entries(g, A)) + Total(Entries(g, B))
    BY <1>6, <1>12, <1>13, <1>16, TotalOfUnion
  <1>19. IsFiniteSet(A \union B)
    BY <1>12, <1>13, FS_Union
  <1>20. Total(Entries(g, X)) = Total(Entries(g, A \union B)) + Total(Entries(g, D))
    BY <1>4, <1>6, <1>15, <1>16, <1>19, TotalOfUnion
  <1> QED
    BY <1>7, <1>8, <1>9, <1>11, <1>12, <1>13, <1>14, <1>15, <1>17, <1>18, <1>20

\* Every line of a posting that its original allows is one the trigger accepts.
LEMMA LinesAccepted ==
  ASSUME NEW l \in [OperationId -> Posting \union {NoPosting}], AllWellFormed(l),
         NEW o \in OperationId,
         NEW r \in Posting, WellFormed(r), OriginalAllows(l, r),
         NEW x \in LinesOf(o, r)
  PROVE  LineAccepted(l, r.type, x)
  <1> DEFINE k == r.original
             t == TakingLine(o, r)
             g == GivingLine(o, r)
             m == MovingLine(o, r)
  <1>1. /\ r.source # r.target
        /\ k # NoOperation <=> r.type \in {"RETURN", "CONTROLLED_CORRECTION"}
        /\ k = NoOperation \/ k \in OperationId
        /\ r.quantity \in Nat
    BY TouchedBuckets DEF WellFormed, Posting
  <1>2. /\ r.type # "RETURN" => t.issue = NoOperation /\ g.issue = NoOperation
                                /\ m.issue = NoOperation
        /\ r.type = "RETURN" => g.issue = k
        /\ r.type # "CONTROLLED_CORRECTION" =>
             t.corrected = NoOperation /\ g.corrected = NoOperation
               /\ m.corrected = NoOperation
        /\ r.type = "CONTROLLED_CORRECTION" => t.corrected = k /\ g.corrected = k
    BY LineFields DEF TakingLine, GivingLine, MovingLine
  <1>3. /\ t.from = At(r.source) /\ t.to = {} /\ g.from = {} /\ g.to = At(r.target)
        /\ m.from = At(r.source) /\ m.to = At(r.target)
        /\ t.material = MaterialOf(r.source) /\ t.condition = ConditionOf(r.source)
        /\ g.material = MaterialOf(r.target) /\ g.condition = ConditionOf(r.target)
        /\ t.quantity = r.quantity /\ g.quantity = r.quantity
    BY LineFields DEF TakingLine, GivingLine, MovingLine
  <1>4. /\ r.source # NoBucket => At(r.source) = {LocationOf(r.source)}
        /\ r.target # NoBucket => At(r.target) = {LocationOf(r.target)}
    BY DEF At
  <1>5. /\ r.type = "TRANSFER" => x = m
        /\ r.type # "TRANSFER" => \/ r.source # NoBucket /\ x = t
                                  \/ r.target # NoBucket /\ x = g
    BY LinesAre
  <1> HIDE DEF t, g, m
  <1>6. CASE r.type = "TRANSFER"
    <2>1. /\ r.source # NoBucket /\ r.target # NoBucket
          /\ LocationOf(r.source) # LocationOf(r.target)
      BY <1>6 DEF WellFormed
    <2>2. TransferLineAccepted(x)
      BY <1>2, <1>3, <1>4, <1>5, <1>6, <2>1 DEF TransferLineAccepted, Unreferring
    <2> QED
      BY <1>6, <2>2 DEF LineAccepted
  <1>7. CASE r.type = "RECEIPT"
    <2>1. r.source = NoBucket
      BY <1>7 DEF WellFormed
    <2>2. ReceiptLineAccepted(x)
      BY <1>2, <1>3, <1>4, <1>5, <1>7, <2>1 DEF ReceiptLineAccepted, Unreferring
    <2> QED
      BY <1>7, <2>2 DEF LineAccepted
  <1>8. CASE r.type = "ISSUE"
    <2>1. r.target = NoBucket
      BY <1>8 DEF WellFormed
    <2>2. IssueLineAccepted(x)
      BY <1>2, <1>3, <1>4, <1>5, <1>8, <2>1 DEF IssueLineAccepted, Unreferring
    <2> QED
      BY <1>8, <2>2 DEF LineAccepted
  <1>9. CASE r.type = "COUNT_RECONCILIATION"
    <2>1. CountLineAccepted(x)
      BY <1>2, <1>3, <1>4, <1>5, <1>9 DEF CountLineAccepted, OneDirection, Unreferring
    <2> QED
      BY <1>9, <2>1 DEF LineAccepted
  <1>10. CASE r.type = "RETURN"
    <2>1. r.source = NoBucket /\ k \in OperationId /\ k # NoOperation
      BY <1>1, <1>10 DEF WellFormed
    <2>2. x = g /\ r.target # NoBucket
      BY <1>5, <1>10, <2>1
    <2>3. ReturnAllowed(l, r)
      BY <1>10 DEF OriginalAllows
    <2>4. l[k].type = "ISSUE" /\ l[k] \in Posting /\ WellFormed(l[k])
      BY <2>1, <2>3 DEF ReturnAllowed, AllWellFormed, NoPosting, Shape
    <2>5. l[k].source \in Touched(l[k])
      BY <2>4 DEF WellFormed, Touched
    <2>6. /\ TheLine(l, k).quantity = l[k].quantity
          /\ TheLine(l, k).material = MaterialOf(l[k].source)
          /\ TheLine(l, k).condition = ConditionOf(l[k].source)
      BY <2>4, <2>5, TheLineIs
    <2>7. ReturnedOf(l, k) + r.quantity <= l[k].quantity
      <3>1. r.quantity <= l[k].quantity - Total(EntriesOf(l, ReturnsOf(l, k)))
        BY <2>3 DEF ReturnAllowed, Returnable
      <3>2. ReturnedOf(l, k) = Total(EntriesOf(l, ReturnsOf(l, k)))
        BY <2>1, ReturnedIs
      <3>3. Total(EntriesOf(l, ReturnsOf(l, k))) \in Int /\ l[k].quantity \in Nat
        BY <2>1, <2>4, TouchedBuckets, ReturnedTotalInt
      <3> QED
        BY <1>1, <3>1, <3>2, <3>3
    <2>8. /\ MaterialOf(r.target) = MaterialOf(l[k].source)
          /\ ConditionOf(r.target) = ConditionOf(l[k].source)
      BY <2>3 DEF ReturnAllowed
    <2>9. x.issue = k /\ x.corrected = NoOperation
      BY <1>2, <1>10, <2>2
    <2> HIDE DEF k
    <2>10. ReturnLineAccepted(l, x)
      BY <1>3, <1>4, <2>1, <2>2, <2>4, <2>6, <2>7, <2>8, <2>9 DEF ReturnLineAccepted
    <2> QED
      BY <1>10, <2>10 DEF LineAccepted
  <1>11. CASE r.type = "CONTROLLED_CORRECTION"
    <2>1. k \in OperationId /\ k # NoOperation
      BY <1>1, <1>11
    <2>2. /\ l[k].type \notin {"NONE", "CONTROLLED_CORRECTION"}
          /\ Affected(r) \in Touched(l[k])
      BY <1>11 DEF OriginalAllows, CorrectionAllowed
    <2>3. l[k] \in Posting /\ WellFormed(l[k])
      BY <2>1, <2>2 DEF AllWellFormed, NoPosting, Shape
    <2>4. /\ TheLine(l, k).material = MaterialOf(Affected(r))
          /\ TheLine(l, k).condition = ConditionOf(Affected(r))
          /\ LocationOf(Affected(r)) \in TheLine(l, k).from \union TheLine(l, k).to
      BY <2>2, <2>3, TheLineIs
    <2>5. x.issue = NoOperation /\ x.corrected = k
      BY <1>2, <1>5, <1>11
    <2>6. OneDirection(x)
      BY <1>3, <1>4, <1>5, <1>11 DEF OneDirection
    <2>7. x.from # {} => InBucketOf(x, TheLine(l, k))
      <3> SUFFICES ASSUME x.from # {} PROVE InBucketOf(x, TheLine(l, k))
        OBVIOUS
      <3>1. r.source # NoBucket /\ x = t
        BY <1>3, <1>5, <1>11
      <3>2. Affected(r) = r.source
        BY <3>1 DEF Affected
      <3> QED
        BY <1>3, <1>4, <2>4, <3>1, <3>2 DEF InBucketOf
    <2> HIDE DEF k
    <2>8. CorrectionLineAccepted(l, x)
      BY <2>1, <2>2, <2>5, <2>6, <2>7 DEF CorrectionLineAccepted
    <2> QED
      BY <1>11, <2>8 DEF LineAccepted
  <1> QED
    BY <1>6, <1>7, <1>8, <1>9, <1>10, <1>11 DEF Posting

\* The header of an admissible posting is one the deferred triggers accept.
LEMMA HeaderIsAccepted ==
  ASSUME NEW l \in [OperationId -> Posting \union {NoPosting}], AllWellFormed(l),
         NEW s \in [Bucket -> Nat], Sound(l, s),
         NEW o \in OperationId, l[o] = NoPosting,
         NEW r \in Posting, WellFormed(r), OriginalAllows(l, r),
         \A b \in Touched(r) : BucketAllows(r, b, s[b])
  PROVE  /\ AllWellFormed(Posted(l, o, r))
         /\ HeaderAccepted(Posted(l, o, r), o)
  <1> DEFINE n == Posted(l, o, r)
             k == r.original
             lines == LinesOf(o, r)
  <1>1. /\ n \in [OperationId -> Posting \union {NoPosting}]
        /\ n[o] = r /\ \A p \in OperationId : p # o => n[p] = l[p]
    BY DEF Posted
  <1>2. AllWellFormed(n)
    BY <1>1 DEF AllWellFormed
  <1>3. Floored(n)
    BY SoundPosted DEF Sound
  <1> HIDE DEF n
  <1>4. CASE r.type # "CONTROLLED_CORRECTION"
    <2>1. lines = {TheLine(n, o)}
      BY <1>1, <1>4, TheLineIs
    <2>2. Cardinality(lines) = 1 /\ lines # {}
      BY <2>1, FS_Singleton
    <2> QED
      BY <1>1, <1>2, <1>4, <2>2 DEF HeaderAccepted, n
  <1>5. CASE r.type = "CONTROLLED_CORRECTION"
    <2>1. k \in OperationId /\ k # NoOperation
      BY <1>5 DEF WellFormed, Posting
    <2>2. /\ l[k].type \notin {"NONE", "CONTROLLED_CORRECTION"}
          /\ Affected(r) \in Touched(l[k])
      BY <1>5 DEF OriginalAllows, CorrectionAllowed
    <2>3. l[k] \in Posting /\ WellFormed(l[k]) /\ k # o
      BY <2>1, <2>2 DEF AllWellFormed, NoPosting, Shape
    <2>4. n[k] = l[k] /\ n[k] # NoPosting
      BY <1>1, <2>1, <2>2, <2>3 DEF NoPosting, Shape
    <2>5. /\ TheLine(n, k).material = MaterialOf(Affected(r))
          /\ TheLine(n, k).condition = ConditionOf(Affected(r))
          /\ LocationOf(Affected(r)) \in TheLine(n, k).from \union TheLine(n, k).to
          /\ TheLine(n, k).quantity = n[k].quantity
      BY <2>2, <2>3, <2>4, TheLineIs
    <2>6. CorrectedAway(n, k) <= TheLine(n, k).quantity
      <3>1. Equivalent(n, k) >= 0
        BY <1>3, <2>1, <2>4 DEF Floored
      <3>2. CorrectedAway(n, k) = n[k].quantity - Equivalent(n, k)
        BY <1>1, <1>2, <2>1, <2>4, CorrectedAwayIs
      <3>3. Equivalent(n, k) \in Int /\ n[k].quantity \in Nat
        BY <1>1, <2>1, <2>3, <2>4, EquivalentInt, TouchedBuckets
      <3> QED
        BY <2>5, <3>1, <3>2, <3>3
    <2> DEFINE t == TakingLine(o, r)
               g == GivingLine(o, r)
    <2>7. /\ t.corrected = k /\ g.corrected = k
          /\ t.from = At(r.source) /\ t.to = {} /\ g.from = {} /\ g.to = At(r.target)
          /\ t.material = MaterialOf(r.source) /\ t.condition = ConditionOf(r.source)
          /\ g.material = MaterialOf(r.target) /\ g.condition = ConditionOf(r.target)
          /\ t.quantity = r.quantity /\ g.quantity = r.quantity
      BY <1>5, LineFields DEF TakingLine, GivingLine
    <2>8. \A x : x \in lines <=> ((r.source # NoBucket /\ x = t) \/ (r.target # NoBucket /\ x = g))
      BY <1>5, LinesAre
    <2>9. r.source # NoBucket => t # g
      BY LinesAre
    <2>10. /\ r.source # r.target
           /\ r.source = NoBucket \/ r.source \in Bucket
           /\ r.target = NoBucket \/ r.target \in Bucket
      BY DEF WellFormed, Posting
    <2> HIDE DEF t, g, lines, k
    <2>11. \A x \in lines : x.corrected = k
      BY <2>7, <2>8
    <2>12. CASE r.source # NoBucket /\ r.target # NoBucket
      <3>1. lines = {t, g}
        BY <2>8, <2>12
      <3>2. Cardinality(lines) = 2
        BY <2>9, <2>12, <3>1, TwoOfThem
      <3>3. At(r.source) = {LocationOf(r.source)} /\ At(r.target) = {LocationOf(r.target)}
        BY <2>12 DEF At
      <3>4. Affected(r) = r.source
        BY <2>12 DEF Affected
      <3>5. InBucketOf(t, TheLine(n, k))
        BY <2>5, <2>7, <3>3, <3>4 DEF InBucketOf
      <3>6. \/ t.material # g.material
            \/ t.condition # g.condition
            \/ t.from # g.to
        <4>1. /\ r.source = <<MaterialOf(r.source), LocationOf(r.source), ConditionOf(r.source)>>
              /\ r.target = <<MaterialOf(r.target), LocationOf(r.target), ConditionOf(r.target)>>
          BY <2>10, <2>12 DEF Bucket, MaterialOf, LocationOf, ConditionOf
        <4> QED
          BY <2>7, <2>10, <3>3, <4>1
      <3>7. IdentityCorrection(n, lines)
        <4>1. t \in lines /\ g \in lines
          BY <3>1
        <4>2. t.from # {} /\ t.to = {} /\ g.from = {} /\ g.to # {}
          BY <2>7, <3>3
        <4>3. t.corrected = g.corrected /\ t.quantity = g.quantity /\ t.corrected = k
          BY <2>7
        <4> QED
          BY <3>5, <3>6, <4>1, <4>2, <4>3 DEF IdentityCorrection
      <3>8. CorrectionAccepted(n, lines)
        BY <2>6, <2>11, <3>2, <3>7 DEF CorrectionAccepted
      <3> QED
        BY <1>1, <1>2, <1>5, <3>8 DEF HeaderAccepted, n, lines
    <2>13. CASE r.source = NoBucket \/ r.target = NoBucket
      <3>1. PICK x : /\ lines = {x} /\ x.from \union x.to = {LocationOf(Affected(r))}
                     /\ x.material = MaterialOf(Affected(r))
                     /\ x.condition = ConditionOf(Affected(r))
        <4>1. CASE r.source = NoBucket
          <5>1. r.target # NoBucket
            BY <2>10, <4>1
          <5>2. lines = {g}
            BY <2>8, <4>1, <5>1
          <5>3. At(r.target) = {LocationOf(r.target)} /\ Affected(r) = r.target
            BY <4>1, <5>1 DEF At, Affected
          <5> QED
            BY <2>7, <5>2, <5>3
        <4>2. CASE r.source # NoBucket /\ r.target = NoBucket
          <5>1. lines = {t}
            BY <2>8, <4>2
          <5>2. At(r.source) = {LocationOf(r.source)} /\ Affected(r) = r.source
            BY <4>2 DEF At, Affected
          <5> QED
            BY <2>7, <5>1, <5>2
        <4> QED
          BY <2>13, <4>1, <4>2
      <3>2. Cardinality(lines) = 1
        BY <3>1, FS_Singleton
      <3>3. QuantityCorrection(n, lines)
        BY <2>5, <2>11, <3>1 DEF QuantityCorrection, InBucketOf
      <3>4. CorrectionAccepted(n, lines)
        BY <2>6, <2>11, <3>2, <3>3 DEF CorrectionAccepted
      <3> QED
        BY <1>1, <1>2, <1>5, <3>4 DEF HeaderAccepted, n, lines
    <2> QED
      BY <2>12, <2>13
  <1> QED
    BY <1>4, <1>5

\* Only what is well formed is ever posted.
LEMMA PostedWellFormed == Spec => []AllWellFormed(ledger)
  <1>1. Init => AllWellFormed(ledger)
    BY DEF Init, AllWellFormed
  <1>2. IInv /\ AllWellFormed(ledger) /\ [Next]_vars => AllWellFormed(ledger)'
    <2> SUFFICES ASSUME IInv, AllWellFormed(ledger), [Next]_vars
                 PROVE  AllWellFormed(ledger)'
      OBVIOUS
    <2>1. ASSUME NEW w \in Worker, Commit(w) PROVE AllWellFormed(ledger)'
      <3>1. WellFormed(PostingOf(w)) /\ ledger \in [OperationId -> Posting \union {NoPosting}]
        BY <2>1, CommitFacts DEF Commit, IInv, TypeOK
      <3>2. ledger' = [ledger EXCEPT ![OperationOf(w)] = PostingOf(w)]
        BY <2>1 DEF Commit
      <3> QED
        BY <3>1, <3>2 DEF AllWellFormed
    <2>2. CASE UNCHANGED ledger
      BY <2>2 DEF AllWellFormed
    <2> QED
      BY <2>1, <2>2 DEF Next, Step, Submit, Lookup, Reserve, Replay, Conflict,
         Lock, Reject, Crash, BreakDeadlock, SetActive, vars
  <1> QED
    BY <1>1, <1>2, Invariance, PTL DEF Spec

\* Whatever a service has validated and commits, the triggers behind it accept: its
\* lines, its header at the commit, and the balances it leaves.
THEOREM TriggersNeverRefuse == Spec => TriggersAccept
  <1> DEFINE Inv == /\ IInv /\ Sound(ledger, stock) /\ AllWellFormed(ledger)
  <1>1. Inv /\ TypeOK' /\ StockOnlyAtUsableLocations' /\ [Next]_vars
          => [\A o \in OperationId : ledger'[o] # ledger[o] => Accepted(o)]_vars
    <2> SUFFICES ASSUME Inv, TypeOK', StockOnlyAtUsableLocations', Next,
                        NEW o \in OperationId, ledger'[o] # ledger[o]
                 PROVE  Accepted(o)
      OBVIOUS
    <2>1. PICK w \in Worker : Commit(w)
      <3>1. ledger' # ledger
        OBVIOUS
      <3> QED
        BY <3>1 DEF Next, Step, Submit, Lookup, Reserve, Replay, Conflict,
           Lock, Reject, Crash, BreakDeadlock, SetActive
    <2> DEFINE r == PostingOf(w)
    <2>2. /\ OperationOf(w) \in OperationId /\ r \in Posting /\ WellFormed(r)
          /\ ledger[OperationOf(w)] = NoPosting
          /\ OriginalAllows(ledger, r)
          /\ \A b \in Touched(r) : b \in Bucket /\ BucketAllows(r, b, stock[b])
      BY <2>1, CommitFacts DEF Commit
    <2>3. /\ ledger' = Posted(ledger, OperationOf(w), r)
          /\ active' = active
      BY <2>1 DEF Commit, Posted
    <2>4. /\ ledger \in [OperationId -> Posting \union {NoPosting}]
          /\ stock \in [Bucket -> Nat] /\ stock' \in [Bucket -> Nat]
      BY DEF IInv, TypeOK
    <2> HIDE DEF r
    <2>5. o = OperationOf(w) /\ ledger'[o] = r /\ ledger[o] = NoPosting
      BY <2>2, <2>3, <2>4 DEF Posted
    <2>6. \A x \in LinesOf(o, ledger'[o]) : LineAccepted(ledger, ledger'[o].type, x)
      <3>1. \A x \in LinesOf(o, r) : LineAccepted(ledger, r.type, x)
        BY <2>2, <2>4, LinesAccepted
      <3> QED
        BY <2>5, <3>1
    <2>7. HeaderAccepted(ledger', o)
      <3>1. HeaderAccepted(Posted(ledger, o, r), o)
        BY <2>2, <2>4, <2>5, HeaderIsAccepted
      <3> QED
        BY <2>3, <2>5, <3>1
    <2>8. ASSUME NEW b \in Touched(r) PROVE BalanceAccepted(b, stock'[b])
      <3>1. b \in Bucket
        BY <2>2
      <3> QED
        BY <2>3, <2>4, <3>1 DEF BalanceAccepted, StockOnlyAtUsableLocations
    <2> QED
      BY <2>5, <2>6, <2>7, <2>8 DEF Accepted
  <1> QED
    BY <1>1, Invariance, SoundInvariant, PostedWellFormed, TypeCorrect, StockStaysUsable,
       PTL DEF Spec, TriggersAccept

-----------------------------------------------------------------------------
(***************************************************************************)
(* Deadlocks.  All requests lock the rows that they share in one order,    *)
(* RowBefore, but for a correction that takes a record to a material with  *)
(* a smaller key.                                                          *)
(***************************************************************************)

\* No correction in the workload takes a record to a material with a smaller key.
CorrectionsUpward ==
  \A job \in Workload :
    LET r == job[2] IN
    r.type = "CONTROLLED_CORRECTION" /\ r.source # NoBucket /\ r.target # NoBucket
      => MaterialOf(r.source) <= MaterialOf(r.target)

Rank(x) ==
  CASE x.table = "transaction" -> 0
    [] x.table = "line"        -> 1
    [] x.table = "material"    -> 2
    [] x.table = "location"    -> 3
    [] x.table = "condition"   -> 4
    [] OTHER                   -> 5

RowBefore(x, y) ==
  \/ Rank(x) < Rank(y)
  \/ /\ Rank(x) = Rank(y) /\ Rank(x) >= 2
     /\ KeyBefore(x.key, y.key)

\* What a transaction holds comes before all that it has still to lock.
LocksInOrder ==
  \A w \in Worker :
    /\ held[w] \subseteq {TransactionRow(OperationOf(w))} \union RowsOf(PostingOf(w))
    /\ \A x \in held[w] : \A y \in want[w] : RowBefore(x, y)

\* The lexicographic order of keys is an order.
LEMMA KeyOrder ==
  ASSUME NEW n \in Nat, NEW s \in [1 .. n -> Int]
  PROVE  /\ ~KeyBefore(s, s)
         /\ \A t, u \in [1 .. n -> Int] :
              KeyBefore(s, t) /\ KeyBefore(t, u) => KeyBefore(s, u)
  <1>1. ~KeyBefore(s, s)
    BY DEF KeyBefore
  <1>2. ASSUME NEW t \in [1 .. n -> Int], NEW u \in [1 .. n -> Int],
               KeyBefore(s, t), KeyBefore(t, u)
        PROVE  KeyBefore(s, u)
    <2>1. PICK i \in 1 .. n : s[i] < t[i] /\ \A j \in 1 .. i - 1 : s[j] = t[j]
      BY <1>2 DEF KeyBefore
    <2>2. PICK k \in 1 .. n : t[k] < u[k] /\ \A j \in 1 .. k - 1 : t[j] = u[j]
      BY <1>2 DEF KeyBefore
    <2> DEFINE m == IF i <= k THEN i ELSE k
    <2>3. m \in 1 .. n /\ m <= i /\ m <= k /\ (m = i \/ m = k)
      OBVIOUS
    <2> HIDE DEF m
    <2>4. \A j \in 1 .. m - 1 : s[j] = u[j]
      BY <2>1, <2>2, <2>3
    <2>5. s[m] < u[m]
      <3>1. /\ s[m] \in Int /\ t[m] \in Int /\ u[m] \in Int
            /\ m # i => m \in 1 .. i - 1
            /\ m # k => m \in 1 .. k - 1
        BY <2>3
      <3> QED
        BY <2>1, <2>2, <2>3, <3>1
    <2>6. m \in DOMAIN s \intersect DOMAIN u
      BY <2>3
    <2> QED
      BY <2>4, <2>5, <2>6, Zenon DEF KeyBefore
  <1> QED
    BY <1>1, <1>2

\* A bucket is a sequence of three numbers.
LEMMA BucketNumbers ==
  ASSUME NEW b \in Bucket
  PROVE  /\ b[1] \in Int /\ b[2] \in Int /\ b[3] \in Int
         /\ b \in [1 .. 3 -> Int]
  <1>1. Material \subseteq Int /\ Location \subseteq Int /\ Condition \subseteq Int
    BY PostingConstants DEF PostingConstants
  <1>2. /\ b[1] \in Material /\ b[2] \in Location /\ b[3] \in Condition
        /\ b = <<b[1], b[2], b[3]>>
    BY DEF Bucket
  <1>3. \A i, j, k \in Int : <<i, j, k>> \in [1 .. 3 -> Int]
    OBVIOUS
  <1>4. b[1] \in Int /\ b[2] \in Int /\ b[3] \in Int
    BY <1>1, <1>2
  <1> QED
    BY <1>2, <1>3, <1>4

\* The keys of masters and balances are sequences of numbers.
LEMMA RowKeys ==
  ASSUME NEW x \in Row
  PROVE  /\ x.table \in {"transaction", "line", "material", "location", "condition",
                         "balance"}
         /\ Rank(x) \in {2, 3, 4} => x.key \in [1 .. 1 -> Int]
         /\ Rank(x) = 5 => x.key \in [1 .. 3 -> Int]
         /\ Rank(x) \in 0 .. 5
  <1>1. CASE \E o \in OperationId : x = TransactionRow(o)
    BY <1>1 DEF TransactionRow, Rank
  <1>2. CASE \E o \in OperationId : x = LineRow(o)
    BY <1>2 DEF LineRow, Rank
  <1>3. CASE x \in MasterRow
    <2>1. PICK b \in Bucket : x \in MasterRowsOf(b)
      BY <1>3 DEF MasterRow
    <2>2. b[1] \in Int /\ b[2] \in Int /\ b[3] \in Int
      BY BucketNumbers
    <2>3. \A n \in Int : <<n>> \in [1 .. 1 -> Int]
      OBVIOUS
    <2> QED
      BY <2>1, <2>2, <2>3 DEF MasterRowsOf, MaterialRow, LocationRow, ConditionRow,
         MaterialOf, LocationOf, ConditionOf, Rank
  <1>4. CASE \E b \in Bucket : x = BalanceRow(b)
    <2>1. PICK b \in Bucket : x = BalanceRow(b)
      BY <1>4
    <2>2. b \in [1 .. 3 -> Int]
      BY BucketNumbers
    <2> QED
      BY <2>1, <2>2 DEF BalanceRow, Rank
  <1> QED
    BY <1>1, <1>2, <1>3, <1>4 DEF Row

LEMMA RowOrder ==
  ASSUME NEW x \in Row
  PROVE  /\ ~RowBefore(x, x)
         /\ \A y, z \in Row : RowBefore(x, y) /\ RowBefore(y, z) => RowBefore(x, z)
  <1>1. ~RowBefore(x, x)
    <2>1. Rank(x) \in 0 .. 5
      BY RowKeys
    <2>2. Rank(x) >= 2 => ~KeyBefore(x.key, x.key)
      <3>1. Rank(x) = 5 => x.key \in [1 .. 3 -> Int]
        BY RowKeys
      <3>2. Rank(x) \in {2, 3, 4} => x.key \in [1 .. 1 -> Int]
        BY RowKeys
      <3>3. \A n \in Nat : x.key \in [1 .. n -> Int] => ~KeyBefore(x.key, x.key)
        BY KeyOrder, Zenon
      <3>4. 1 \in Nat /\ 3 \in Nat
        OBVIOUS
      <3>5. Rank(x) >= 2 => Rank(x) \in {2, 3, 4} \/ Rank(x) = 5
        BY <2>1
      <3> QED
        BY <3>1, <3>2, <3>3, <3>4, <3>5, Zenon
    <2> QED
      BY <2>1, <2>2 DEF RowBefore
  <1>2. ASSUME NEW y \in Row, NEW z \in Row, RowBefore(x, y), RowBefore(y, z)
        PROVE  RowBefore(x, z)
    <2>1. Rank(x) \in 0 .. 5 /\ Rank(y) \in 0 .. 5 /\ Rank(z) \in 0 .. 5
      BY RowKeys
    <2>2. CASE Rank(x) < Rank(z)
      BY <2>2 DEF RowBefore
    <2>3. CASE ~(Rank(x) < Rank(z))
      <3>1. /\ Rank(x) = Rank(y) /\ Rank(y) = Rank(z) /\ Rank(x) >= 2
            /\ KeyBefore(x.key, y.key) /\ KeyBefore(y.key, z.key)
        BY <1>2, <2>1, <2>3 DEF RowBefore
      <3>2. PICK n \in Nat : /\ x.key \in [1 .. n -> Int]
                             /\ y.key \in [1 .. n -> Int]
                             /\ z.key \in [1 .. n -> Int]
        <4>1. CASE Rank(x) = 5
          <5>1. /\ x.key \in [1 .. 3 -> Int] /\ y.key \in [1 .. 3 -> Int]
                /\ z.key \in [1 .. 3 -> Int]
            BY <3>1, <4>1, RowKeys
          <5> QED
            BY <5>1
        <4>2. CASE Rank(x) # 5
          <5>1. Rank(x) \in {2, 3, 4}
            BY <2>1, <3>1, <4>2
          <5>2. /\ x.key \in [1 .. 1 -> Int] /\ y.key \in [1 .. 1 -> Int]
                /\ z.key \in [1 .. 1 -> Int]
            BY <3>1, <5>1, RowKeys
          <5> QED
            BY <5>2
        <4> QED
          BY <4>1, <4>2
      <3>3. KeyBefore(x.key, z.key)
        BY <3>1, <3>2, KeyOrder
      <3> QED
        BY <3>1, <3>3 DEF RowBefore
    <2> QED
      BY <2>2, <2>3
  <1> QED
    BY <1>1, <1>2

\* What a request locks, by table.
LEMMA RowsByTable ==
  ASSUME NEW r, NEW x \in RowsOf(r)
  PROVE  /\ x.table \in {"line", "material", "location", "condition", "balance"}
         /\ x.table = "line" => x = LineRow(r.original)
         /\ x.table = "material" =>
              \E b \in Touched(r) : x = MaterialRow(MaterialOf(b))
  <1>1. CASE r.original # NoOperation /\ x = LineRow(r.original)
    BY <1>1 DEF LineRow
  <1>2. CASE \E b \in Touched(r) : x \in MasterRowsOf(b)
    BY <1>2 DEF MasterRowsOf, MaterialRow, LocationRow, ConditionRow
  <1>3. CASE \E b \in Touched(r) : x = BalanceRow(b)
    BY <1>3 DEF BalanceRow
  <1> QED
    BY <1>1, <1>2, <1>3 DEF RowsOf

\* The order in which a request locks its rows agrees with RowBefore, unless it
\* corrects downward.
LEMMA OrdersAgree ==
  ASSUME NEW r \in Posting, WellFormed(r),
         r.type = "CONTROLLED_CORRECTION" /\ r.source # NoBucket /\ r.target # NoBucket
           => MaterialOf(r.source) <= MaterialOf(r.target),
         NEW x \in RowsOf(r), NEW y \in RowsOf(r), x # y,
         LockedBefore(r, x, y)
  PROVE  RowBefore(x, y)
  <1> DEFINE first == MaterialRow(MaterialOf(Affected(r)))
  <1>1. /\ x.table \in {"line", "material", "location", "condition", "balance"}
        /\ y.table \in {"line", "material", "location", "condition", "balance"}
        /\ ~(x.table = "line" /\ y.table = "line")
    BY RowsByTable
  <1>2. CASE r.type = "CONTROLLED_CORRECTION" /\ x = first /\ y.table = "material"
    <2>1. PICK b \in Touched(r) : y = MaterialRow(MaterialOf(b))
      BY <1>2, RowsByTable
    <2>2. b # Affected(r)
      BY <1>2, <2>1
    <2>3. /\ r.source # NoBucket /\ r.target # NoBucket /\ r.source # r.target
          /\ b = r.target /\ Affected(r) = r.source
      BY <2>2 DEF Touched, Affected, WellFormed
    <2>5. MaterialOf(r.source) <= MaterialOf(r.target)
      BY <1>2, <2>3
    <2>6. r.source \in Bucket /\ r.target \in Bucket
      BY <2>3 DEF Posting
    <2>7. /\ MaterialOf(r.source) \in Int /\ MaterialOf(r.target) \in Int
          /\ MaterialOf(r.source) < MaterialOf(r.target)
      <3>1. MaterialOf(r.source) \in Int /\ MaterialOf(r.target) \in Int
        BY <2>6, BucketNumbers DEF MaterialOf
      <3>2. MaterialOf(r.source) # MaterialOf(r.target)
        BY <1>2, <2>1, <2>3
      <3> QED
        BY <2>5, <3>1, <3>2
    <2>8. \A i, j \in Int : i < j => KeyBefore(<<i>>, <<j>>)
      <3> SUFFICES ASSUME NEW i \in Int, NEW j \in Int, i < j
                   PROVE  KeyBefore(<<i>>, <<j>>)
        OBVIOUS
      <3>1. /\ 1 \in DOMAIN <<i>> \intersect DOMAIN <<j>>
            /\ <<i>>[1] < <<j>>[1]
            /\ \A k \in 1 .. 1 - 1 : <<i>>[k] = <<j>>[k]
        OBVIOUS
      <3> QED
        BY <3>1, Zenon DEF KeyBefore
    <2>9. KeyBefore(x.key, y.key)
      BY <1>2, <2>1, <2>3, <2>7, <2>8 DEF MaterialRow
    <2> QED
      BY <1>2, <2>1, <2>9 DEF RowBefore, Rank, MaterialRow
  <1>3. CASE ~(r.type = "CONTROLLED_CORRECTION" /\ x = first /\ y.table = "material")
    <2>1. CASE Stage(r, x) = Stage(r, y) /\ KeyBefore(x.key, y.key)
      <3>1. Rank(x) = Rank(y) /\ Rank(x) >= 2
        BY <1>1, <2>1 DEF Stage, Rank
      <3> QED
        BY <2>1, <3>1 DEF RowBefore
    <2>2. CASE Stage(r, x) < Stage(r, y)
      <3>1. first.table = "material"
        BY DEF MaterialRow
      <3>2. Rank(x) < Rank(y)
        BY <1>1, <1>3, <2>2, <3>1 DEF Stage, Rank
      <3> QED
        BY <3>2 DEF RowBefore
    <2> QED
      BY <2>1, <2>2 DEF LockedBefore
  <1> QED
    BY <1>2, <1>3

\* A step keeps what transactions hold before what they have still to lock.
LEMMA StepKeepsOrder ==
  ASSUME CorrectionsUpward, IInv, LocksInOrder, [Next]_vars
  PROVE  LocksInOrder'
  <1>1. ASSUME NEW w \in Worker, Finish(w) PROVE LocksInOrder'
    <2>1. held'[w] = {}
      BY <1>1, FinishFacts
    <2>2. \A v \in Worker \ {w} : /\ request'[v] = request[v] /\ held'[v] = held[v]
                                  /\ want'[v] = want[v]
      BY <1>1, FinishFacts
    <2> QED
      BY <2>1, <2>2 DEF LocksInOrder, OperationOf, PostingOf
  <1>2. ASSUME NEW w \in Worker, NEW job \in Workload, Submit(w, job)
        PROVE  LocksInOrder'
    <2>1. held[w] = {}
      BY <1>2 DEF Submit, IInv, LocksCover
    <2>2. \A v \in Worker \ {w} : request'[v] = request[v]
      BY <1>2 DEF Submit, IInv, TypeOK
    <2> QED
      BY <1>2, <2>1, <2>2 DEF Submit, LocksInOrder, OperationOf, PostingOf
  <1>3. ASSUME NEW w \in Worker, Reserve(w) PROVE LocksInOrder'
    <2>1. /\ UNCHANGED request
          /\ held'[w] = {TransactionRow(OperationOf(w))}
          /\ want'[w] = RowsOf(PostingOf(w))
          /\ \A v \in Worker \ {w} : held'[v] = held[v] /\ want'[v] = want[v]
      BY <1>3 DEF Reserve, IInv, TypeOK
    <2>2. \A y \in want'[w] : RowBefore(TransactionRow(OperationOf(w)), y)
      <3> SUFFICES ASSUME NEW y \in RowsOf(PostingOf(w))
                   PROVE  RowBefore(TransactionRow(OperationOf(w)), y)
        BY <2>1
      <3> QED
        BY RowsByTable DEF RowBefore, Rank, TransactionRow
    <2> QED
      BY <2>1, <2>2 DEF LocksInOrder, OperationOf, PostingOf
  <1>4. ASSUME NEW w \in Worker, Lock(w) PROVE LocksInOrder'
    <2>1. PICK x \in want[w] :
            /\ \A y \in want[w] \ {x} : LockedBefore(PostingOf(w), x, y)
            /\ held' = [held EXCEPT ![w] = @ \union {x}]
            /\ want' = [want EXCEPT ![w] = @ \ {x}]
      BY <1>4 DEF Lock
    <2>2. /\ UNCHANGED request
          /\ held'[w] = held[w] \union {x} /\ want'[w] = want[w] \ {x}
          /\ \A v \in Worker \ {w} : held'[v] = held[v] /\ want'[v] = want[v]
      BY <1>4, <2>1 DEF Lock, IInv, TypeOK
    <2>3. request[w] \in Workload /\ want[w] \subseteq RowsOf(PostingOf(w))
      BY <1>4 DEF Lock, IInv, LocksCover
    <2>4. \A y \in want'[w] : RowBefore(x, y)
      <3> SUFFICES ASSUME NEW y \in want[w] \ {x} PROVE RowBefore(x, y)
        BY <2>2
      <3>1. /\ PostingOf(w) \in Posting /\ WellFormed(PostingOf(w))
            /\ x \in RowsOf(PostingOf(w)) /\ y \in RowsOf(PostingOf(w)) /\ x # y
            /\ LockedBefore(PostingOf(w), x, y)
        BY <2>1, <2>3, JobFacts DEF PostingOf
      <3>2. /\ PostingOf(w).type = "CONTROLLED_CORRECTION"
            /\ PostingOf(w).source # NoBucket /\ PostingOf(w).target # NoBucket
            => MaterialOf(PostingOf(w).source) <= MaterialOf(PostingOf(w).target)
        BY <2>3 DEF CorrectionsUpward, PostingOf
      <3> QED
        BY <3>1, <3>2, OrdersAgree
    <2> QED
      BY <2>2, <2>3, <2>4 DEF LocksInOrder, OperationOf, PostingOf
  <1>5. CASE UNCHANGED <<request, held, want>>
    BY <1>5 DEF LocksInOrder, OperationOf, PostingOf
  <1> QED
    BY <1>1, <1>2, <1>3, <1>4, <1>5 DEF Next, Step, Lookup, Replay, Conflict, Reject,
       Commit, Crash, BreakDeadlock, SetActive, vars

\* Finitely many transactions that hold rows in order do not wait for each other.
LEMMA OrderedNeverWait ==
  ASSUME IInv, LocksInOrder, NEW S \in SUBSET Worker, IsFiniteSet(S), Deadlocked(S)
  PROVE  FALSE
  <1> DEFINE Asks(w, x) == x \in AskedFor(w) /\ \E v \in S : v # w /\ x \in held[v]
             asked(w) == CHOOSE x : Asks(w, x)
             R == {vw \in S \X S : RowBefore(asked(vw[1]), asked(vw[2]))}
  <1>1. \A w \in S : held[w] # {} /\ \E x : Asks(w, x)
    BY DEF Deadlocked, WaitsFor
  <1>2. \A w \in S : Asks(w, asked(w))
    BY <1>1, Zenon
  <1>3. \A w \in S : asked(w) \in want[w] /\ asked(w) \in Row
    <2> SUFFICES ASSUME NEW w \in S PROVE asked(w) \in want[w] /\ asked(w) \in Row
      OBVIOUS
    <2>1. phase[w] = "locking"
      BY <1>1 DEF IInv, LocksCover
    <2>2. asked(w) \in AskedFor(w)
      BY <1>2
    <2> HIDE DEF asked
    <2> QED
      BY <2>1, <2>2 DEF AskedFor, IInv, TypeOK
  <1>4. \A w \in S : \E v \in S : asked(w) \in held[v]
    BY <1>2
  <1> HIDE DEF Asks, asked
  <1>5. \A w \in S : \E v \in S : <<w, v>> \in R
    <2> SUFFICES ASSUME NEW w \in S PROVE \E v \in S : <<w, v>> \in R
      OBVIOUS
    <2>1. PICK v \in S : asked(w) \in held[v]
      BY <1>4
    <2>2. RowBefore(asked(w), asked(v))
      BY <1>3, <2>1 DEF LocksInOrder
    <2> QED
      BY <2>2
  <1>6. \A w \in S : <<w, w>> \notin R
    BY <1>3, RowOrder
  <1>7. \A u, v, w \in S : <<u, v>> \in R /\ <<v, w>> \in R => <<u, w>> \in R
    <2> SUFFICES ASSUME NEW u \in S, NEW v \in S, NEW w \in S,
                        RowBefore(asked(u), asked(v)), RowBefore(asked(v), asked(w))
                 PROVE  RowBefore(asked(u), asked(w))
      OBVIOUS
    <2> QED
      BY <1>3, RowOrder
  <1>8. S # {}
    BY DEF Deadlocked
  <1> HIDE DEF R
  <1> QED
    BY <1>5, <1>6, <1>7, <1>8, SomethingIsLast

\* Whatever clients request of however many workers, transactions wait for each other
\* in a cycle only if some correction takes a record to a material with a smaller
\* key: of such a correction the order of the locks is not the order of the others.
THEOREM OnlyDownwardCorrectionsDeadlock ==
  ASSUME IsFiniteSet(Worker), CorrectionsUpward
  PROVE  Spec => []NoWaitCycle
  <1>1. Init => LocksInOrder
    BY DEF Init, LocksInOrder
  <1>2. IInv /\ LocksInOrder /\ [Next]_vars => LocksInOrder'
    BY StepKeepsOrder
  <1>3. IInv /\ LocksInOrder => NoWaitCycle
    <2> SUFFICES ASSUME IInv, LocksInOrder, NEW S \in SUBSET Worker, Deadlocked(S)
                 PROVE  FALSE
      BY DEF NoWaitCycle
    <2>1. IsFiniteSet(S)
      BY FS_Subset
    <2> QED
      BY <2>1, OrderedNeverWait
  <1> QED
    BY <1>1, <1>2, <1>3, Invariance, PTL DEF Spec
=============================================================================
