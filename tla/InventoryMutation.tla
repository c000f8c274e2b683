-------------------------- MODULE InventoryMutation --------------------------
(***************************************************************************)
(* The quantity services of inventory/services (receive_quantity,          *)
(* issue_quantity, return_quantity, transfer_quantity,                     *)
(* apply_controlled_correction, reconcile_quantity_count) as concurrent    *)
(* PostgreSQL transactions at READ COMMITTED, beside the services that     *)
(* switch a material or a location on and off.                             *)
(*                                                                         *)
(* All six services have one shape:                                        *)
(*   - look the operation identifier up; an existing one is replayed if it *)
(*     carries the same request, and a conflict otherwise;                 *)
(*   - insert the header, whose unique operation_id makes a second insert  *)
(*     wait for the first to commit or to roll back;                       *)
(*   - take row locks (SELECT ... FOR UPDATE) in a fixed order, reading    *)
(*     each row as it is locked;                                           *)
(*   - validate what was read; any error rolls the transaction back;       *)
(*   - write the lines and the balances computed from what was read.       *)
(*                                                                         *)
(* A transaction's own writes are invisible until it commits, so they are  *)
(* one step, Commit.  Every row lock is a step of its own.                 *)
(***************************************************************************)
EXTENDS QuantityPosting

CONSTANTS
  Worker,     \* the request-handling processes
  Workload    \* the requests clients may make: <<operation id, request>>

ASSUME WorkloadOfPostings ==
  /\ Workload \subseteq OperationId \X Posting
  /\ \A job \in Workload : WellFormed(job[2])

VARIABLES
  ledger,    \* committed headers and lines: [OperationId -> Posting or NoPosting]
  stock,     \* committed StockBalance.quantity, 0 where no row exists
  active,    \* the master rows that are active (locations: and can hold stock)
  phase,     \* [Worker -> {"idle", "lookup", "insert", "locking"}]
  request,   \* [Worker -> Workload or NoJob]
  held,      \* [Worker -> rows it has locked or inserted]
  want,      \* [Worker -> rows it has still to lock]
  read,      \* [Worker -> what it read of each row it has locked]
  acked      \* the <<operation id, request>> that clients were told succeeded

vars == <<ledger, stock, active, phase, request, held, want, read, acked>>

NoJob == <<NoOperation, NoPosting>>
OperationOf(w) == request[w][1]
PostingOf(w)   == request[w][2]

-----------------------------------------------------------------------------
(***************************************************************************)
(* Rows: what a transaction can lock.                                      *)
(***************************************************************************)
TransactionRow(o) == [table |-> "transaction", key |-> <<o>>]
LineRow(o)        == [table |-> "line",        key |-> <<o>>]
MaterialRow(m)    == [table |-> "material",    key |-> <<m>>]
LocationRow(l)    == [table |-> "location",    key |-> <<l>>]
ConditionRow(c)   == [table |-> "condition",   key |-> <<c>>]
BalanceRow(b)     == [table |-> "balance",     key |-> b]

MasterRowsOf(b) ==
  {MaterialRow(MaterialOf(b)), LocationRow(LocationOf(b)),
   ConditionRow(ConditionOf(b))}

MasterRow == UNION {MasterRowsOf(b) : b \in Bucket}

Row == {TransactionRow(o) : o \in OperationId}
         \union {LineRow(o) : o \in OperationId}
         \union MasterRow
         \union {BalanceRow(b) : b \in Bucket}

\* The rows the service for request r locks after it inserted the header:
\* the line r refers to, the masters and the balance of every bucket of r.
RowsOfWithoutLine(r) ==   \* mutant: the original line is not locked
  (UNION {MasterRowsOf(b) : b \in Touched(r)})
    \union {BalanceRow(b) : b \in Touched(r)}

RowsOf(r) ==
  (IF r.original = NoOperation THEN {} ELSE {LineRow(r.original)})
    \union (UNION {MasterRowsOf(b) : b \in Touched(r)})
    \union {BalanceRow(b) : b \in Touched(r)}

(***************************************************************************)
(* The order of the locks.  A return locks the line alone; a correction    *)
(* locks the line with a query that joins the line's material, FOR UPDATE  *)
(* of both, so the original's material comes before the sorted materials.  *)
(* Within a stage rows are locked in the order of their keys.              *)
(***************************************************************************)
Stage(r, x) ==
  CASE x.table = "line"      -> 1
    [] x.table = "material"  -> IF /\ r.type = "CONTROLLED_CORRECTION"
                                   /\ x = MaterialRow(MaterialOf(Affected(r)))
                                THEN 2 ELSE 3
    [] x.table = "location"  -> 4
    [] x.table = "condition" -> 5
    [] OTHER                 -> 6

\* s comes before t in the lexicographic order of two keys of one table.
KeyBefore(s, t) ==
  \E i \in DOMAIN s \intersect DOMAIN t :
    /\ s[i] < t[i]
    /\ \A j \in 1 .. i - 1 : s[j] = t[j]

LockedBeforeBySource(r, x, y) ==   \* mutant: source first, not sorted
  \/ Stage(r, x) < Stage(r, y)
  \/ /\ Stage(r, x) = Stage(r, y)
     /\ x.key = r.source \/ x \in MasterRowsOf(r.source)

LockedBefore(r, x, y) ==
  \/ Stage(r, x) < Stage(r, y)
  \/ Stage(r, x) = Stage(r, y) /\ KeyBefore(x.key, y.key)

-----------------------------------------------------------------------------
(***************************************************************************)
(* What is read of a row and what is required of it.                       *)
(***************************************************************************)

\* The masters whose `active' the service checks: all of them when goods
\* move, those of the bucket that grows when a record is put right.
RequiredActive(r) ==
  UNION {MasterRowsOf(b) :
           b \in IF r.type \in {"CONTROLLED_CORRECTION", "COUNT_RECONCILIATION"}
                 THEN {r.target} \ {NoBucket}
                 ELSE Touched(r)}

Truth(p) == IF p THEN 1 ELSE 0

\* A line: does it allow r, given the lines that refer to it?  A master: is
\* it active?  A balance: its quantity.
RowValue(r, x) ==
  CASE x.table = "line"    -> Truth(OriginalAllows(ledger, r))
    [] x.table = "balance" -> stock[x.key]
    [] OTHER               -> Truth(x \in active)

Passes(r, x, v) ==
  /\ x.table = "line" => v = 1
  /\ x \in RequiredActive(r) => v = 1
  /\ x.table = "balance" => BucketAllows(r, x.key, v)

\* A line is validated before any further lock, the masters once all masters
\* are locked, the balances once all balances are.
ValidatedAfter(x) ==
  CASE x.table = "line"    -> 2
    [] x.table = "balance" -> 6
    [] OTHER               -> 5

Failing(w) ==
  \E x \in held[w] :
    /\ ~Passes(PostingOf(w), x, read[w][x])
    /\ \A y \in want[w] : Stage(PostingOf(w), y) > ValidatedAfter(x)

\* No other transaction holds x.
FreeUnlessLine(w, x) ==   \* mutant: lines are read without FOR UPDATE
  x.table # "line" => \A v \in Worker \ {w} : x \notin held[v]

Free(w, x) == \A v \in Worker \ {w} : x \notin held[v]

-----------------------------------------------------------------------------
NothingRead == [x \in Row |-> 0]

TypeOK ==
  /\ ledger \in [OperationId -> Posting \union {NoPosting}]
  /\ stock \in [Bucket -> Nat]
  /\ active \subseteq MasterRow
  /\ phase \in [Worker -> {"idle", "lookup", "insert", "locking"}]
  /\ request \in [Worker -> Workload \union {NoJob}]
  /\ held \in [Worker -> SUBSET Row]
  /\ want \in [Worker -> SUBSET Row]
  /\ read \in [Worker -> [Row -> Int]]
  /\ acked \subseteq Workload

Init ==
  /\ ledger = [o \in OperationId |-> NoPosting]
  /\ stock = [b \in Bucket |-> 0]
  /\ active = MasterRow
  /\ phase = [w \in Worker |-> "idle"]
  /\ request = [w \in Worker |-> NoJob]
  /\ held = [w \in Worker |-> {}]
  /\ want = [w \in Worker |-> {}]
  /\ read = [w \in Worker |-> NothingRead]
  /\ acked = {}

(***************************************************************************)
(* Actions                                                                 *)
(***************************************************************************)

\* The transaction ends, committed or rolled back, and its locks with it.
FinishHolding(w) ==   \* mutant: locks outlive the transaction
  /\ phase' = [phase EXCEPT ![w] = "idle"]
  /\ request' = [request EXCEPT ![w] = NoJob]
  /\ want' = [want EXCEPT ![w] = {}]
  /\ read' = [read EXCEPT ![w] = NothingRead]
  /\ UNCHANGED held

Finish(w) ==
  /\ phase' = [phase EXCEPT ![w] = "idle"]
  /\ request' = [request EXCEPT ![w] = NoJob]
  /\ held' = [held EXCEPT ![w] = {}]
  /\ want' = [want EXCEPT ![w] = {}]
  /\ read' = [read EXCEPT ![w] = NothingRead]

\* A client's request arrives: a first try, or a retry of what was perhaps
\* done already.
Submit(w, job) ==
  /\ phase[w] = "idle"
  /\ phase' = [phase EXCEPT ![w] = "lookup"]
  /\ request' = [request EXCEPT ![w] = job]
  /\ UNCHANGED <<ledger, stock, active, held, want, read, acked>>

\* The first look at the operation identifier finds nothing.
Lookup(w) ==
  /\ phase[w] = "lookup"
  /\ ledger[OperationOf(w)] = NoPosting
  /\ phase' = [phase EXCEPT ![w] = "insert"]
  /\ UNCHANGED <<ledger, stock, active, request, held, want, read, acked>>

\* The header is inserted; a concurrent insert of the same operation_id waits
\* for the one that came first.
ReserveAnyway(w) ==   \* mutant: operation_id is not unique
  /\ phase[w] = "insert"
  /\ phase' = [phase EXCEPT ![w] = "locking"]
  /\ want' = [want EXCEPT ![w] = RowsOf(PostingOf(w))]
  /\ UNCHANGED <<ledger, stock, active, request, held, read, acked>>

Reserve(w) ==
  /\ phase[w] = "insert"
  /\ Free(w, TransactionRow(OperationOf(w)))
  /\ ledger[OperationOf(w)] = NoPosting
  /\ phase' = [phase EXCEPT ![w] = "locking"]
  /\ held' = [held EXCEPT ![w] = {TransactionRow(OperationOf(w))}]
  /\ want' = [want EXCEPT ![w] = RowsOf(PostingOf(w))]
  /\ UNCHANGED <<ledger, stock, active, request, read, acked>>

\* The operation exists: seen by the first look, or by the insert that lost.
Existing(w) ==
  /\ phase[w] \in {"lookup", "insert"}
  /\ ledger[OperationOf(w)] # NoPosting

SameOperation(posting, r) == TRUE   \* mutant: the fingerprint is not compared

SameRequest(posting, r) == posting = r

Replay(w) ==
  /\ Existing(w)
  /\ SameRequest(ledger[OperationOf(w)], PostingOf(w))
  /\ acked' = acked \union {request[w]}
  /\ Finish(w)
  /\ UNCHANGED <<ledger, stock, active>>

Conflict(w) ==
  /\ Existing(w)
  /\ ~SameRequest(ledger[OperationOf(w)], PostingOf(w))
  /\ Finish(w)
  /\ UNCHANGED <<ledger, stock, active, acked>>

\* SELECT ... FOR UPDATE of the next row, once nobody else holds it.
Lock(w) ==
  /\ phase[w] = "locking"
  /\ ~Failing(w)
  /\ \E x \in want[w] :
       /\ \A y \in want[w] \ {x} : LockedBefore(PostingOf(w), x, y)
       /\ Free(w, x)
       /\ held' = [held EXCEPT ![w] = @ \union {x}]
       /\ want' = [want EXCEPT ![w] = @ \ {x}]
       /\ read' = [read EXCEPT ![w][x] = RowValue(PostingOf(w), x)]
  /\ UNCHANGED <<ledger, stock, active, phase, request, acked>>

\* A validation error rolls everything back, the header included.
Reject(w) ==
  /\ phase[w] = "locking"
  /\ Failing(w)
  /\ Finish(w)
  /\ UNCHANGED <<ledger, stock, active, acked>>

\* Lines and balances are written from what was read, and committed.
Commit(w) ==
  LET r == PostingOf(w) IN
  /\ phase[w] = "locking"
  /\ want[w] = {}
  /\ ~Failing(w)
  /\ ledger' = [ledger EXCEPT ![OperationOf(w)] = r]
  /\ stock' = [b \in Bucket |->
                 IF b \in Touched(r)
                 THEN NewQuantity(r, b, read[w][BalanceRow(b)])
                 ELSE stock[b]]
  /\ acked' = acked \union {request[w]}
  /\ Finish(w)
  /\ UNCHANGED active

\* The process or its connection dies: the database rolls back.
Crash(w) ==
  /\ phase[w] # "idle"
  /\ Finish(w)
  /\ UNCHANGED <<ledger, stock, active, acked>>

(***************************************************************************)
(* Waiting.  w waits for v when v holds the row w asks for next.           *)
(***************************************************************************)
AskedFor(w) ==
  IF phase[w] = "insert" THEN {TransactionRow(OperationOf(w))}
  ELSE IF Failing(w) THEN {}
  ELSE {x \in want[w] :
          \A y \in want[w] \ {x} : LockedBefore(PostingOf(w), x, y)}

WaitsFor(w, v) == v # w /\ AskedFor(w) \intersect held[v] # {}

\* The members of S wait for each other in cycles.
Deadlocked(S) ==
  /\ S # {}
  /\ \A w \in S : /\ \E v \in S : WaitsFor(w, v)
                  /\ \E v \in S : WaitsFor(v, w)

\* PostgreSQL's deadlock detector makes one member of a cycle fail.
BreakDeadlock(w) ==
  /\ \E S \in SUBSET Worker : w \in S /\ Deadlocked(S)
  /\ Finish(w)
  /\ UNCHANGED <<ledger, stock, active, acked>>

SetActiveUnlocked(x) ==   \* mutant: the trigger reads stock without the row
  /\ x.table \in {"material", "location"}
  /\ x \in active
  /\ \A b \in Bucket : x = LocationRow(LocationOf(b)) => stock[b] = 0
  /\ active' = active \ {x}
  /\ UNCHANGED <<ledger, stock, phase, request, held, want, read, acked>>

\* set_material_active, set_location_active and update_location lock one
\* master row and save it; the trigger inventory_location_positive_stock
\* refuses to take a location that holds stock out of use.  No service
\* changes a condition.
SetActive(x) ==
  /\ x.table \in {"material", "location"}
  /\ \A w \in Worker : x \notin held[w]
  /\ \/ /\ x \notin active
        /\ active' = active \union {x}
     \/ /\ x \in active
        /\ \A b \in Bucket : x = LocationRow(LocationOf(b)) => stock[b] = 0
        /\ active' = active \ {x}
  /\ UNCHANGED <<ledger, stock, phase, request, held, want, read, acked>>

Step(w) ==
  \/ Lookup(w)
  \/ Reserve(w)
  \/ Replay(w)
  \/ Conflict(w)
  \/ Lock(w)
  \/ Reject(w)
  \/ Commit(w)

Next ==
  \/ \E w \in Worker : \E job \in Workload : Submit(w, job)
  \/ \E w \in Worker : Step(w) \/ Crash(w) \/ BreakDeadlock(w)
  \/ \E x \in MasterRow : SetActive(x)

Spec == Init /\ [][Next]_vars

(***************************************************************************)
(* PostgreSQL queues the waiters of a row, so a transaction that again and *)
(* again could have its lock gets it; and it looks for deadlocks after     *)
(* deadlock_timeout.                                                       *)
(***************************************************************************)
Fairness ==
  \A w \in Worker : SF_vars(Step(w)) /\ WF_vars(BreakDeadlock(w))

FairSpec == Spec /\ Fairness

-----------------------------------------------------------------------------
(***************************************************************************)
(* Properties                                                              *)
(***************************************************************************)

\* The concurrent transactions implement the atomic ledger: every commit is
\* one admissible posting of the ledger as it is at that moment, although it
\* was validated against values read earlier (the services' promise that row
\* locks serialise concurrent mutations of one bucket, one issue, one
\* operation).  Of the concurrent state the ledger is what is committed: what
\* workers hold, have read or have still to lock maps to nothing.
Ledger == INSTANCE StockLedger WITH ledger <- ledger, stock <- stock
ImplementsLedger == Ledger!Spec

\* A client that was told its request succeeded, by the first answer or by a
\* replay, finds exactly that request posted under its operation identifier.
AckedIsPosted == \A job \in acked : ledger[job[1]] = job[2]

\* What a transaction has read under a lock stays true until it ends: no
\* other transaction changes a balance or a master it holds, and none adds to
\* the returns or corrections of a line it holds, so what it validated still
\* holds when it writes.  (A line that was missing is reported missing.)
ReadsCurrent ==
  \A w \in Worker : \A x \in held[w] \intersect RowsOf(PostingOf(w)) :
    \/ read[w][x] = RowValue(PostingOf(w), x)
    \/ x.table = "line" /\ read[w][x] = 0

\* Stock is never stranded: a location that holds any is active and may hold
\* stock, whatever races with switching it off (set_location_active against
\* a receipt that validated the location before).
StockOnlyAtUsableLocations ==
  \A b \in Bucket : stock[b] > 0 => LocationRow(LocationOf(b)) \in active

\* The fixed lock order lets no set of transactions wait for each other.
NoWaitCycle == \A S \in SUBSET Worker : ~Deadlocked(S)

\* Every request gets an answer: no lock is left behind by a transaction that
\* ended, and deadlocks, where the order allows them, do not last.
EveryRequestEnds == \A w \in Worker : phase[w] # "idle" ~> phase[w] = "idle"
=============================================================================
