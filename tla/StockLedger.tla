----------------------------- MODULE StockLedger -----------------------------
(***************************************************************************)
(* What quantity inventory promises, with nothing of how: an append-only   *)
(* ledger of postings, at most one for an operation identifier, and the    *)
(* stock of every bucket, changed together in one indivisible step that    *)
(* only an admissible posting can take.  InventoryMutation implements it   *)
(* with concurrent database transactions.                                  *)
(***************************************************************************)
EXTENDS QuantityPosting

CONSTANT Workload   \* well-formed requests clients may make: <<operation id, request>>

VARIABLES
  ledger,   \* [OperationId -> Posting, or NoPosting]
  stock     \* [Bucket -> Nat]: StockBalance.quantity, 0 where no row exists

vars == <<ledger, stock>>

TypeOK ==
  /\ ledger \in [OperationId -> Posting \union {NoPosting}]
  /\ stock \in [Bucket -> Nat]

Init ==
  /\ ledger = [o \in OperationId |-> NoPosting]
  /\ stock = [b \in Bucket |-> 0]

Admissible(r) ==
  /\ OriginalAllows(ledger, r)
  /\ \A b \in Touched(r) : BucketAllows(r, b, stock[b])

Post(o, r) ==
  /\ ledger[o] = NoPosting
  /\ Admissible(r)
  /\ ledger' = [ledger EXCEPT ![o] = r]
  /\ stock' = [b \in Bucket |->
                 IF b \in Touched(r) THEN NewQuantity(r, b, stock[b])
                                     ELSE stock[b]]

Next == \E job \in Workload : Post(job[1], job[2])

Spec == Init /\ [][Next]_vars

-----------------------------------------------------------------------------
(***************************************************************************)
(* Properties                                                              *)
(***************************************************************************)

\* The projection is exactly the ledger: the balance of a bucket is the sum
\* of what the postings did to it (verify_quantity_projection compares the
\* two and reports every bucket where they differ).
BalanceIsLedger ==
  \A b \in Bucket : stock[b] = LedgerBalance(ledger, b)

\* All that was ever returned against one issue never exceeds the issue
\* (return_quantity's cap and the trigger inventory_line_return_cap).
ReturnsWithinIssue ==
  \A o \in OperationId : ledger[o].type = "ISSUE" => Returnable(ledger, o) >= 0

\* However corrections of one posting accumulate, they never leave it with a
\* negative equivalent (_validate_cumulative_equivalent).
CorrectionFloor ==
  \A o \in OperationId : ledger[o] # NoPosting => Equivalent(ledger, o) >= 0
=============================================================================
