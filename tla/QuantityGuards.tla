---------------------------- MODULE QuantityGuards ----------------------------
(***************************************************************************)
(* The triggers that guard the ledger and the balances of quantities       *)
(* (inventory/migrations), as predicates over the rows that a service of   *)
(* InventoryMutation inserts.  They repeat in SQL, over single lines, what *)
(* the services check in Python over whole requests; what they refuse      *)
(* reaches a user as a failure of the server and not as a validation error *)
(*                                                                         *)
(* Left out are the checks of what the model does not vary: rows that do   *)
(* not exist, tracking modes, and units.  The unit of a material may in    *)
(* fact change after an issue; the trigger then refuses the return, whose  *)
(* line carries the unit of the issue.                                     *)
(***************************************************************************)
EXTENDS InventoryMutation

(***************************************************************************)
(* Rows of inventory_inventorytransactionline.  A location is a set of one *)
(* or, where it is NULL, of none.  A posting that others refer to has one  *)
(* line, so its operation identifier stands for the key of that line.      *)
(***************************************************************************)
At(b) == IF b = NoBucket THEN {} ELSE {LocationOf(b)}

LedgerLine(o, r, b, from, to) ==
  [header |-> o, material |-> MaterialOf(b), condition |-> ConditionOf(b),
   from |-> from, to |-> to, quantity |-> r.quantity,
   issue |-> IF r.type = "RETURN" THEN r.original ELSE NoOperation,
   corrected |-> IF r.type = "CONTROLLED_CORRECTION" THEN r.original
                                                     ELSE NoOperation]

\* A transfer is one line with two locations; what else takes from one bucket
\* and gives to another is two lines.
LinesOf(o, r) ==
  IF r.type = "TRANSFER"
  THEN {LedgerLine(o, r, r.source, At(r.source), At(r.target))}
  ELSE {LedgerLine(o, r, r.source, At(b), {}) : b \in {r.source} \ {NoBucket}}
         \union {LedgerLine(o, r, r.target, {}, At(b)) : b \in {r.target} \ {NoBucket}}

Lines(l) == UNION {LinesOf(o, l[o]) : o \in OperationId}

\* The line of a posting that has one.
TheLine(l, o) == CHOOSE x \in LinesOf(o, l[o]) : TRUE

-----------------------------------------------------------------------------
(***************************************************************************)
(* inventory_line_quantity_guard, before a line is inserted.               *)
(***************************************************************************)
OneDirection(x) == (x.from = {}) # (x.to = {})

Unreferring(x) == x.issue = NoOperation /\ x.corrected = NoOperation

TransferLineAccepted(x) ==
  x.from # {} /\ x.to # {} /\ x.from # x.to /\ Unreferring(x)

ReceiptLineAccepted(x) == x.from = {} /\ x.to # {} /\ Unreferring(x)

IssueLineAccepted(x) == x.from # {} /\ x.to = {} /\ Unreferring(x)

CountLineAccepted(x) == OneDirection(x) /\ Unreferring(x)

ReturnedOf(l, o) == Total({<<x, x.quantity>> : x \in {y \in Lines(l) : y.issue = o}})

ReturnLineAccepted(l, x) ==
  /\ x.from = {} /\ x.to # {} /\ x.issue # NoOperation /\ x.corrected = NoOperation
  /\ l[x.issue].type = "ISSUE"
  /\ LET issue == TheLine(l, x.issue) IN
       /\ x.material = issue.material
       /\ x.condition = issue.condition
       /\ ReturnedOf(l, x.issue) + x.quantity <= issue.quantity

InBucketOf(x, original) ==
  /\ x.material = original.material
  /\ x.condition = original.condition
  /\ x.from \union x.to \subseteq original.from \union original.to

CorrectionLineAccepted(l, x) ==
  /\ OneDirection(x)
  /\ x.issue = NoOperation
  /\ x.corrected # NoOperation
  /\ l[x.corrected].type \notin {"NONE", "CONTROLLED_CORRECTION"}
  /\ x.from # {} => InBucketOf(x, TheLine(l, x.corrected))

\* l: the ledger as the statement finds it.
LineAccepted(l, type, x) ==
  CASE type = "TRANSFER" -> TransferLineAccepted(x)
    [] type = "RECEIPT"  -> ReceiptLineAccepted(x)
    [] type = "ISSUE"    -> IssueLineAccepted(x)
    [] type = "RETURN"   -> ReturnLineAccepted(l, x)
    [] type = "CONTROLLED_CORRECTION" -> CorrectionLineAccepted(l, x)
    [] type = "COUNT_RECONCILIATION"  -> CountLineAccepted(x)

-----------------------------------------------------------------------------
(***************************************************************************)
(* inventory_tx_requires_line_guard and inventory_issue_line_cardinality_  *)
(* guard, deferred to the commit: l is the ledger that is to be committed. *)
(***************************************************************************)
QuantityCorrection(l, lines) ==
  \A x \in lines : InBucketOf(x, TheLine(l, x.corrected))

IdentityCorrection(l, lines) ==
  \E x, y \in lines :
    /\ x.from # {} /\ x.to = {}
    /\ y.from = {} /\ y.to # {}
    /\ x.corrected = y.corrected
    /\ x.quantity = y.quantity
    /\ InBucketOf(x, TheLine(l, x.corrected))
    /\ \/ x.material # y.material
       \/ x.condition # y.condition
       \/ x.from # y.to

\* What all corrections take from a line, without what identity corrections
\* give elsewhere.
Alone(l, x) == Cardinality(LinesOf(x.header, l[x.header])) = 1

TakenBy(l, x) ==
  IF x.from # {} THEN x.quantity ELSE IF Alone(l, x) THEN -x.quantity ELSE 0

CorrectedAway(l, o) ==
  Total({<<x, TakenBy(l, x)>> : x \in {y \in Lines(l) : y.corrected = o}})

CorrectionAccepted(l, lines) ==
  /\ \/ Cardinality(lines) = 1 /\ QuantityCorrection(l, lines)
     \/ Cardinality(lines) = 2 /\ IdentityCorrection(l, lines)
  /\ \A x \in lines :
       CorrectedAway(l, x.corrected) <= TheLine(l, x.corrected).quantity

HeaderAccepted(l, o) ==
  LET lines == LinesOf(o, l[o])
  IN  CASE l[o].type = "RECEIPT" -> lines # {}
        [] l[o].type = "CONTROLLED_CORRECTION" -> CorrectionAccepted(l, lines)
        [] OTHER -> Cardinality(lines) = 1

\* inventory_balance_quantity_guard and the check constraint of quantities.
BalanceAccepted(b, quantity) ==
  /\ quantity >= 0
  /\ quantity > 0 => LocationRow(LocationOf(b)) \in active

-----------------------------------------------------------------------------
(***************************************************************************)
(* Properties                                                              *)
(***************************************************************************)
Accepted(o) ==
  /\ ledger[o] = NoPosting   \* inventory_ledger_immutability_guard
  /\ \A x \in LinesOf(o, ledger'[o]) : LineAccepted(ledger, ledger'[o].type, x)
  /\ HeaderAccepted(ledger', o)
  /\ \A b \in Touched(ledger'[o]) : BalanceAccepted(b, stock'[b])

\* Whatever the services commit, the triggers behind them accept: no refusal of a
\* trigger, which no service expects, ends a request that the services have
\* validated, though the triggers count returns and corrections line by line and
\* look at the locations of balances that a service only takes from.
TriggersAccept == [][\A o \in OperationId : ledger'[o] # ledger[o] => Accepted(o)]_vars
=============================================================================
