--------------------------- MODULE QuantityPosting ---------------------------
(***************************************************************************)
(* The vocabulary of quantity inventory: what one posting of the           *)
(* append-only ledger says (an InventoryTransaction header with its        *)
(* lines), and the functions of the ledger that the services of            *)
(* inventory/services compute before they append to it.                    *)
(*                                                                         *)
(* A header and its lines are one record.  A request of a client and the   *)
(* posting it leads to are the same record: the fingerprint that the       *)
(* services store with the header is a hash of exactly these fields.       *)
(***************************************************************************)
EXTENDS Integers, FiniteSets, FiniteSetsExt

CONSTANTS
  OperationId,  \* identifiers that clients give their operations
  NoOperation,  \* "no original line"
  Material,     \* the primary keys of materials, locations and conditions:
  Location,     \*   UUIDs, of which only the order matters, hence naturals
  Condition,
  NoBucket,     \* "no source" or "no target"
  Quantity      \* the quantities that requests name (0.001 is the unit)

ASSUME PostingConstants ==
  /\ NoOperation \notin OperationId
  /\ Material \subseteq Nat
  /\ Location \subseteq Nat
  /\ Condition \subseteq Nat
  /\ Quantity \subseteq Nat \ {0}
  /\ NoBucket \notin Material \X Location \X Condition

\* An operation identifier is a UUID, one of 2^128: sums over the whole ledger
\* are sums over a finite set.
ASSUME FiniteOperations == IsFiniteSet(OperationId)

(***************************************************************************)
(* A bucket is the identity of one StockBalance row.                       *)
(***************************************************************************)
Bucket == Material \X Location \X Condition

MaterialOf(b)  == b[1]
LocationOf(b)  == b[2]
ConditionOf(b) == b[3]

-----------------------------------------------------------------------------
(***************************************************************************)
(* Postings.  One constructor for each request a service accepts; a        *)
(* posting is what it takes from `source', gives to `target', the earlier  *)
(* posting it refers to and, for a count, the quantity it was counted      *)
(* against.                                                                *)
(***************************************************************************)
Shape(type, source, target, quantity, original, expected) ==
  [type |-> type, source |-> source, target |-> target,
   quantity |-> quantity, original |-> original, expected |-> expected]

Receipt(b, q)       == Shape("RECEIPT", NoBucket, b, q, NoOperation, 0)
Issue(b, q)         == Shape("ISSUE", b, NoBucket, q, NoOperation, 0)
Return(o, b, q)     == Shape("RETURN", NoBucket, b, q, o, 0)
Transfer(s, t, q)   == Shape("TRANSFER", s, t, q, NoOperation, 0)

\* A correction of the quantity of one bucket of posting o, or of the
\* identity under which o was posted (material, location or condition).
Increase(o, b, q)   == Shape("CONTROLLED_CORRECTION", NoBucket, b, q, o, 0)
Decrease(o, b, q)   == Shape("CONTROLLED_CORRECTION", b, NoBucket, q, o, 0)
Reassign(o, s, t, q) == Shape("CONTROLLED_CORRECTION", s, t, q, o, 0)

\* A reconciliation of bucket b, counted q more or q less than `expected'.
Surplus(b, expected, q)  ==
  Shape("COUNT_RECONCILIATION", NoBucket, b, q, NoOperation, expected)
Shortage(b, expected, q) ==
  Shape("COUNT_RECONCILIATION", b, NoBucket, q, NoOperation, expected)

NoPosting == Shape("NONE", NoBucket, NoBucket, 0, NoOperation, 0)

\* What the services refuse whatever the database holds: a transfer within
\* one location or of anything but one item, an identity correction that
\* changes nothing, a count below zero.  Only returns and corrections refer
\* to an earlier posting.  Receipts and returns only give, issues only take.
WellFormed(r) ==
  /\ r.source # r.target
  /\ r.original # NoOperation <=> r.type \in {"RETURN", "CONTROLLED_CORRECTION"}
  /\ r.type \in {"RECEIPT", "RETURN"} => r.source = NoBucket
  /\ r.type = "ISSUE" => r.target = NoBucket
  /\ r.type = "TRANSFER" =>
       /\ NoBucket \notin {r.source, r.target}
       /\ LocationOf(r.source) # LocationOf(r.target)
       /\ MaterialOf(r.source) = MaterialOf(r.target)
       /\ ConditionOf(r.source) = ConditionOf(r.target)
  /\ r.type = "COUNT_RECONCILIATION" =>
       /\ NoBucket \in {r.source, r.target}
       /\ r.target = NoBucket => r.quantity <= r.expected

Posting ==
  [type     : {"RECEIPT", "ISSUE", "RETURN", "TRANSFER",
               "CONTROLLED_CORRECTION", "COUNT_RECONCILIATION"},
   source   : Bucket \union {NoBucket},
   target   : Bucket \union {NoBucket},
   quantity : Quantity,
   original : OperationId \union {NoOperation},
   expected : Nat]

-----------------------------------------------------------------------------
(***************************************************************************)
(* What a posting does to stock, and what the ledger says of one posting.  *)
(***************************************************************************)

\* The signed change that posting r makes to bucket b.
Effect(r, b) ==
  (IF b = r.target THEN r.quantity ELSE 0)
    - (IF b = r.source THEN r.quantity ELSE 0)

Touched(r) == {r.source, r.target} \ {NoBucket}

\* The bucket whose original content a correction adjusts.
Affected(r) == IF r.source # NoBucket THEN r.source ELSE r.target

\* The sum of the second components of a set of <<operation, quantity>>.
Total(entries) == MapThenSumSet(LAMBDA e : e[2], entries)

\* The balance of bucket b that the ledger implies, from which
\* verify_quantity_projection reports every deviation.
LedgerBalance(ledger, b) ==
  Total({<<o, Effect(ledger[o], b)>> : o \in OperationId})

EntriesOf(ledger, operations) == {<<p, ledger[p].quantity>> : p \in operations}

\* The RETURN lines that refer to issue o, and what of o may still be returned.
ReturnsOf(ledger, o) ==
  {p \in OperationId : ledger[p].type = "RETURN" /\ ledger[p].original = o}

Returnable(ledger, o) ==
  ledger[o].quantity - Total(EntriesOf(ledger, ReturnsOf(ledger, o)))

CorrectionsOf(ledger, o) ==
  {p \in OperationId : /\ ledger[p].type = "CONTROLLED_CORRECTION"
                       /\ ledger[p].original = o}

\* The quantity of posting o as its corrections leave it: corrections that
\* take from a bucket lower it, those that only give to one raise it.
Equivalent(ledger, o) ==
  LET lowering == {p \in CorrectionsOf(ledger, o) : ledger[p].source # NoBucket}
      raising  == CorrectionsOf(ledger, o) \ lowering
  IN  ledger[o].quantity - Total(EntriesOf(ledger, lowering))
                         + Total(EntriesOf(ledger, raising))

Proposed(r) == IF r.source = NoBucket THEN r.quantity ELSE -r.quantity

(***************************************************************************)
(* Whether the posting that r refers to allows r.  A return names an       *)
(* issue, of the same material and condition, with enough left to return;  *)
(* a correction names any posting but a correction, and one of its         *)
(* buckets, and leaves its equivalent non-negative.                        *)
(***************************************************************************)
ReturnAllowedSingly(ledger, r) ==   \* mutant: earlier returns are forgotten
  /\ ledger[r.original].type = "ISSUE"
  /\ r.quantity <= ledger[r.original].quantity

ReturnAllowed(ledger, r) ==
  LET issue == ledger[r.original] IN
  /\ issue.type = "ISSUE"
  /\ MaterialOf(r.target) = MaterialOf(issue.source)
  /\ ConditionOf(r.target) = ConditionOf(issue.source)
  /\ r.quantity <= Returnable(ledger, r.original)

CorrectionAllowedSingly(ledger, r) ==   \* mutant: the floor is not cumulative
  /\ ledger[r.original].type \notin {"NONE", "CONTROLLED_CORRECTION"}
  /\ Affected(r) \in Touched(ledger[r.original])
  /\ ledger[r.original].quantity + Proposed(r) >= 0

CorrectionAllowed(ledger, r) ==
  LET line == ledger[r.original] IN
  /\ line.type \notin {"NONE", "CONTROLLED_CORRECTION"}
  /\ Affected(r) \in Touched(line)
  /\ Equivalent(ledger, r.original) + Proposed(r) >= 0

OriginalAllows(ledger, r) ==
  /\ r.type = "RETURN" => ReturnAllowed(ledger, r)
  /\ r.type = "CONTROLLED_CORRECTION" => CorrectionAllowed(ledger, r)

\* Whether bucket b, holding quantity v, can take part in posting r: a
\* source must hold what is taken; a counted bucket must be as expected.
BucketAllowsAnyway(r, b, v) ==   \* mutant: availability is not checked
  r.type = "COUNT_RECONCILIATION" => v = r.expected

BucketAllows(r, b, v) ==
  /\ b = r.source => r.quantity <= v
  /\ r.type = "COUNT_RECONCILIATION" => v = r.expected

\* The quantity saved for bucket b of posting r, read as v: a reconciliation
\* writes the counted quantity, every other posting adds its effect to v.
NewQuantityGross(r, b, v) ==   \* mutant: what is taken is not subtracted
  IF b = r.target THEN v + r.quantity ELSE v

NewQuantity(r, b, v) ==
  IF r.type = "COUNT_RECONCILIATION" THEN r.expected + Effect(r, b)
                                     ELSE v + Effect(r, b)
=============================================================================
