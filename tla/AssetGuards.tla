------------------------------ MODULE AssetGuards ------------------------------
(***************************************************************************)
(* The triggers that guard the lines and the rows of serialized assets     *)
(* (inventory/migrations 0009 and 0012), as predicates over what a service *)
(* of SerializedAssets inserts and saves.  A line is judged by the asset's *)
(* row as it is when the line is inserted: already there for a receipt,    *)
(* which inserts the asset first, and not yet moved for the others.        *)
(***************************************************************************)
EXTENDS SerializedAssets

\* The row that a request becomes: a movement takes its material from the
\* asset, a return its condition from the line that it refers to.
RowOf(r) ==
  [r EXCEPT !.material  = IF r.type = "RECEIPT" THEN @ ELSE custody[r.asset].material,
            !.condition = IF r.type = "RETURN" THEN ledger[r.original].condition
                                               ELSE @]

\* The asset's row when line x of it is inserted.
AssetOf(x) == IF x.type = "RECEIPT" THEN custody'[x.asset] ELSE custody[x.asset]

History(a) == {o \in OperationId : ledger[o].asset = a}

NextInOrder(a, n) == n = 1 + Max({number[o] : o \in History(a)} \union {0})

Established(a) == \E o \in History(a) : ledger[o].type = "RECEIPT"

Returned(o) ==
  \E p \in OperationId : ledger[p].type = "RETURN" /\ ledger[p].original = o

-----------------------------------------------------------------------------
(***************************************************************************)
(* inventory_line_quantity_guard, before a serialized line x is inserted.  *)
(***************************************************************************)
FromWhereItIs(x, at) ==
  /\ at.state = "IN_STOCK"
  /\ x.source = at.location
  /\ x.condition = at.condition

ReceiptAccepted(x, at) ==
  /\ x.source = None /\ x.target # None /\ x.original = NoOperation
  /\ History(x.asset) = {}
  /\ at.state = "IN_STOCK"
  /\ x.target = at.location
  /\ x.condition = at.condition

IssueAccepted(x, at) ==
  /\ x.source # None /\ x.target = None /\ x.original = NoOperation
  /\ FromWhereItIs(x, at)
  /\ \A o \in History(x.asset) : ledger[o].type = "ISSUE" => Returned(o)

ReturnAccepted(x, at) ==
  /\ x.source = None /\ x.target # None /\ x.original # NoOperation
  /\ LET issue == ledger[x.original] IN
       /\ issue.type = "ISSUE"
       /\ issue.asset = x.asset
       /\ issue.condition = x.condition
  /\ ~Returned(x.original)
  /\ at.state = "ISSUED"
  /\ at.location = None
  /\ x.condition = at.condition

TransferAccepted(x, at) ==
  /\ x.source # None /\ x.target # None /\ x.source # x.target
  /\ x.original = NoOperation
  /\ FromWhereItIs(x, at)

LineAccepted(x, n) ==
  LET at == AssetOf(x) IN
  /\ x.material = at.material
  /\ NextInOrder(x.asset, n)
  /\ x.type # "RECEIPT" => Established(x.asset)
  /\ CASE x.type = "RECEIPT"  -> ReceiptAccepted(x, at)
       [] x.type = "ISSUE"    -> IssueAccepted(x, at)
       [] x.type = "RETURN"   -> ReturnAccepted(x, at)
       [] x.type = "TRANSFER" -> TransferAccepted(x, at)

-----------------------------------------------------------------------------
(***************************************************************************)
(* The triggers of the asset's own row, as it is saved.                    *)
(***************************************************************************)
\* inventory_serialized_asset_integrity_guard
Intact(at) ==
  /\ at.condition # None
  /\ \/ at.state = "IN_STOCK" /\ LocationRow(at.location) \in active
     \/ at.state = "ISSUED" /\ at.location = None

\* inventory_serialized_asset_identity_guard
IdentityKept(a) == History(a) # {} => custody'[a].material = custody[a].material

-----------------------------------------------------------------------------
(***************************************************************************)
(* Properties                                                              *)
(***************************************************************************)
Accepted(o) ==
  LET r == ledger'[o] IN
  /\ ledger[o] = NoLine   \* inventory_ledger_immutability_guard
  /\ LineAccepted(RowOf(r), number'[o])
  /\ Intact(custody'[r.asset])
  /\ IdentityKept(r.asset)

\* The triggers accept every line and every asset that a service commits, so
\* none of their refusals, which no service expects, ends a request: what a
\* service read of an asset before it held the row is still so when it writes.
AssetTriggersAccept ==
  [][\A o \in OperationId : ledger'[o] # ledger[o] => Accepted(o)]_vars
=============================================================================
