------------------------- MODULE MCInventoryMutation -------------------------
(***************************************************************************)
(* Workloads for InventoryMutation.  Buckets are <<material, location,     *)
(* condition>>.                                                            *)
(***************************************************************************)
EXTENDS QuantityGuards, TLC

b11 == <<1, 1, 1>>
b12 == <<1, 2, 1>>
b21 == <<2, 1, 1>>
b22 == <<2, 2, 1>>

Symmetry == Permutations(Worker)

\* Goods of two materials pass each other between two locations; an issue is
\* returned twice, to either; clients retry, and use identifiers 3 and 5 for two
\* requests each.
Movements ==
  {<<1, Receipt(b11, 1)>>, <<2, Receipt(b22, 1)>>,
   <<3, Transfer(b11, b12, 1)>>, <<4, Transfer(b22, b21, 1)>>,
   <<3, Issue(b11, 1)>>, <<5, Return(3, b11, 1)>>, <<5, Return(3, b12, 1)>>,
   <<6, Return(3, b12, 1)>>}

\* Records are put right while goods move: corrections of one receipt whose
\* sum exceeds it, corrections that cross between two materials, and counts of
\* a bucket that other postings change.
Adjustments ==
  {<<1, Receipt(b11, 2)>>, <<2, Receipt(b21, 1)>>,
   <<3, Reassign(1, b11, b21, 1)>>, <<3, Surplus(b21, 0, 1)>>,
   <<4, Reassign(2, b21, b11, 1)>>, <<4, Decrease(1, b11, 2)>>,
   <<4, Shortage(b11, 2, 1)>>}

\* Receipts of two materials, each corrected to the other.
Crossing ==
  {<<1, Receipt(b11, 1)>>, <<2, Receipt(b21, 1)>>,
   <<3, Reassign(1, b11, b21, 1)>>, <<4, Reassign(2, b21, b11, 1)>>}
=============================================================================
