------------------------- MODULE MCCorrectionWorkflow -------------------------
EXTENDS CorrectionWorkflow, TLC

Symmetry == Permutations(Worker) \union Permutations(User) \union Permutations(Request)

b11 == <<1, 1, 1>>
b12 == <<1, 2, 1>>
b21 == <<2, 1, 1>>

\* A receipt of 2, an issue of it in full or in part, returns of 1 and of 2
\* that together exceed either, a transfer, and counts of the first bucket.
Others ==
  {<<1, Receipt(b11, 2)>>,
   <<2, Issue(b11, 2)>>, <<2, Issue(b11, 1)>>, <<2, Transfer(b11, b12, 1)>>,
   <<3, Return(2, b12, 1)>>, <<3, Surplus(b11, 0, 2)>>,
   <<4, Return(2, b11, 2)>>, <<4, Shortage(b11, 2, 1)>>}

\* Corrections of the receipt, down, up and to another material, and of the
\* posting that is an issue or a transfer.
Claims ==
  {Decrease(1, b11, 2), Increase(1, b11, 1), Reassign(1, b11, b21, 1),
   Decrease(2, b11, 1)}
=============================================================================
