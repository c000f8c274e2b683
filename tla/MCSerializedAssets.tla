-------------------------- MODULE MCSerializedAssets --------------------------
EXTENDS AssetGuards, TLC

Symmetry == Permutations(Worker)

\* Asset 1 is received, issued, returned and issued again while a return of
\* its first issue may still be under way; its code is claimed a second time
\* under another material; assets pass each other between two locations.
Movements ==
  {<<1, Receipt(1, 1, 1, 1)>>, <<2, Issue(1, 1, 1)>>,
   <<3, Return(2, 1, 1)>>, <<4, Issue(1, 1, 1)>>,
   <<5, Return(2, 1, 2)>>, <<5, Return(4, 1, 2)>>,
   <<6, Transfer(1, 1, 1, 2)>>, <<3, Transfer(2, 2, 2, 1)>>,
   <<7, Receipt(1, 2, 2, 2)>>, <<7, Receipt(2, 2, 2, 2)>>}
=============================================================================
