---------------------------- MODULE MCProcurement ----------------------------
EXTENDS Procurement, TLC

Symmetry == Permutations(Worker)

Deliver(l, o, m, q) ==
  [kind |-> "deliver", line |-> l, operation |-> o, material |-> m,
   place |-> <<1, 1>>, quantity |-> q]
LinkTo(l, m)  == [kind |-> "link", line |-> l, material |-> m]
Edit(l, m, u) == [kind |-> "edit", line |-> l, material |-> m, unit |-> u]

\* Two lines, of which one names no material at first.
Drafts == {<<1, [material |-> 1, unit |-> "kg"]>>,
           <<2, [material |-> NoMaterial, unit |-> "kg"]>>}

\* Deliveries in parts under three identifiers, of which both lines use one
\* and one comes with two materials and quantities; links and edits that race
\* with them.
Errands ==
  {Deliver(1, 1, 1, 1), Deliver(2, 1, 1, 1), Deliver(1, 2, 1, 1),
   Deliver(1, 2, 2, 2), Deliver(2, 3, 1, 1),
   LinkTo(1, 2), LinkTo(2, 1), Edit(1, 1, "m"), Edit(2, NoMaterial, "kg")}

\* A delivery of material 1 while its line is linked to material 2.
Relinked == {Deliver(1, 1, 1, 1), LinkTo(1, 2)}

\* A receipt that belongs to no line draws the same identifier.
Others == {<<1, Receipt(<<1, 1, 1>>, 1)>>}
=============================================================================
