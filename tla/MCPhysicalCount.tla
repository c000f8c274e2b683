--------------------------- MODULE MCPhysicalCount ---------------------------
(***************************************************************************)
(* Instances of PhysicalCount.                                             *)
(***************************************************************************)
EXTENDS PhysicalCount, TLC

\* Users are alike where all of them may decide, and so are identifiers and
\* locations.
Symmetry ==
  Permutations(User) \union Permutations(OperationId) \union Permutations(Location)
=============================================================================
