-------------------------- MODULE MCBaselineCutover --------------------------
(***************************************************************************)
(* Instances of BaselineCutover.                                           *)
(***************************************************************************)
EXTENDS BaselineCutover, TLC

\* Users are alike where all of them establish and none decides, and so are
\* identifiers, sessions, baselines and locations.
Symmetry ==
  Permutations(User) \union Permutations(OperationId)
    \union Permutations(Session) \union Permutations(Baseline)
    \union Permutations(Location)
=============================================================================
