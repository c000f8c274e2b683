---------------------------- MODULE MCLocationTree ----------------------------
EXTENDS LocationTree, TLC

Symmetry == Permutations(Worker)
=============================================================================
