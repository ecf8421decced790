------------------------------- MODULE MCKeys -------------------------------
EXTENDS Keys, TLC

CONSTANTS k1, k2, k3

MCKids == {k1, k2, k3}

KidSymmetry == Permutations(MCKids)
=============================================================================
