---------------------------- MODULE MCDealSystem ----------------------------
EXTENDS DealSystem, TLC
Symmetry == Permutations(Users \ {Creator}) \cup Permutations(Callers)
=============================================================================
