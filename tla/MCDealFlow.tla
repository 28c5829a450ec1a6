----------------------------- MODULE MCDealFlow -----------------------------
EXTENDS DealPage, TLC
Symmetry == Permutations(Workers)
=============================================================================
