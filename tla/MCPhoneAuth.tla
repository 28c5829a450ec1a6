---------------------------- MODULE MCPhoneAuth ----------------------------
EXTENDS PhoneAuth, TLC
\* The calls are interchangeable.
Symmetry == Permutations(Callers)
=============================================================================
