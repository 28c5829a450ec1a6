----------------------------- MODULE MCEvidence -----------------------------
EXTENDS Evidence, TLC
\* Pages, calls and contents are interchangeable.
Symmetry == Permutations(Pages) \cup Permutations(Calls) \cup Permutations(Contents)
=============================================================================
