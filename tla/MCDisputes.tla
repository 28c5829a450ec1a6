----------------------------- MODULE MCDisputes -----------------------------
EXTENDS Disputes, TLC
\* A form may send nothing, zero, the deal's amount or more.
AllInputs == {NoAmount, 0, DealAmount, DealAmount + 1}
\* The requests are interchangeable.
Symmetry == Permutations(Callers)
=============================================================================
