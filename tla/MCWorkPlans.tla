----------------------------- MODULE MCWorkPlans -----------------------------
\* Instance of WorkPlans for TLC.
EXTENDS WorkPlans, TLC

Symmetry == Permutations(Callers) \cup Permutations(RunIds) \cup Permutations(Contents)
=============================================================================
