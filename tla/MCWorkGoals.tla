----------------------------- MODULE MCWorkGoals -----------------------------
\* Instance of WorkGoals for TLC.
EXTENDS WorkGoals, TLC

Symmetry == Permutations(Drivers) \cup Permutations(Reporters)
=============================================================================
