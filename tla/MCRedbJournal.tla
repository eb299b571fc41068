---------------------------- MODULE MCRedbJournal ----------------------------
(* Small instances of RedbJournal for TLC. *)
EXTENDS RedbJournal, TLC

Symmetry == Permutations(Threads) \cup Permutations(Streams)
=============================================================================
