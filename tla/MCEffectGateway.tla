--------------------------- MODULE MCEffectGateway ---------------------------
(* Small instances of EffectGateway for TLC. *)
EXTENDS EffectGateway, TLC

Symmetry == Permutations(Requests)
=============================================================================
