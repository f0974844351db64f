------------------------------ MODULE MCShared ------------------------------
(* Shared on small instances.                                              *)
EXTENDS Shared, TLC

Symmetry == Permutations(Callers) \cup Permutations(Presets)
=============================================================================
