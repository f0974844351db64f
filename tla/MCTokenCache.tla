---------------------------- MODULE MCTokenCache ----------------------------
(* TokenCache on small instances.                                          *)
EXTENDS TokenCache, TLC

CallerSymmetry == Permutations(Callers)
=============================================================================
