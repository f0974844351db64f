---------------------------- MODULE MCRepoConfig ----------------------------
(* RepoConfig on small instances.                                          *)
EXTENDS RepoConfig, TLC

CallerSymmetry == Permutations(Callers)
=============================================================================
