--------------------------- MODULE MCFabricRecovery ---------------------------
(***************************************************************************)
(* Small instances of FabricRecovery for TLC.                              *)
(***************************************************************************)
EXTENDS FabricRecovery, TLC

CONSTANTS d1, d2, w1, w2, n1, n2

AllAlike == Permutations(Deployments) \union Permutations(Workers) \union Permutations(Nodes)
=============================================================================
