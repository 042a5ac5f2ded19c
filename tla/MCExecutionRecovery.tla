------------------------- MODULE MCExecutionRecovery -------------------------
(***************************************************************************)
(* Small instances of ExecutionRecovery for TLC.                           *)
(***************************************************************************)
EXTENDS ExecutionRecovery, TLC

CONSTANTS p1, p2, k1, k2, c1, c2

AllAlike == Permutations(Procs) \union Permutations(Keys) \union Permutations(Calls)
=============================================================================
