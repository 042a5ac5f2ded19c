----------------------------- MODULE MCTaskQueue -----------------------------
(***************************************************************************)
(* Small instances of TaskQueue for TLC.                                   *)
(***************************************************************************)
EXTENDS TaskQueue, TLC

CONSTANTS t1, t2, w1, w2, w3

AllAlike == Permutations(Workers) \union Permutations(Tasks)
=============================================================================
