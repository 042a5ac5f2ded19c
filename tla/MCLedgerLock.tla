---------------------------- MODULE MCLedgerLock ----------------------------
(***************************************************************************)
(* A small instance of LedgerLock for TLC: with three writers, two may     *)
(* take over the lapsed lease of the third at once.                        *)
(***************************************************************************)
EXTENDS LedgerLock, TLC

CONSTANTS w1, w2, w3

WritersAreAlike == Permutations(Writers)
=============================================================================
