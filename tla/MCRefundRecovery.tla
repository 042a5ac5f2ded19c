--------------------------- MODULE MCRefundRecovery ---------------------------
(***************************************************************************)
(* Small instances of RefundRecovery for TLC.                              *)
(***************************************************************************)
EXTENDS RefundRecovery, TLC

CONSTANTS p1, p2, w1, w2

\* Refunds of 1 and 2 of a payment of 2.
MCPaymentAmount == [p \in Payments |-> 2]

AllAlike == Permutations(Workers) \union Permutations(Payments)
=============================================================================
