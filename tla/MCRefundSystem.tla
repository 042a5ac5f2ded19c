--------------------------- MODULE MCRefundSystem ---------------------------
(***************************************************************************)
(* A small instance of RefundSystem for TLC: two calls on one orchestrator *)
(* object and a recovery worker.                                           *)
(***************************************************************************)
EXTENDS RefundSystem, TLC

CONSTANTS p1, c1, c2, i1, w1

MCPaymentAmount == [p \in Payments |-> 2]

MCHome == [c \in Callers |-> i1]
=============================================================================
