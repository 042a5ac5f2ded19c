--------------------------- MODULE MCRefundFabric ---------------------------
(***************************************************************************)
(* Small instances of RefundFabric for TLC, and a statement of the         *)
(* repository that the code does not keep.                                 *)
(***************************************************************************)
EXTENDS RefundFabric, TLC

CONSTANTS p1, c1, c2, c3, i1, i2

MCPaymentAmount == [p \in Payments |-> 2]

\* c1 and c2 share an orchestrator object, c3 calls another one.
MCHome == [c \in Callers |-> IF c = c3 THEN i2 ELSE i1]

\* c1 and c2 differ in nothing but their names.
NeighboursAreAlike == Permutations({c1, c2})

\* 005_refund_recovery.sql:2 says of operations in processing that they "become
\* recoverable unknown operations": one whose request went out to the provider, and that
\* no call works on any more, should be flagged, so that recovery finds it
\* (listReconciliationRequired, reserve).
ProcessingIsRecoverable ==
  \A r \in RefundIds : IsProcessing(r) /\ requests[r] > 0 =>
    \/ IsQuarantined(r)
    \/ \E c \in Callers : call[c].id = r /\ call[c].pc \in Owning
=============================================================================
