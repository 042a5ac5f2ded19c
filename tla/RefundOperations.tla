-------------------------- MODULE RefundOperations --------------------------
(***************************************************************************)
(* The durable table of refund operations, iz_payment_refund_operations,   *)
(* and the conditional statements SupabaseRefundOperationStore runs on it. *)
(*                                                                         *)
(* A row is keyed by its refund ID, the string `refund:<payment>:<amount>' *)
(* that every caller derives from the payment and the amount it refunds,   *)
(* so two refunds of one payment for the same amount are one row.  A row   *)
(* that does not exist has the status "absent".  The code never writes the *)
(* status `requested' and never calls markFailed.                          *)
(***************************************************************************)
EXTENDS Naturals

CONSTANTS Payments,       \* payment intents
          Amounts,        \* refund amounts a caller may ask for, in minor units
          PaymentAmount   \* amountMinor of each payment intent

ASSUME AmountsAssumption == Amounts \subseteq Nat \ {0}

ASSUME PaymentAmountAssumption == PaymentAmount \in [Payments -> Nat \ {0}]

\* Refund IDs that pass the amount checks every entry point makes.
RefundIds == {r \in [pay : Payments, amt : Amounts] : r.amt <= PaymentAmount[r.pay]}

\* A refund of the whole payment also moves the payment intent to `refunded'.
IsFull(r) == r.amt = PaymentAmount[r.pay]

VARIABLE operations

Row == [status : {"absent", "processing", "succeeded", "failed"},
        reconciliationRequired : BOOLEAN]

NoRow == [status |-> "absent", reconciliationRequired |-> FALSE]

Status(r) == operations[r].status

IsProcessing(r) == Status(r) = "processing"

IsQuarantined(r) == IsProcessing(r) /\ operations[r].reconciliationRequired

-----------------------------------------------------------------------------
(* The statements. *)

\* Mutant: a failed refund may be reserved, and so requested, again.
CanInsertAfterFailure(r) ==
  /\ Status(r) \in {"absent", "failed"}
  /\ \A s \in RefundIds : s.pay = r.pay => ~IsProcessing(s)

\* Mutant: without iz_payment_refund_active_idx only refund_id is unique.
CanInsertBesideActive(r) == Status(r) = "absent"

\* Mutant: an expired reservation is not waited for once it is in quarantine.
CanInsertBesideQuarantine(r) ==
  /\ Status(r) = "absent"
  /\ \A s \in RefundIds : s.pay = r.pay /\ IsProcessing(s) => IsQuarantined(s)

\* The INSERT of reserve succeeds: refund_id is unique and so, by the partial
\* index iz_payment_refund_active_idx, is the active row of a payment.
CanInsert(r) ==
  /\ Status(r) = "absent"
  /\ \A s \in RefundIds : s.pay = r.pay => ~IsProcessing(s)

InsertProcessing(r) ==
  operations' = [operations EXCEPT ![r] = [status |-> "processing",
                                           reconciliationRequired |-> FALSE]]

\* What reserve answers from the row it reads after a conflicting INSERT.
ReservationKind(r) ==
  IF Status(r) = "absent" THEN "unresolved"
  ELSE IF Status(r) = "succeeded" THEN "succeeded"
  ELSE IF operations[r].reconciliationRequired THEN "reconciliation-required"
  ELSE "active"

\* The PATCH of markSucceeded, resolveSucceeded and resolveFailed.
SetTerminal(r, status) ==
  operations' = [operations EXCEPT ![r] = [status |-> status,
                                           reconciliationRequired |-> FALSE]]

\* The PATCH of markReconciliationRequired.
SetQuarantined(r) ==
  operations' = [operations EXCEPT ![r].reconciliationRequired = TRUE]
=============================================================================
