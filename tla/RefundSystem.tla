---------------------------- MODULE RefundSystem ----------------------------
(***************************************************************************)
(* The refund calls of RefundFabric and the workers of RefundRecovery over *)
(* one table, one provider and one set of payments.  The calls put rows    *)
(* into quarantine; the workers and reconcileRefund both take them out.    *)
(*                                                                         *)
(* A worker's steps are those of RefundRecovery on the table itself; its   *)
(* environment, which that module only assumes, is RefundFabric's Next.    *)
(***************************************************************************)
EXTENDS RefundFabric

CONSTANTS Workers,  \* recovery workers
          Dead      \* the claim of a worker that died

ASSUME WorkersAssumption ==
  /\ None # Dead
  /\ {None, Dead} \intersect (Workers \union RefundIds) = {}

VARIABLES due, claim, pc, queue, at, finalized, resolved, abandoned, lapsed

workerVars == <<due, claim, pc, queue, at, finalized, resolved, abandoned, lapsed>>

systemVars == <<vars, workerVars>>

\* The workers, on the real table and the real provider.
Worker == INSTANCE RefundRecovery

SystemInit ==
  /\ Init
  /\ due = [r \in RefundIds |-> TRUE]
  /\ claim = [r \in RefundIds |-> None]
  /\ pc = [w \in Workers |-> "idle"]
  /\ queue = [w \in Workers |-> {}]
  /\ at = [w \in Workers |-> None]
  /\ finalized = [r \in RefundIds |-> {}]
  /\ resolved = {} /\ abandoned = {} /\ lapsed = {}

FabricMoves == Next /\ UNCHANGED workerVars

\* A worker or a clock; no worker calls the orchestrator.
WorkerMoves ==
  /\ \/ \E w \in Workers : Worker!Step(w) \/ Worker!Crash(w)
     \/ \E r \in RefundIds : Worker!ClaimExpires(r) \/ Worker!BecomesDue(r)
  /\ UNCHANGED <<call, paymentStatus, auditTrail, requests, ledger, refunded, lock, events>>

SystemNext == FabricMoves \/ WorkerMoves

SystemSpec == SystemInit /\ [][SystemNext]_systemVars

\* An await of a call always settles: a store answers or throws, the provider answers or
\* times out.  Waiters of the refund lock are served in the order of their promises, so
\* none waits for ever.  Nothing is assumed of workers, clocks, crashes and the provider.
FairSystemSpec ==
  /\ SystemSpec
  /\ \A c \in Callers : /\ WF_systemVars(Step(c) /\ UNCHANGED workerVars)
                        /\ SF_systemVars(EnterLedger(c) /\ UNCHANGED workerVars)

-----------------------------------------------------------------------------
\* RefundRecovery does not see a row before it is in quarantine or confirmed, nor the
\* provider before it was asked.
Seen(r) == IF IsProcessing(r) /\ ~IsQuarantined(r) THEN NoRow ELSE operations[r]

Recovery == INSTANCE RefundRecovery WITH
  operations <- [r \in RefundIds |-> Seen(r)],
  provider <- [r \in RefundIds |-> IF provider[r] = "none" THEN "inTransit" ELSE provider[r]]

\* What RefundRecovery assumes of its environment is what the refund calls do: every
\* interleaving of calls, reconciliations, crashes and workers is a behaviour of it.
ImplementsRecovery == Recovery!Spec

\* Beside the workers, too: while an outcome is in quarantine nothing is sent to the
\* provider for its payment, and only an outcome ends the quarantine.
SystemQuarantineHolds == [][QuarantineStep]_systemVars

\* The refunds a worker finalizes, and those the calls put into the journal, were paid
\* out; each was asked for once, whoever concluded it.
FinalizedIsPaidOut ==
  \A r \in RefundIds : finalized[r] # {} \/ r \in ledger =>
    Status(r) = "succeeded" /\ provider[r] = "executed" /\ requests[r] = 1
=============================================================================
