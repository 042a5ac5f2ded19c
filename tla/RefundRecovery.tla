---------------------------- MODULE RefundRecovery ----------------------------
(***************************************************************************)
(* RefundRecoveryWorker: several workers list the quarantined refunds that *)
(* are due, claim each with iz_claim_refund_recovery, ask the provider     *)
(* what became of it, resolve the row and finalize the refund, or put its  *)
(* next reconciliation off.  A claim is a lease that nobody renews.        *)
(*                                                                         *)
(* The rows and the statements on them are those of RefundOperations; how  *)
(* a row gets into quarantine is RefundFabric's subject: here a row is     *)
(* absent until it is in quarantine or confirmed (RefundSystem relates the *)
(* two).  A call of PaymentOrchestrator.reconcileRefund needs no claim and *)
(* may resolve a row at any time; it records the refund itself.            *)
(***************************************************************************)
EXTENDS RefundOperations

CONSTANTS Workers,  \* recovery workers
          None,     \* no claim, no refund
          Dead      \* the claim of a worker that died: a new one has another claimId

ASSUME RecoveryAssumption ==
  /\ None # Dead
  /\ {None, Dead} \intersect (Workers \union RefundIds) = {}

VARIABLES provider,   \* what became of the provider's refund (external)
          due,        \* next_reconciliation_at has passed, or was never set
          claim,      \* the worker whose unexpired claim is in the row
          pc,         \* where each worker is in run and reconcile
          queue,      \* the listed refunds it has still to visit
          at,         \* the refund it works on
          finalized,  \* history: the workers whose finalize returned, per refund
          resolved,   \* history: refunds a worker resolved as succeeded
          abandoned,  \* history: refunds whose worker died, or threw when resolved
          lapsed      \* history: refunds whose claim expired under a working worker

vars == <<operations, provider, due, claim, pc, queue, at, finalized, resolved, abandoned,
          lapsed>>

world == <<provider, due>>
history == <<finalized, resolved, abandoned, lapsed>>

InQuarantine == [status |-> "processing", reconciliationRequired |-> TRUE]

Init ==
  /\ operations = [r \in RefundIds |-> NoRow]
  /\ provider = [r \in RefundIds |-> "inTransit"]
  /\ due = [r \in RefundIds |-> TRUE]
  /\ claim = [r \in RefundIds |-> None]
  /\ pc = [w \in Workers |-> "idle"]
  /\ queue = [w \in Workers |-> {}]
  /\ at = [w \in Workers |-> None]
  /\ finalized = [r \in RefundIds |-> {}]
  /\ resolved = {} /\ abandoned = {} /\ lapsed = {}

Goto(w, label) == pc' = [pc EXCEPT ![w] = label]

\* run: listReconciliationRequired, of at most `limit' rows.
List(w) ==
  /\ pc[w] = "idle"
  /\ \E rs \in SUBSET {r \in RefundIds : IsQuarantined(r) /\ due[r]} :
       rs # {} /\ queue' = [queue EXCEPT ![w] = rs]
  /\ Goto(w, "next")
  /\ UNCHANGED <<operations, world, claim, at, history>>

Take(w, r) ==
  /\ claim' = [claim EXCEPT ![r] = w]
  /\ queue' = [queue EXCEPT ![w] = @ \ {r}]
  /\ at' = [at EXCEPT ![w] = r]
  /\ Goto(w, "load")
  /\ UNCHANGED <<operations, world, history>>

\* Mutant: the claim does not look at the status of the row again.
ClaimResolved(w, r) ==
  /\ pc[w] = "next" /\ r \in queue[w]
  /\ due[r] /\ claim[r] = None
  /\ Take(w, r)

\* iz_claim_refund_recovery finds the row.
Claim(w, r) ==
  /\ pc[w] = "next" /\ r \in queue[w]
  /\ IsQuarantined(r) /\ due[r] /\ claim[r] = None
  /\ Take(w, r)

\* ... or not: the worker passes over the refund.
Skip(w, r) ==
  /\ pc[w] = "next" /\ r \in queue[w]
  /\ ~(IsQuarantined(r) /\ due[r] /\ claim[r] = None)
  /\ queue' = [queue EXCEPT ![w] = @ \ {r}]
  /\ UNCHANGED <<operations, world, claim, pc, at, history>>

\* run returns.
Done(w) ==
  /\ pc[w] = "next" /\ queue[w] = {}
  /\ Goto(w, "idle")
  /\ UNCHANGED <<operations, world, claim, queue, at, history>>

\* Mutant: a payment that is not there is passed over outside the try statement.
LoadWithoutFinally(w) ==
  /\ pc[w] = "load"
  /\ \E label \in {"reserve", "defer", "next"} : Goto(w, label)
  /\ UNCHANGED <<operations, world, claim, queue, at, history>>

\* loadPayment: a payment that is not there defers the refund, a provider without
\* reconcileRefund skips it.
Load(w) ==
  /\ pc[w] = "load"
  /\ \E label \in {"reserve", "defer", "release"} : Goto(w, label)
  /\ UNCHANGED <<operations, world, claim, queue, at, history>>

\* reconcile: what reserve answers.  The row exists, so nothing is inserted.
Reserve(w) ==
  LET answer == ReservationKind(at[w]) IN
  /\ pc[w] = "reserve"
  /\ \/ answer = "succeeded" /\ Goto(w, "finalize")
     \/ answer = "reconciliation-required" /\ Goto(w, "lookup")
     \/ answer \notin {"succeeded", "reconciliation-required"} /\ Goto(w, "defer")
  /\ UNCHANGED <<operations, world, claim, queue, at, history>>

\* Mutant: a refund the provider has not executed yet is reported as failed.
LookupUndecidedAsFailed(w) ==
  /\ pc[w] = "lookup"
  /\ \/ provider[at[w]] = "executed" /\ Goto(w, "resolveSucceeded")
     \/ provider[at[w]] # "executed" /\ Goto(w, "resolveFailed")
  /\ UNCHANGED <<operations, world, claim, queue, at, history>>

\* reconcileRefund throws as long as there is no outcome.
Lookup(w) ==
  /\ pc[w] = "lookup"
  /\ \/ provider[at[w]] = "executed" /\ Goto(w, "resolveSucceeded")
     \/ provider[at[w]] = "rejected" /\ Goto(w, "resolveFailed")
     \/ provider[at[w]] = "inTransit" /\ Goto(w, "defer")
  /\ UNCHANGED <<operations, world, claim, queue, at, history>>

\* Mutant: the worker takes resolveSucceeded for the end of the refund.
ResolveAndRelease(w) ==
  /\ pc[w] = "resolveSucceeded"
  /\ IF IsQuarantined(at[w]) THEN SetTerminal(at[w], "succeeded") ELSE UNCHANGED operations
  /\ Goto(w, "release")
  /\ resolved' = resolved \union {at[w]}
  /\ UNCHANGED <<world, claim, queue, at, finalized, abandoned, lapsed>>

\* resolveSucceeded: a row somebody else resolved alike is as good.
ResolveSucceeded(w) ==
  LET r == at[w] IN
  /\ pc[w] = "resolveSucceeded"
  /\ \/ /\ IsQuarantined(r)
        /\ SetTerminal(r, "succeeded")
        /\ resolved' = resolved \union {r}
        /\ Goto(w, "finalize")
     \/ /\ Status(r) = "succeeded"
        /\ Goto(w, "finalize")
        /\ UNCHANGED <<operations, resolved>>
     \/ /\ ~IsQuarantined(r) /\ Status(r) # "succeeded"
        /\ Goto(w, "defer")
        /\ UNCHANGED <<operations, resolved>>
  /\ UNCHANGED <<world, claim, queue, at, finalized, abandoned, lapsed>>

ResolveFailed(w) ==
  LET r == at[w] IN
  /\ pc[w] = "resolveFailed"
  /\ \/ /\ IsQuarantined(r)
        /\ SetTerminal(r, "failed")
        /\ Goto(w, "release")
     \/ /\ Status(r) = "failed"
        /\ Goto(w, "release")
        /\ UNCHANGED operations
     \/ /\ ~IsQuarantined(r) /\ Status(r) # "failed"
        /\ Goto(w, "defer")
        /\ UNCHANGED operations
  /\ UNCHANGED <<world, claim, queue, at, history>>

\* The finalizer returns, or throws: nobody will finalize the refund again.
Finalize(w) ==
  /\ pc[w] = "finalize"
  /\ \/ /\ finalized' = [finalized EXCEPT ![at[w]] = @ \union {w}]
        /\ Goto(w, "release")
        /\ UNCHANGED abandoned
     \/ /\ abandoned' = abandoned \union {at[w]}
        /\ Goto(w, "defer")
        /\ UNCHANGED finalized
  /\ UNCHANGED <<operations, world, claim, queue, at, resolved, lapsed>>

\* Mutant: putting a refund off writes the columns of an ordinary row.
DeferClearingFlag(w) ==
  /\ pc[w] = "defer" /\ IsQuarantined(at[w])
  /\ operations' = [operations EXCEPT ![at[w]].reconciliationRequired = FALSE]
  /\ due' = [due EXCEPT ![at[w]] = FALSE]
  /\ Goto(w, "release")
  /\ UNCHANGED <<provider, claim, queue, at, history>>

\* defer: recordRecoveryFailure puts a refund off that is still in quarantine; else it
\* throws, and so does run, after its finally clause.
Defer(w) ==
  /\ pc[w] = "defer"
  /\ \/ /\ IsQuarantined(at[w])
        /\ due' = [due EXCEPT ![at[w]] = FALSE]
        /\ UNCHANGED queue
     \/ /\ ~IsQuarantined(at[w])
        /\ queue' = [queue EXCEPT ![w] = {}]
        /\ UNCHANGED due
  /\ Goto(w, "release")
  /\ UNCHANGED <<operations, provider, claim, at, history>>

\* iz_release_refund_recovery, by claim ID.
Release(w) ==
  /\ pc[w] = "release"
  /\ claim' = [claim EXCEPT ![at[w]] = IF @ = w THEN None ELSE @]
  /\ at' = [at EXCEPT ![w] = None]
  /\ Goto(w, "next")
  /\ UNCHANGED <<operations, world, queue, history>>

\* A call of reconcile throws: the refund is deferred.
Throw(w) ==
  /\ pc[w] \in {"load", "reserve", "lookup", "resolveSucceeded", "resolveFailed"}
  /\ Goto(w, "defer")
  /\ UNCHANGED <<operations, world, claim, queue, at, history>>

\* resolveSucceeded or resolveFailed throws after its PATCH took effect.
AnswerLost(w) ==
  /\ pc[w] \in {"resolveSucceeded", "resolveFailed"} /\ IsQuarantined(at[w])
  /\ \/ /\ pc[w] = "resolveSucceeded"
        /\ SetTerminal(at[w], "succeeded")
        /\ resolved' = resolved \union {at[w]}
        /\ abandoned' = abandoned \union {at[w]}
     \/ /\ pc[w] = "resolveFailed"
        /\ SetTerminal(at[w], "failed")
        /\ UNCHANGED <<resolved, abandoned>>
  /\ Goto(w, "defer")
  /\ UNCHANGED <<world, claim, queue, at, finalized, lapsed>>

\* recordRecoveryFailure throws: run throws too, after its finally clause.
ThrowInDefer(w) ==
  /\ pc[w] = "defer"
  /\ queue' = [queue EXCEPT ![w] = {}]
  /\ Goto(w, "release")
  /\ UNCHANGED <<operations, world, claim, at, history>>

\* The process dies, or releaseRecovery throws; the claim stays.
Crash(w) ==
  /\ pc[w] # "idle"
  /\ claim' = [r \in RefundIds |-> IF claim[r] = w THEN Dead ELSE claim[r]]
  /\ abandoned' = IF at[w] = None THEN abandoned ELSE abandoned \union {at[w]}
  /\ queue' = [queue EXCEPT ![w] = {}]
  /\ at' = [at EXCEPT ![w] = None]
  /\ Goto(w, "idle")
  /\ UNCHANGED <<operations, world, finalized, resolved, lapsed>>

\* p_lease_seconds have passed since the claim.
ClaimExpires(r) ==
  /\ claim[r] # None
  /\ claim' = [claim EXCEPT ![r] = None]
  /\ lapsed' = IF claim[r] = Dead THEN lapsed ELSE lapsed \union {r}
  /\ UNCHANGED <<operations, world, pc, queue, at, finalized, resolved, abandoned>>

\* The delay of defer is over.
BecomesDue(r) ==
  /\ ~due[r]
  /\ due' = [due EXCEPT ![r] = TRUE]
  /\ UNCHANGED <<operations, provider, claim, pc, queue, at, history>>

\* A refund call reserved the row and put it into quarantine.
EntersQuarantine(r) ==
  /\ CanInsert(r)
  /\ operations' = [operations EXCEPT ![r] = InQuarantine]
  /\ UNCHANGED <<world, claim, pc, queue, at, history>>

\* A refund call heard from the provider in time: the row never was in quarantine.
ConfirmedAtOnce(r) ==
  /\ CanInsert(r)
  /\ provider[r] = "executed"
  /\ SetTerminal(r, "succeeded")
  /\ UNCHANGED <<world, claim, pc, queue, at, history>>

\* The provider executes the refund or rejects it.
Decide(r) ==
  /\ provider[r] = "inTransit"
  /\ \E outcome \in {"executed", "rejected"} : provider' = [provider EXCEPT ![r] = outcome]
  /\ UNCHANGED <<operations, due, claim, pc, queue, at, history>>

\* PaymentOrchestrator.reconcileRefund resolves the row.
ResolvedElsewhere(r) ==
  /\ IsQuarantined(r)
  /\ \/ provider[r] = "executed" /\ SetTerminal(r, "succeeded")
     \/ provider[r] = "rejected" /\ SetTerminal(r, "failed")
  /\ UNCHANGED <<world, claim, pc, queue, at, history>>

Step(w) ==
  \/ List(w) \/ Done(w) \/ Load(w) \/ Reserve(w) \/ Lookup(w) \/ ResolveSucceeded(w)
  \/ ResolveFailed(w) \/ Finalize(w) \/ Defer(w) \/ Release(w) \/ Throw(w) \/ AnswerLost(w)
  \/ ThrowInDefer(w)
  \/ \E r \in RefundIds : Claim(w, r) \/ Skip(w, r)

Next ==
  \/ \E w \in Workers : Step(w) \/ Crash(w)
  \/ \E r \in RefundIds : \/ ClaimExpires(r) \/ BecomesDue(r) \/ EntersQuarantine(r)
                         \/ ConfirmedAtOnce(r) \/ Decide(r) \/ ResolvedElsewhere(r)

Spec == Init /\ [][Next]_vars

-----------------------------------------------------------------------------
Working == {"load", "reserve", "lookup", "resolveSucceeded", "resolveFailed", "finalize",
            "defer", "release"}

\* Types; a worker is at a refund exactly while it works (RefundRecoveryWorker.run).
TypeOK ==
  /\ operations \in [RefundIds -> Row]
  /\ provider \in [RefundIds -> {"inTransit", "executed", "rejected"}]
  /\ due \in [RefundIds -> BOOLEAN]
  /\ claim \in [RefundIds -> Workers \union {None, Dead}]
  /\ pc \in [Workers -> Working \union {"idle", "next"}]
  /\ queue \in [Workers -> SUBSET RefundIds]
  /\ at \in [Workers -> RefundIds \union {None}]
  /\ finalized \in [RefundIds -> SUBSET Workers]
  /\ {resolved, abandoned, lapsed} \subseteq SUBSET RefundIds
  /\ \A w \in Workers : at[w] = None <=> pc[w] \notin Working

\* "Durable claims prevent concurrent workers from reconciling the same refund"
\* (RefundRecoveryWorker): as long as no claim of the refund expired under its worker.
ClaimedOnceUntilLapse ==
  \A v, w \in Workers :
    at[v] # None /\ at[v] = at[w] /\ at[v] \notin lapsed => v = w

\* "Expected exactly one finalization" (payment-refund-recovery-concurrency.test.ts): until
\* a claim lapses, whatever is listed twice, retried, or resolved elsewhere meanwhile.
FinalizedOnceUntilLapse ==
  \A r \in RefundIds \ lapsed : \A v, w \in finalized[r] : v = w

\* A row only says what the provider did, and is only finalized if the provider paid: also
\* when the outcome came between two lookups, or another call resolved the row.
ResolutionIsTrue ==
  \A r \in RefundIds :
    /\ Status(r) = "succeeded" => provider[r] = "executed"
    /\ Status(r) = "failed" => provider[r] = "rejected"
    /\ finalized[r] # {} => Status(r) = "succeeded"

\* A refund a worker resolved but that is not finalized is being finalized, or its worker
\* died, its finalizer threw or the answer of its PATCH was lost: nothing else loses it
\* (and nothing finds it again).
OnlyFailureAbandons ==
  \A r \in resolved :
    \/ finalized[r] # {}
    \/ r \in abandoned
    \/ \E w \in Workers : at[w] = r /\ pc[w] = "finalize"

\* A refund that was put off is not looked up before its next_reconciliation_at.
NoLookupBeforeDue ==
  \A w \in Workers : pc[w] = "lookup" /\ at[w] \notin lapsed => due[at[w]]
=============================================================================
