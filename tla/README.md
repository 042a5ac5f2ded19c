# IZAKHONO: TLA+ models of its concurrent cores

This directory is a verification project for the parts of the repository in which several
processes, workers or callers share durable state. The repository holds some hundred
products, most of them front ends, content, campaigns and deployment scripts. Its own
concurrent logic is in four places:

* the *payment fabric* of the super engine (`src/products/izakhono-super-engine`): payment
  intents, webhooks, refunds, recovery, ledger;
* the *execution core* of Marketing OS (`src/products/izakhono-marketing-os/src`): a ledger
  file shared by processes, execution and replay of jobs, startup recovery;
* the *recovery* of the Runtime Fabric (`src/infra/runtime-fabric/controller`);
* the durable *task queue* of NODE01 (`src/products/node01-agent-fabric/src/node01`).

Money moves in the first, so it came first and has the most detailed model. File names below
are relative to the component's directory (those of the payment fabric to its `src/`, and
`sql/` to its migrations).

## 1. Inventory

| Component | State it keeps | Operations | Hard behaviour | What makes it correct |
|---|---|---|---|---|
| Refund operation store (`payment-refund-operations-supabase.ts`, `sql/003`, `sql/005`) | one row per refund ID: status, `reconciliation_required` | reserve, mark*, resolve*, queue listing | racing inserts, lost answers | one undecided refund per payment; terminal rows are true and final |
| Refund execution (`payment-refunds.ts`) | `inFlight` map; the caller's copy of the intent | refund, executeRefund, lifecycle cancel/refund | joins, retries after ambiguous failures, crashes | the provider is asked at most once |
| Refund reconciliation (`payment-refund-recovery.ts`) | none | reconcile, resolve | races refunds and itself; looks up too early | an outcome is recorded only when there is one |
| Refund recovery worker (`payment-refund-recovery-worker.ts`, `sql/006*`, `sql/007`) | claims, due times | run, defer, claim, release | expiring claims, one failing row in a batch, resolution elsewhere | one finalization per refund; nothing is lost but by a failure |
| Orchestrator (`payment-orchestrator.ts`) | none | recordPaid, fulfillPaid, refund, reconcileRefund, ... | several durable writes in a row | what is recorded was confirmed |
| Ledger (`payment-ledger.ts`, `payment-refund-ledger.ts`) | append-only journal, accounts, a promise chain as refund lock | recordPayment, recordRefund, recordSettlement | check in one await, append in another | refunds stay within the payment |
| Payment intents (`payment-core.ts`, `payment-supabase.ts`) | one row per external transaction | createPayment, update, updateIfStatus | racing creations, stale writers | one link per order; a payment is never undone |
| Webhook guard (`payment-webhook-guard.ts`, `payment-webhook-claims-supabase.ts`, `payment-events*.ts`) | claims, event fingerprints | process | at-least-once delivery, contradictory outcomes, dying handlers | one outcome per order, applied once |
| Ledger file and its lock (`file-execution-persistence.ts`, `execution-lease.ts`) | a JSONL file, a lock directory with `lease.json` | append, acquire, assertCurrent, release | takeover of an expired lease, file operations that interleave | no two acknowledged appends share a number; races never wedge the lock |
| Execution and startup recovery (`execution-runtime.ts`, `reconciliation-runtime.ts`, `startup-recovery-controller.ts`, `execution-finalization.ts`, ...) | ledger, journal, finalizations, leases; each runtime's copy of the ledger | run, replay, restore; replay of finalizations, reconcile, repair | stale copies, crashes between three files | executions end once; journal and finalizations agree with the ledger |
| Runtime Fabric recovery (`recovery_worker.py`, `recovery_supervisor.py`, `recovery_reconciler.py`, `postgres_deployment_store.py`, `deployment_state.py`) | deployment rows, leases; a worker's copy of a row | list, acquire, reconcile, put, release | unconditional writes of copies, crashes around actions, failover | deployments only move forward; a rollback is never undone or forgotten |
| NODE01 task queue (`persistent_queue.py`, `persistent_worker.py`) | task rows, receipts | submit, recover_expired, lease, complete, fail | leases nobody renews, a row read outside the transaction that takes it | superseded executions change nothing |
| Fulfillment, settlement, provider reconciliation (`payment-fulfillment.ts`, `payment-settlement.ts`, ...) | job, batch and record rows | enqueue, execute, markSettled, ... | read in one await, written in another | not modelled (section 5) |
| Provisioner (`src/infra/provisioner`) | job rows, leased queue | claim, complete, release, process_job | - | not modelled: it cannot run at this commit (section 5) |
| Everything else | - | - | - | listed in `PROJECT.json` with the reason it is left out |

Interaction. A customer pays through the link `createPayment` returned; the provider delivers
webhooks to the guard, which decides the intent; a paid intent is recorded in the ledger and
fulfilled by the orchestrator; a refund passes through `refund` -> operation store -> provider
-> operation store -> lifecycle -> ledger -> events, and `reconcileRefund` or the recovery
worker finishes it when the provider's answer was lost. Components share only durable rows;
inside one process they also share the `inFlight` map and the ledger's promise chain. In Marketing
OS, processes share three files and a directory of leases. The Runtime Fabric's workers and
NODE01's share a database each. The four places share nothing with each other. The hazards this
leads to are listed, each at its line, in `PROJECT.json`.

The payment classes are wired together by the repository's tests and by no server; the model
composes them the way `payment-orchestrator.test.ts` and the recovery tests do, on the
Supabase stores the migrations describe.

## 2. Modules

| Module | What it is |
|---|---|
| `RefundOperations` | the table of refund operations and the conditional statements run on it |
| `RefundFabric` | concurrent, crashing calls of `refund` and `reconcileRefund` over that table, the intents, the provider and the journal |
| `RefundContract` | what the refund fabric promises, without callers, crashes or quarantine |
| `RefundRecovery` | recovery workers over the same table, with claims that expire |
| `RefundSystem` | the calls of `RefundFabric` and the workers of `RefundRecovery` on one table |
| `PaymentIntents` | everything that writes the status of an intent: `createPayment`, the guard, `cancel` and `refund` of the lifecycle |
| `OutcomeRegister` | what the guard promises for each order: one outcome decided, applied once |
| `LedgerLock` | processes that append to the ledger file under its directory lock, one file operation at a time |
| `SharedLog` | what the ledger file promises to its writers, without lock, lease or file operation |
| `ExecutionRecovery` | execution, replay and startup recovery over that ledger, an append being one step |
| `ExecutionContract` | what Marketing OS promises about the executions of a key, without processes, leases, finalizations or crashes |
| `FabricRecovery` | recovery workers of the Runtime Fabric over the deployment table |
| `DeploymentContract` | what recovery promises about that table: the state machine, one transition at a time, and true records of rollbacks |
| `TaskQueue` | persistent workers over NODE01's queue |
| `TaskContract` | what the queue promises about a task, without workers or what they have read |
| `...Proofs` | theorems about the module they are named after |
| `MC...` | instances for TLC |

An action is the code between two awaits, or one transaction, or, in `LedgerLock`, one file
operation. `PROJECT.json` maps each definition to its lines. Definitions called "Mutant" alter
another one as a plausible bug would; no specification uses them.

### RefundFabric

`call[c]` is a program counter over the awaits of `PaymentOrchestrator.refund` and
`.reconcileRefund`, with the refund it is about:

```
requested -> reserve -> send -> await -> mark -> settle -> audit -> ledger -> check -> append -> event
          |     |                  `-> quarantine (throws)
          |     `-> reread -> settle (succeeded) | lookup (reconcile) | throw
          `-> joined (the promise of the call in flight)
lookup -> resolveSucceeded -> settle ...   |   lookup -> resolveFailed (throws)
```

* A refund ID `refund:<payment>:<amount>` is the record `[pay, amt]`. As in the code, two refunds
  of one payment for the same amount are the same operation.
* `reserve` is an INSERT and, after a conflict, a SELECT in a later step. `CanInsert` is both unique
  constraints of the table. A reconciliation that inserts leaves its row behind and throws.
* The caller's intent was `paid` when the call began (`Start`) and is not read again, as in the code.
* The conditional PATCH and the GET that follows when no row matched are one step: the GET only
  distinguishes rows that are terminal by then, and those no longer change.
* The provider (external) holds each refund as none, in transit, executed or rejected, and decides at any time,
  before or after the caller got an error. Its lookup reports an outcome only once there is
  one and throws while the request is in transit; it gives one provider refund ID per refund, which is the
  journal reference.
* `Group(c)` are the calls joined to the promise of `c` on the same orchestrator object (`Home`);
  they return, throw and go on to the ledger together.
* The journal is a set of refund IDs with the running sum that `getRefundedAmount` computes; `lock`
  is the promise chain of `withRefundLock`. One ledger object serves all orchestrators and its
  store is durable.
* `Throw`: any await of a store or of the lookup may reject, its statement having taken effect or not
  (the second shows as the action followed by `Throw`). `Crash`: the process dies at any point; the calls, the
  map and the lock are gone, the rows remain.

Left out: the status `requested` and `markFailed`, which nothing uses; running without an
operation store; missing or suspended merchant accounts; validation of empty strings; webhooks (`PaymentIntents`).

### RefundRecovery

A worker lists due quarantined rows (any subset: the batch has a limit), and claims, loads, reserves, looks up,
resolves, finalizes or defers, and releases each in turn.

* `claimRecovery` and `releaseRecovery` are the functions of `sql/007`; the repository has no
  adapter that calls them. A claim names its worker; `ClaimExpires` ends it at any time, under a
  worker at work (`lapsed` remembers that) or a dead one.
* The finalizer is an interface without an implementation: it returns or throws.
* The GET and the PATCH of `recordRecoveryFailure` are one step; a lost answer of `resolve*` is `AnswerLost`.
* `EntersQuarantine`, `ConfirmedAtOnce`, `Decide` and `ResolvedElsewhere` stand for `RefundFabric` and the provider, which
  have the rest of a row's life: a call of `reconcileRefund` needs no claim and may resolve a row at any time. That
  they do no more than this is `ImplementsRecovery` of `RefundSystem`.

### RefundSystem

`FabricMoves` is the next-state relation of `RefundFabric`, `WorkerMoves` that of the workers and clocks of `RefundRecovery`,
instantiated on the same table and provider. `Seen` hides a row until it is in quarantine or confirmed, which is
what a worker's queries do; with it the system implements `RefundRecovery`, environment included.
The finalizer is an interface, so a worker does not write the journal: `finalized` and `ledger` are two records of
one payment, and `FinalizedIsPaidOut` relates both to the provider.

### PaymentIntents

`worker[w]` is a program counter over the awaits of `createPayment`, `process`, `cancel` and
`refund` of the lifecycle, with the order, the outcome delivered, and the status the caller's intent had.
`UseClaims` chooses between the guard's claim store and its event-store fallback,
`HasUpdateIfStatus` between a store with compare-and-set and one without.

* Webhooks are those that pass signature verification, for orders whose link was returned to the caller. They
  are delivered any number of times, in any order, with any outcome.
* `claimed` is the row of the claim store. On the fallback path the row is the `webhook.received` event,
  which does not hold the outcome; there the variable only remembers whose handler inserted it, and
  nothing but properties reads its value.
* `applied` and `answers` are histories of the guard's writes and answers. `trail` is the set of state events.
* `Throw` ends a worker at any await: a store rejects the call, its answer is lost, or the worker dies.
* The provider's part of a refund is abstracted here to the lifecycle call that follows it; `RefundFabric`
  has it in full.

Left out: validation of the input, early returns of the lifecycle that write nothing, and the
unguarded `IzakhonoPay.processWebhook` that the guard replaces.

### LedgerLock

The lock is a directory: absent, made but without `lease.json` (`Empty`), or holding one lease. Every file
operation of `acquire`, `assertCurrent`, `release` and the append is a step, on whatever directory is at the path by then:

```
calling -mkdir-> made -writeFile-> locked -> fenced -> loaded -> written -> done -> removing -> removed -> idle
       `-> reading -> stale -rename-> quarantined -mkdir-> made                 `failed'
```

* A lease is named by its owner and the number of the call it was made for, which stands for
  `acquiredAt`. It lapses at any moment: a process may be paused, and expiry is compared with the clock of the reader.
* The ledger is the list of sequence numbers of its lines, written whole.
* Any file operation may fail. Within the append, `release` still runs; in `acquire` or `release` the append throws and the directory stays
  as it is (`Crash` stands for that as for the death of the process). `WriteLeaseFails` is `writeFile` after `mkdir`: ENOENT, or an error that
  leaves the new directory without `lease.json`, or that of another process truncated, and the process alive. `wedged` remembers
  that such a failure left the `Empty` directory that is there now.
* `rm` unlinks the file, then removes the directory, and throws if somebody has written a lease in between.
* A retry after `is held` or `contention` may always give up, which the ten seconds of the code allow.

Left out: `renew`, which the ledger lock never calls.

### ExecutionRecovery

Each process goes `down -> replay -> scan -> starting -> up`, or straight to `starting` when another
holds the startup lease; `Prepare`, `AppendTarget`, `RecordJournal` and `Commit` are the four durable writes of a
reconciliation, and a crash or an error may fall between any two. `call[c]` is a run or replay that executes under
the lease of its key, on the copy (`memory`) its runtime restored.

* An append is one step that fails unless the sequence number follows the last one. `LedgerLock` shows this as long as
  no ledger lease lapses, and that otherwise no number is acknowledged twice.
* The lease of a live holder does not lapse: a heartbeat renews it every third of its time. That of
  a dead process stays until it expires. A process does not take over its own lapsed lease.
* Finalizations and records are taken in any order; `recordedAt` is dropped; a full disk (`MaxLedger`) refuses
  the next record. A wedged ledger lock (`OnlyAFailureWedges`) is `LedgerLock`'s subject and does not occur here.
* The report's journal mismatches never arise, by `JournalIsBacked`, so no action treats them.

### FabricRecovery

A worker works on a copy of the record it listed; `put` writes the whole copy back. `ALLOWED` and `Transition` are the state
machine of `deployment_state.py`. The adapter is the environment: node health changes at will, its calls
return or raise, and `resume_action` may advance the copy by one transition.

* Checkpoint, attempts, metadata and workload are dropped; the list comes in any order; an expired
  lease is as good as deleted; nothing renews one.
* `undone` remembers that a rollback action succeeded, `overrun` that a lease expired under its worker.
* Owner IDs are unique, as `RECOVERY-RUNNER.md` asks. No process but the recovery workers writes the deployments at
  hand, which are interrupted ones.

### TaskQueue

`run_once` is `RecoverExpired`, `Select`, `Take` (or `Miss`), `Execute`, then `Complete` or `Fail`. A transaction is one step;
the SELECT is outside the transaction of the UPDATE, so a worker may take a row that is out of date.

* A task stands for its idempotency key. Its order and capabilities are dropped: a worker may find any queued
  task, or none.
* `Lapse` ends the time of a lease whenever it likes, since nothing renews one; `Raise` is a raising statement or a dying process.
* Each worker is a process with a connection and an ID of its own.

## 3. Runs

| Run | Instance | Shows |
|---|---|---|
| `refund_fabric` | one payment of 2 units, refunds of 1 and 2, three callers, two of them on one object | type correctness and the safety properties; implements `RefundContract` (about 400,000 states up to symmetry) |
| `refund_recovery` | two payments with one refund each, two workers | safety of the recovery worker (about 892,000 states) |
| `refund_system` | one payment refunded in full, two callers that share an object, store without compare-and-set, a recovery worker, fairness of the calls | calls and workers together: quarantine, `RefundRecovery` as an abstraction of the calls, and every call returns or throws (about 81,000 states) |
| `payment_intents` | one order, three outcomes (two successes with different provider IDs, one failure), three workers, claims and compare-and-set | safety, `PaidIsFinal`, implements `OutcomeRegister` (about 229,000 states) |
| `payment_intents_events` | two workers, event-store fallback, no compare-and-set | implements `OutcomeRegister` there too |
| `ledger_lock` | three writers, one append each | safety of the lock and the file; implements `SharedLog` (about 66,000 states) |
| `execution_recovery` | two processes, two keys, two calls, two attempts, three records | safety of execution and recovery; implements `ExecutionContract` (about 412,000 states) |
| `fabric_recovery` | one deployment, two workers, two nodes | safety of recovery; implements `DeploymentContract` (about 535,000 states) |
| `task_queue` | two tasks, three workers, two attempts, three leases per task | safety of the queue; implements `TaskContract` (about 177,000 states) |
| `refund_recoverable`, `intents_lost`, `runs_concurrent` | two callers, workers or processes | three statements of the repository that the code does not keep (section 6) |

Properties:

* Refunds: `SingleFlight` (one refund of a payment at the provider at a time), `AtMostOneRequest`,
  `OutcomeIsTrue` (terminal rows agree with the provider), `RecordsAreConfirmed` (journal, intent and event follow a
  confirmed row), `LedgerWithinPayment`, `OneRefundedEvent`, `QuarantineHolds`, `ImplementsContract`.
* Recovery worker: `FinalizedOnceUntilLapse`, `ResolutionIsTrue`, `OnlyFailureAbandons` (a refund resolved and
  never finalized is lost to a failure, not to a race).
* Calls and workers: `SystemQuarantineHolds`, `ImplementsRecovery`, `CallsReturn`.
* Intents: `OneLink`, `PaidIsClaimed`, `RejectedIsContradictory`, `PaidIsFinal`, `ImplementsRegister`.
* Ledger lock: `ExclusiveUntilLapse`, `AcknowledgedOnce` (which needs no assumption on
  leases), `OnlyAFailureWedges` (no race leaves a lock without `lease.json`; a death or a failed file operation does), `ImplementsLog`.
  `ExclusiveUntilLapse` stops at the first lapse, even of a dead holder's lease: two processes that find the same expired lease may both
  end up inside, and the other three say what that costs.
* Execution: `MemoryIsPrefix`, `TerminalIsFinal`, `AttemptsInOrder`, `CommittedIsDurable`, `ImplementsContract`.
* Runtime Fabric: `ReplacementIsRecorded` (a deployment with a node is resumed only where the store says it is), `ImplementsContract`.
* Task queue: `OnlyOwnerEnds` (an unexpired lease is ended in the execution it was taken for), `ImplementsContract`.

What a contract says in one piece is also stated in parts, each a theorem of section 4 and no property of a run, since a step that
broke it would break the contract in the same run: `ContiguousUntilLapse` of the ledger file; `JournalIsBacked` and `JournalIsFinal` (a terminal decision in the journal is the
ledger's and is never replaced); `UndoneIsRecorded` and `OnlyForwardUntilLapse` of a deployment; `EndsOnce` and `GivenUpLate` (never before
`max_attempts` executions) of a task; `FinalizedIsPaidOut` (whoever concluded it, a finalized or journaled refund was paid out after
one request), which follows from the properties of calls and workers together.

The contracts name the same limits where they have them: `SharedLog` its fence, `DeploymentContract` its loose
deployments. `TaskContract`, `ExecutionContract`, `RefundContract` and `OutcomeRegister` have none.

Properties named `...UntilLapse`, and those that except `lapsed` or `overrun`, say nothing of the time after
a lease expired under a live holder: the code has no fencing there, and `put`, for one, then overwrites the
record of the worker that took over. The hazards say so line by line.

Bounds. The state spaces of `RefundFabric`, `PaymentIntents`, `RefundRecovery` and `FabricRecovery` are finite by themselves. Named
bounds cut off three others: `MaxCalls` (appends a writer starts; one is enough for three leases in
succession and for two takeovers of one lock), `MaxLedger` (a full disk, which the code must survive anyway; three records hold two attempts of
one key beside another key, or an execution, its observation and a competitor for the number) and `MaxTakes` (one
lease more than `MaxAttempts`, so that the limit can be passed).

* One payment is enough in `refund_fabric` because no statement relates two payments but the ledger lock, which
  serializes them in the same way as calls of one payment. Amounts 1 and 2 of a payment of 2 give a partial refund, a full one, two that exceed
  the payment, and equal ones. Three callers give a leader with a joined call and a third on another object, a
  reconciliation beside both, and a waiter while the lock changes hands.
* In `refund_system` one amount and one worker are enough: calls and workers meet at a row. Two refunds of one payment meet in
  `refund_fabric`, two workers in `refund_recovery`. A refund and a reconciliation of the same row wait for the ledger lock there as two
  refunds would.
* One order is enough because orders share nothing. The same holds of deployments; a list of several adds only the order
  of visits. Two payments in `refund_recovery` make a batch in which one row fails and the other has its turn.
* Two workers race; the third in `ledger_lock` finds the lock of a takeover that is under way, and in
  `task_queue` it uses up the attempts of a task between the SELECT and the UPDATE of another.
* The theorems below hold for any number of each.

Symmetric sets are those whose members the specification treats alike; every run with symmetry checks safety only.
`refund_system` checks liveness and uses none.

Deadlock is not checked. A payment refunded in full accepts no further call, an appender that has made
its `MaxCalls` appends is done, a lock wedged by a failure stays wedged, and a task that has ended is not taken again: these
models stop, rightly.

Fairness is assumed in `refund_system` only. `FairSystemSpec` asks for weak fairness of each call's own steps: a
promise settles, with an answer, an error or a timeout of the HTTP client. It asks for strong fairness of entering the refund
lock, because the waiters of `withRefundLock` form a chain of promises and are served in order. Nothing is
assumed of the provider, of crashes, or of callers starting. The recovery workers promise no liveness: a
deterministic error of the adapter or the finalizer stops them for good.

Every property has a mutant in `PROJECT.json`, under which its run fails.

## 4. Theorems

For every value of the constants (sets of payments, amounts, callers, workers, writers, processes, keys, deployments,
nodes, tasks of any size; any limits), tlapm checks:

| Module | Theorems |
|---|---|
| `RefundFabricProofs` | `TypeCorrect`, `Invariance`, `SingleFlightHolds`, `AtMostOneRequestHolds`, `OutcomeIsTrueHolds`, `RecordsAreConfirmedHolds`, `LedgerWithinPaymentHolds`, `OneRefundedEventHolds`, `QuarantineIsKept`, `Refinement` |
| `RefundSystemProofs` | `SystemInvariance`, `RecoveryRefinement`, `SystemRefinement`, `SystemQuarantineIsKept`, `FinalizedIsPaidOutHolds`, `WorkersKeepTheirPromises` |
| `PaymentIntentsProofs` | `TypeCorrect`, `Invariance`, `OneLinkHolds`, `PaidIsClaimedHolds`, `RejectedIsContradictoryHolds`, `PaidIsFinalHolds`, `Refinement` |
| `RefundRecoveryProofs` | `TypeCorrect`, `ClaimedOnceUntilLapseHolds`, `FinalizedOnceUntilLapseHolds`, `ResolutionIsTrueHolds`, `OnlyFailureAbandonsHolds`, `NoLookupBeforeDueHolds` |
| `LedgerLockProofs` | `TypeCorrect`, `ExclusionInvariant`, `Exclusive`, `ReadableUntilLapse`, `AcknowledgedOnceHolds`, `OnlyAFailureWedgesHolds`, `LogRefinement` |
| `ExecutionRecoveryProofs` | `TypeCorrect`, `RecoveryInvariant`, `CommittedIsDurableHolds`, `Invariance`, `MemoryIsPrefixHolds`, `TerminalIsFinalHolds`, `AttemptsInOrderHolds`, `JournalIsBackedHolds`, `ReconcileInvariant`, `JournalIsFinalHolds`, `Refinement` |
| `FabricRecoveryProofs` | `TypeCorrect`, `ExclusiveUntilLapseHolds`, `ReplacementIsRecordedHolds`, `UndoneIsRecordedHolds`, `OnlyForwardUntilLapseHolds`, `Refinement` |
| `TaskQueueProofs` | `TypeCorrect`, `Invariance`, `OnlyOwnerEndsHolds`, `EndsOnceHolds`, `GivenUpLateHolds`, `Refinement` |

Assumptions. Amounts and payment amounts are positive naturals, limits are naturals, the null values (`None`, `Free`, `Dead`,
`Absent`, `Empty`) are not among the values they stand beside, and switches are Booleans. Three theorems assume
a switch: `RejectedIsContradictoryHolds` assumes `UseClaims`, `PaidIsFinalHolds` and `OneRefundedEventHolds` assume
`HasUpdateIfStatus`. The others hold for both values.

No property is inductive by itself. What the code relies on and states nowhere is in the invariants:

* **RefundFabric**, `IInv`. `OneActive`: a payment has at most one processing row. `OwnersHoldRows`: a refund call between
  its reservation and its confirmation owns the row it reserved, which is processing, not in quarantine, and worked on by
  no other call. `RequestsFollowRows`: requests and the provider's state agree, a row that does not exist was never
  requested, a quarantined one was. `CallsKnow`: what a call learned before an await is still so after it.
  `LedgerIsLocked`: the call inside the ledger holds the lock, and one about to append has room. Lemmas about the
  helpers (`GotoEach`, `ReturnEach`, `GroupShares`, `InsertEach`, `TerminalEach`, `QuarantineEach`) say what a step does
  to each caller and each row; `InductiveStep` goes through `Next` action by action. `SingleFlight` follows from `OneActive`
  and `OwnersHoldRows`. The refinement maps a row's status to the contract's outcome, `StepImplements` being the case analysis.
  `OneTransition` stands apart: the call that moved the intent out of `paid` is the only one at the append of the state event.
* **RefundSystem**, `SystemOK`: the invariants of both sides, each kept by its own steps as its own module proves, so what is left
  is what the other side does to it. A worker's step is one of `RefundRecovery` on the rows as seen (`WorkerImplements`), a call's step is
  one of its environment's or changes nothing seen (`FabricImplements`), and a worker resolves only rows in quarantine,
  as the provider decided (`WorkerConcludes`), which disturbs no call (`WorkersDisturbNoCall`). The theorems about `RefundRecovery` are then
  cited through an instance of its proof module.
* **PaymentIntents**, `Settlement`. `CreatorsOK`: the worker past its INSERT is the only creator of its order, and the link is not
  delivered yet. `DeliveriesOK`: a handler holds the claim of its order, alone, and nothing was applied before it does.
  `PaidOK`: what is paid, or about to be refunded, was claimed by a success and applied. `LifecycleOK` bounds what `cancel` and
  `refund` may write. `DecisionsOK` adds what the fallback path knows of its events, for the refinement, and `VerdictsOK` the
  answers given under claims.
* **RefundRecovery**, `RecoveryOK`. `Knows`: a worker at a refund whose claim has not lapsed holds the claim, and what it was told of the
  row is so. `Alone`: nobody else is at that refund. With them `ResolutionIsTrue`, `FinalizedOnceUntilLapse` and `OnlyFailureAbandons`; the
  lemma about `Settles` says what resolving a row does to all of them.
* **LedgerLock**. `Exclusion`, until a lease lapses: nobody takes a lock over, one writer at most has made, holds or is removing
  it, and the lock of a writer inside is its own. `TailOK`: the number it read is still the next. `Acknowledgement` needs
  no such assumption: a writer that sees its own lease after the write has a number above every acknowledged one.
  `Stored`, for the refinement: what a writer has written is in the file, and is its last line until a lease lapses.
* **ExecutionRecovery**, in three layers. `RecoveryOK`: every known finalization is backed by its source in the ledger and, once past
  its append, by its target; the ledger only grows. `RuntimeOK`: a call that executes holds the lease of its key, its
  runtime is up, and its copy, a prefix of the ledger, has the key open; so whatever follows a terminal receipt would have a number that
  is taken. `CallsAttempt`: a call carries the attempt after all those its copy has of the key, which gives `AttemptsInOrder`.
  `JournalOK`: a terminal entry of the journal is in the ledger, and by `TerminalIsFinal` it is the latest.
  `ReconcileOK`, a fourth layer, is why the journal is final although `record` overwrites: only the holder of the startup lease writes it,
  prepared finalizations have different keys (`PreparedOK`), replay ends with none left, and each entry of the scan is the only one of its key, has no
  finalization, and is not decided yet (`ScanOK`). For the refinement a key's receipts are the set of attempts and outcomes in its records (`View`), so that an
  observation recorded again is a stutter.
* **FabricRecovery**, `FabricOK`. `Holds`: a worker whose lease has not expired under it has the lease. `InStepOK`: then its copy is the
  stored record but for what its step is about to write: a mark, a node, one transition of the adapter (`Resumes`), or the true outcome of a
  rollback (`Concludes`). `UndoneIsRecorded` goes with them. Each write is thus the next step of `DeploymentContract`.
* **TaskQueue**, `IInv`. `Knows`: the attempt a worker read is not ahead of the row's, and while it owns its task
  no other execution was started since it took it. Whatever the attempt it read, `fail` therefore gives up late enough (`GivesUpLate`), which
  is the one step of `TaskContract` that does not follow from the statements themselves.

Only model-checked: `CallsReturn`. Liveness, enabledness and recursive operators are beyond the prover; no module uses
the last. Every other property of a passing run has a theorem.

## 5. Not modelled

* *recordPaid, fulfillment, settlement and provider reconciliation records.* They read a record in one await and write it in another,
  with no lock, version or recovery, and no document says what the loser of such a race should see; the durable ledger store they would share is not
  in the repository. The hazards name the races.
* *The provisioner.* `worker_runtime.py:9` imports `ExecutionResult`, which `execution_contract.py` does not define, and line 109 calls
  `validate_result` with one of its two arguments; `service.py` and `durable_worker_runtime.py` import that module. There is no
  behaviour to be faithful to.
* *Runtime Fabric: activation transaction, workload activation, timeline, observability.* They run within one call of the adapter, or only report.
* *NODE01: engine, orchestrator, router, `DistributedCoordinator`, `RecoveryEngine`.* State of one process, the coordinator's under one lock.
* *Lease renewal* (`execution-lease.ts`, `persistent_queue.py`): the ledger lock and the queue's workers never call it; where a heartbeat
  does, `ExecutionRecovery` takes it as successful, and the hazard at `execution-lease.ts:124` says what that leaves out.
* *The service bus, the engine shell, HTTP and signatures*: no state that two steps share.
* *The builder worker, the core data runtime, the group ledger, the earlier payment gateway, the autonomy registries and all
  sites, media and campaigns*: request handlers over single SQL statements, single-process registries, or content.

## 6. What the code does otherwise than it says

Three statements are runs that TLC finds violated:

* `ProcessingIsRecoverable` - `sql/005:2` calls operations in processing recoverable. A process that dies after it sent the request, as in
  the trace, or a lost `markSucceeded` or `markReconciliationRequired`, leaves a row that recovery does not list and `reserve` answers
  `active` for ever, although the refund may be paid out. (A row that `reconcileRefund` inserts for a refund nobody requested,
  `payment-refund-recovery.ts:20-23`, stays too; the statement leaves it out.)
* `AcknowledgedIsPaid` - a handler dies after its claim; its redelivery is acknowledged and the payment is never recorded.
* `ConcurrentRunsPersist` - `execution-runtime.test.ts:101` asserts that concurrent runtimes persist both receipts. The second one numbers its receipt from its own copy
  of the ledger, the number is taken, and an execution that took place leaves no receipt.

The models also show the following, which no run states:

* `PaidIsFinal` holds with compare-and-set only. `sql/003:31-32` says stale workers cannot win, but nothing calls the function it
  describes and `SupabasePaymentStore` has no `updateIfStatus`: there a stale cancel overwrites `paid`.
* `RejectedIsContradictory` holds with claims only: on the fallback path a duplicate that races its own first delivery is rejected as contradictory.
* `payment-ledger.ts:174-175` refuses refunds that exceed the payment after the money has moved: a refund of 1 and then of 2 on a payment of 2 are both
  sent to the provider. The journal itself stays within the payment (`LedgerWithinPayment`).
* The target of a finalization has the number after its source (`reconciliation-runtime.ts:94`). When another record has it, the finalization stays prepared, and
  replaying it (line 65) aborts every later startup that gets the startup lease.
* `execution-lease.ts:80-86` and `101-110` rethrow a failed `writeFile` and leave the directory they made. It has no `lease.json`, so every
  later `acquire` throws an error that the append does not retry, and nothing removes it: the ledger accepts no append until somebody does.
* A deployment without a node is given to `resume_action` as it is (`recovery_reconciler.py:82`, `92`). Where that places it is stored by
  the `put` that follows, so a crash or an exception in between leaves a workload on a node no record names.
* `persistent_queue.py:115` returns the attempt of a row that other workers may have tried since. `PERSISTENT-RUNTIME.md` says failures are
  requeued "until the configured attempt limit"; a failure by such a worker requeues a task beyond it. `GivenUpLate` and `TaskContract` have the direction that holds.
