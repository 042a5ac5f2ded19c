------------------------------ MODULE TaskQueue ------------------------------
(***************************************************************************)
(* The durable task queue of NODE01 (SQLiteTaskQueue) under several        *)
(* PersistentWorkers, each a process with its own connection to the file.  *)
(* run_once returns expired leases to the queue, reads a queued row, takes *)
(* it with a conditional UPDATE, runs the handler and completes or fails   *)
(* the task; only the owner named in the row may do either.                *)
(*                                                                         *)
(* A task stands for its idempotency key.  A transaction is one step.  The *)
(* order of created_at and the capabilities are left out: a worker may     *)
(* find any queued task, or none.  Nothing calls renew.                    *)
(***************************************************************************)
EXTENDS Naturals

CONSTANTS Tasks,        \* idempotency keys
          Workers,      \* worker IDs, each in use by one process at a time
          MaxAttempts,  \* max_attempts of the queue
          MaxTakes,     \* bound: how often a task is leased
          None          \* no owner, no task

ASSUME QueueAssumption ==
  /\ MaxAttempts \in Nat \ {0} /\ MaxTakes \in Nat
  /\ None \notin Tasks \union Workers

VARIABLES status,   \* rows of tasks: status,
          attempt,  \*   attempt
          owner,    \*   and lease_owner
          lapsed,   \* leased tasks whose lease_until has passed
          receipt,  \* receipts: the worker_id of a task's receipt
          pc,       \* where each worker is in run_once
          at,       \* the task it has read or leased
          seen,     \* the attempt of the row it read
          take      \* history: the attempt of the row when it took the lease

vars == <<status, attempt, owner, lapsed, receipt, pc, at, seen, take>>

Init ==
  /\ status = [t \in Tasks |-> "absent"]
  /\ attempt = [t \in Tasks |-> 0]
  /\ owner = [t \in Tasks |-> None]
  /\ lapsed = {}
  /\ receipt = [t \in Tasks |-> None]
  /\ pc = [w \in Workers |-> "idle"]
  /\ at = [w \in Workers |-> None]
  /\ seen = [w \in Workers |-> 0]
  /\ take = [w \in Workers |-> 0]

Goto(w, label) == pc' = [pc EXCEPT ![w] = label]

\* Mutant: run_once returns with its lease in hand.
ReturnKeepingTask(w) ==
  /\ Goto(w, "idle")
  /\ UNCHANGED <<at, seen, take>>

\* run_once returns, or throws.
Return(w) ==
  /\ Goto(w, "idle")
  /\ at' = [at EXCEPT ![w] = None]
  /\ seen' = [seen EXCEPT ![w] = 0]
  /\ take' = [take EXCEPT ![w] = 0]

\* submit: a key that is known raises and changes nothing.
Submit(t) ==
  /\ status[t] = "absent"
  /\ status' = [status EXCEPT ![t] = "queued"]
  /\ UNCHANGED <<attempt, owner, lapsed, receipt, pc, at, seen, take>>

\* lease: recover_expired, a transaction of its own.
RecoverExpired(w) ==
  /\ pc[w] = "idle"
  /\ status' = [t \in Tasks |-> IF t \in lapsed THEN "queued" ELSE status[t]]
  /\ owner' = [t \in Tasks |-> IF t \in lapsed THEN None ELSE owner[t]]
  /\ lapsed' = {}
  /\ Goto(w, "select")
  /\ UNCHANGED <<attempt, receipt, at, seen, take>>

\* ... then the SELECT of a queued task, outside any transaction,
Select(w) ==
  /\ pc[w] = "select"
  /\ \/ \E t \in Tasks :
          /\ status[t] = "queued"
          /\ at' = [at EXCEPT ![w] = t]
          /\ seen' = [seen EXCEPT ![w] = attempt[t]]
          /\ Goto(w, "take")
          /\ UNCHANGED take
     \/ Return(w)
  /\ UNCHANGED <<status, attempt, owner, lapsed, receipt>>

\* Mutant of Take: the UPDATE does not ask again whether the task is queued.
TakeAsRead(w) ==
  /\ pc[w] = "take" /\ attempt[at[w]] < MaxTakes
  /\ status' = [status EXCEPT ![at[w]] = "leased"]
  /\ attempt' = [attempt EXCEPT ![at[w]] = @ + 1]
  /\ owner' = [owner EXCEPT ![at[w]] = w]
  /\ take' = [take EXCEPT ![w] = attempt[at[w]] + 1]
  /\ Goto(w, "run")
  /\ UNCHANGED <<lapsed, receipt, at, seen>>

\* ... and the UPDATE, which takes the task if it is queued, whatever has happened to it
\* since it was read, and counts the attempt in the row.
Take(w) ==
  /\ pc[w] = "take"
  /\ status[at[w]] = "queued" /\ attempt[at[w]] < MaxTakes
  /\ status' = [status EXCEPT ![at[w]] = "leased"]
  /\ attempt' = [attempt EXCEPT ![at[w]] = @ + 1]
  /\ owner' = [owner EXCEPT ![at[w]] = w]
  /\ take' = [take EXCEPT ![w] = attempt[at[w]] + 1]
  /\ Goto(w, "run")
  /\ UNCHANGED <<lapsed, receipt, at, seen>>

\* ... or finds it taken: lease returns None.
Miss(w) ==
  /\ pc[w] = "take" /\ status[at[w]] # "queued"
  /\ Return(w)
  /\ UNCHANGED <<status, attempt, owner, lapsed, receipt>>

\* _execute: the handler returns, or raises or is missing.
Execute(w) ==
  /\ pc[w] = "run"
  /\ \E label \in {"complete", "fail"} : Goto(w, label)
  /\ UNCHANGED <<status, attempt, owner, lapsed, receipt, at, seen, take>>

\* Mutant: the row is leased, by whomever.
OwnsLeased(w) == status[at[w]] = "leased"

\* The predicate of the UPDATE of complete and fail.
Owns(w) == status[at[w]] = "leased" /\ owner[at[w]] = w

\* The lease of w's task ends with its row in status s.
EndLease(w, s) ==
  /\ status' = [status EXCEPT ![at[w]] = s]
  /\ owner' = [owner EXCEPT ![at[w]] = None]
  /\ lapsed' = lapsed \ {at[w]}

\* complete: the row and its receipt are one transaction.
Complete(w) ==
  /\ pc[w] = "complete" /\ Owns(w)
  /\ EndLease(w, "completed")
  /\ receipt' = [receipt EXCEPT ![at[w]] = w]
  /\ Return(w)
  /\ UNCHANGED attempt

\* complete raises, because the lease is lost or the store fails: _execute calls fail.
CompleteRaises(w) ==
  /\ pc[w] = "complete"
  /\ Goto(w, "fail")
  /\ UNCHANGED <<status, attempt, owner, lapsed, receipt, at, seen, take>>

\* fail decides by the attempt of the lease, which is one more than the row read.
StatusAfterFailure(w) == IF seen[w] + 1 >= MaxAttempts THEN "dead_letter" ELSE "queued"

\* fail.
Fail(w) ==
  /\ pc[w] = "fail" /\ Owns(w)
  /\ EndLease(w, StatusAfterFailure(w))
  /\ Return(w)
  /\ UNCHANGED <<attempt, receipt>>

\* A statement raises, PermissionError included, or the process dies: run_once does not
\* return, and a worker of the same ID starts anew.  A commit whose answer is lost is the
\* step before this one.
Raise(w) ==
  /\ pc[w] # "idle"
  /\ Return(w)
  /\ UNCHANGED <<status, attempt, owner, lapsed, receipt>>

\* lease_until passes, under a worker at work or a dead one.
Lapse(t) ==
  /\ status[t] = "leased" /\ t \notin lapsed
  /\ lapsed' = lapsed \union {t}
  /\ UNCHANGED <<status, attempt, owner, receipt, pc, at, seen, take>>

Step(w) ==
  \/ RecoverExpired(w) \/ Select(w) \/ Take(w) \/ Miss(w) \/ Execute(w) \/ Complete(w)
  \/ CompleteRaises(w) \/ Fail(w) \/ Raise(w)

Next == (\E w \in Workers : Step(w)) \/ (\E t \in Tasks : Submit(t) \/ Lapse(t))

Spec == Init /\ [][Next]_vars

-----------------------------------------------------------------------------
Executing == {"run", "complete", "fail"}

\* Types; a row has an owner exactly while it is leased, and a worker is at a task exactly
\* between its SELECT and its return (SQLiteTaskQueue, PersistentWorker).
TypeOK ==
  /\ status \in [Tasks -> {"absent", "queued", "leased", "completed", "dead_letter"}]
  /\ attempt \in [Tasks -> 0 .. MaxTakes]
  /\ owner \in [Tasks -> Workers \union {None}]
  /\ receipt \in [Tasks -> Workers \union {None}]
  /\ pc \in [Workers -> Executing \union {"idle", "select", "take"}]
  /\ at \in [Workers -> Tasks \union {None}]
  /\ seen \in [Workers -> 0 .. MaxTakes] /\ take \in [Workers -> 0 .. MaxTakes]
  /\ \A t \in Tasks : owner[t] # None <=> status[t] = "leased"
  /\ lapsed \subseteq {t \in Tasks : status[t] = "leased"}
  /\ \A w \in Workers : at[w] # None <=> pc[w] \in Executing \union {"take"}

\* A worker whose lease was taken over cannot tell until it writes.  Whatever it then does,
\* an unexpired lease is ended by the worker that took it, in the execution it was taken
\* for, and by nobody else (complete, fail: "lease ownership lost").
OnlyOwnerEnds ==
  [][\A t \in Tasks \ lapsed :
       status[t] = "leased" /\ status'[t] # "leased" =>
         \E w \in Workers : /\ at[w] = t /\ pc[w] \in Executing /\ pc'[w] = "idle"
                            /\ owner[t] = w /\ take[w] = attempt[t]]_vars

\* However many executions of a task were started, interrupted and superseded, it is
\* completed once, with the receipt of that completion, and never leaves the state it ended
\* in: neither a late result nor a late failure of an earlier execution reopens it.
EndsOnce ==
  [][\A t \in Tasks :
       /\ status[t] \in {"completed", "dead_letter"} =>
            status'[t] = status[t] /\ receipt'[t] = receipt[t]
       /\ receipt'[t] # receipt[t] =>
            receipt'[t] = owner[t] /\ status'[t] = "completed"]_vars

\* fail goes by the attempt of a row that may be out of date: it may let a task be tried too
\* often, but it never gives one up before max_attempts executions were started.
GivenUpLate ==
  \A t \in Tasks : status[t] = "dead_letter" => attempt[t] >= MaxAttempts

\* TaskContract, of the rows.
Contract == INSTANCE TaskContract WITH starts <- attempt, holder <- owner, expired <- lapsed

\* The workers act on rows that may be out of date and on leases that may be gone, and
\* between them keep the contract (SQLiteTaskQueue under PersistentWorker.run_once).
ImplementsContract == Contract!ContractSpec
=============================================================================
