-------------------------- MODULE ExecutionContract --------------------------
(***************************************************************************)
(* What Marketing OS promises about the executions of each idempotency     *)
(* key, with no process, ledger position, lease, finalization or crash in  *)
(* sight: attempts are numbered without gaps, only the latest one may be   *)
(* observed again, nothing is added to a key that is complete or           *)
(* dead-lettered, the last attempt is not retried, and the decision        *)
(* published for a key was told by one of its receipts and, once terminal, *)
(* stays.                                                                  *)
(***************************************************************************)
EXTENDS Naturals

CONSTANTS Keys, MaxAttempts, Terminal, NextActions

VARIABLES receipts,  \* of each key, what the receipts of its executions say
          decision   \* the decision published for it

contractVars == <<receipts, decision>>

ContractInit ==
  /\ receipts = [k \in Keys |-> {}]
  /\ decision = [k \in Keys |-> "none"]

Attempts(k) == {r.attempt : r \in receipts[k]}

Open(k) == \A r \in receipts[k] : r.next \notin Terminal

Tell(k, attempt, next) ==
  /\ Open(k)
  /\ next = "retry" => attempt < MaxAttempts
  /\ receipts' = [receipts EXCEPT ![k] = @ \union {[attempt |-> attempt, next |-> next]}]
  /\ UNCHANGED decision

\* The first attempt, or the one after the latest.
Execute(k) ==
  \E attempt \in 1..MaxAttempts, next \in NextActions :
    /\ \A a \in Attempts(k) : a < attempt
    /\ attempt > 1 => attempt - 1 \in Attempts(k)
    /\ Tell(k, attempt, next)

\* What the provider says of the latest attempt later.
Observe(k) ==
  \E attempt \in Attempts(k), next \in NextActions :
    /\ \A a \in Attempts(k) : a <= attempt
    /\ Tell(k, attempt, next)

Publish(k) ==
  /\ decision[k] \notin Terminal
  /\ \E r \in receipts[k] : decision' = [decision EXCEPT ![k] = r.next]
  /\ UNCHANGED receipts

ContractNext == \E k \in Keys : Execute(k) \/ Observe(k) \/ Publish(k)

ContractSpec == ContractInit /\ [][ContractNext]_contractVars
=============================================================================
