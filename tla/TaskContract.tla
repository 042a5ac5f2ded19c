----------------------------- MODULE TaskContract -----------------------------
(***************************************************************************)
(* What the task queue of NODE01 promises to whoever submits a task, with  *)
(* no worker, row read, handler or crash in sight.  An execution is        *)
(* started for one holder at a time.  It ends with that holder's receipt,  *)
(* or the task is queued again, or, after enough executions, given up; an  *)
(* execution that was superseded has no say in any of it.                  *)
(***************************************************************************)
EXTENDS Naturals

CONSTANTS Tasks, Workers, MaxAttempts, None

VARIABLES status,   \* where each task is
          starts,   \* how many executions of it were started
          holder,   \* for whom the current one was
          expired,  \* tasks whose current execution has run out of time
          receipt   \* whose execution completed the task

contractVars == <<status, starts, holder, expired, receipt>>

ContractInit ==
  /\ status = [t \in Tasks |-> "absent"]
  /\ starts = [t \in Tasks |-> 0]
  /\ holder = [t \in Tasks |-> None]
  /\ expired = {}
  /\ receipt = [t \in Tasks |-> None]

Enqueue(t) ==
  /\ status[t] = "absent"
  /\ status' = [status EXCEPT ![t] = "queued"]
  /\ UNCHANGED <<starts, holder, expired, receipt>>

Start(t, w) ==
  /\ status[t] = "queued"
  /\ status' = [status EXCEPT ![t] = "leased"]
  /\ starts' = [starts EXCEPT ![t] = @ + 1]
  /\ holder' = [holder EXCEPT ![t] = w]
  /\ UNCHANGED <<expired, receipt>>

\* The execution of t is over, and nobody's any more.
End(t, s) ==
  /\ status[t] = "leased"
  /\ status' = [status EXCEPT ![t] = s]
  /\ holder' = [holder EXCEPT ![t] = None]
  /\ expired' = expired \ {t}
  /\ UNCHANGED starts

Succeed(t) ==
  /\ End(t, "completed")
  /\ receipt' = [receipt EXCEPT ![t] = holder[t]]

TryAgain(t) == End(t, "queued") /\ UNCHANGED receipt

GiveUp(t) ==
  /\ starts[t] >= MaxAttempts
  /\ End(t, "dead_letter")
  /\ UNCHANGED receipt

RunOut(t) ==
  /\ status[t] = "leased"
  /\ expired' = expired \union {t}
  /\ UNCHANGED <<status, starts, holder, receipt>>

\* Everything that ran out of time is queued again.
Requeue ==
  /\ status' = [t \in Tasks |-> IF t \in expired THEN "queued" ELSE status[t]]
  /\ holder' = [t \in Tasks |-> IF t \in expired THEN None ELSE holder[t]]
  /\ expired' = {}
  /\ UNCHANGED <<starts, receipt>>

ContractNext ==
  \/ Requeue
  \/ \E t \in Tasks : Enqueue(t) \/ Succeed(t) \/ TryAgain(t) \/ GiveUp(t) \/ RunOut(t)
  \/ \E t \in Tasks, w \in Workers : Start(t, w)

ContractSpec == ContractInit /\ [][ContractNext]_contractVars
=============================================================================
