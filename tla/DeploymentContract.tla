-------------------------- MODULE DeploymentContract --------------------------
(***************************************************************************)
(* What recovery in the Runtime Fabric promises about the deployment       *)
(* table, with no worker, lease, copy or crash in sight.  Each change of a *)
(* record is one transition of the state machine: an active deployment     *)
(* advances where it runs or moves to another node; a rollback is first    *)
(* recorded, then carried out, and its outcome recorded is what was        *)
(* carried out.  A deployment at which a lease expired under its worker is *)
(* loose: of it nothing is promised.                                       *)
(***************************************************************************)
CONSTANTS Deployments, Nodes, None,
          Records,   \* [state, node]
          TERMINAL, Undoing,
          ALLOWED    \* the transitions of the state machine

VARIABLES table,   \* the record of each deployment
          undone,  \* deployments a rollback action undid
          loose    \* deployments at which a lease expired under a worker

contractVars == <<table, undone, loose>>

ContractInit ==
  /\ table = [d \in Deployments |-> [state |-> "CREATED", node |-> None]]
  /\ undone = {} /\ loose = {}

State(d) == table[d].state

Active(d) == State(d) \notin TERMINAL \union Undoing

Record(d, r) == table' = [table EXCEPT ![d] = r]

\* One transition on, on its node; a deployment without one may be placed.
Advance(d) ==
  /\ Active(d)
  /\ \E r \in Records :
       /\ r.state = State(d) \/ r.state \in ALLOWED[State(d)]
       /\ table[d].node # None => r.node = table[d].node
       /\ Record(d, r)
  /\ UNCHANGED undone

Move(d) ==
  /\ Active(d)
  /\ \E n \in Nodes : Record(d, [table[d] EXCEPT !.node = n])
  /\ UNCHANGED undone

AnnounceRollback(d) ==
  /\ State(d) = "ROLLBACK_REQUIRED"
  /\ Record(d, [table[d] EXCEPT !.state = "ROLLING_BACK"])
  /\ UNCHANGED undone

Undo(d) ==
  /\ State(d) = "ROLLING_BACK"
  /\ undone' = undone \union {d}
  /\ UNCHANGED table

\* "FAILED" is recorded only of a deployment that was not undone.
ConcludeRollback(d) ==
  /\ State(d) = "ROLLING_BACK"
  /\ Record(d, [table[d] EXCEPT !.state = IF d \in undone THEN "ROLLED_BACK" ELSE "FAILED"])
  /\ UNCHANGED undone

Keep(d) ==
  /\ d \notin loose
  /\ Advance(d) \/ Move(d) \/ AnnounceRollback(d) \/ Undo(d) \/ ConcludeRollback(d)
  /\ UNCHANGED loose

\* A superseded worker writes its copy back, or undoes the deployment.
Overwrite(d) ==
  /\ d \in loose
  /\ \E r \in Records : Record(d, r)
  /\ undone' \in {undone, undone \union {d}}
  /\ UNCHANGED loose

Loosen(d) ==
  /\ loose' = loose \union {d}
  /\ UNCHANGED <<table, undone>>

ContractNext == \E d \in Deployments : Keep(d) \/ Overwrite(d) \/ Loosen(d)

ContractSpec == ContractInit /\ [][ContractNext]_contractVars
=============================================================================
