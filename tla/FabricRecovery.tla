---------------------------- MODULE FabricRecovery ----------------------------
(***************************************************************************)
(* Recovery of interrupted deployments in the Runtime Fabric.  Recovery    *)
(* workers list the active deployments, lease them one by one and bring    *)
(* each a step further: roll it back, move it off an unhealthy node, or    *)
(* resume it.  A worker works on a copy of the record it read; `put'       *)
(* writes the whole copy back, whatever the store holds by then.  The      *)
(* adapter's calls (health, failover selection, resume, rollback) are the  *)
(* environment: resume_action is given the copy and may advance it.        *)
(* A worker is its owner_id, which RECOVERY-RUNNER.md asks to be unique.   *)
(* A lease is not renewed; once it expired it is as good as deleted.       *)
(***************************************************************************)
EXTENDS Naturals

CONSTANTS Deployments,  \* deployment ids
          Workers,      \* owner ids of recovery workers
          Nodes,        \* where a deployment can run
          None          \* no node, no deployment, no owner

ASSUME FabricAssumption == None \notin Deployments \union Workers \union Nodes

TERMINAL == {"LIVE_VERIFIED", "ROLLED_BACK", "FAILED"}

ALLOWED ==
  [CREATED             |-> {"PLANNED", "FAILED"},
   PLANNED             |-> {"ACTIVATING", "FAILED"},
   ACTIVATING          |-> {"DEPLOYED", "ROLLBACK_REQUIRED", "FAILED"},
   DEPLOYED            |-> {"HEALTH_CHECKING", "ROLLBACK_REQUIRED", "FAILED"},
   HEALTH_CHECKING     |-> {"ACCEPTANCE_PENDING", "ROLLBACK_REQUIRED", "FAILED"},
   ACCEPTANCE_PENDING  |-> {"READY_FOR_PROMOTION", "ROLLBACK_REQUIRED", "FAILED"},
   READY_FOR_PROMOTION |-> {"LIVE_VERIFIED", "ROLLBACK_REQUIRED", "FAILED"},
   ROLLBACK_REQUIRED   |-> {"ROLLING_BACK", "FAILED"},
   ROLLING_BACK        |-> {"ROLLED_BACK", "FAILED"}]

States == DOMAIN ALLOWED \union TERMINAL

Undoing == {"ROLLBACK_REQUIRED", "ROLLING_BACK"}

Records == [state : States, node : Nodes \union {None}]

\* A call of transition that does not raise.
Transition(from, to) == from = to \/ (from \notin TERMINAL /\ to \in ALLOWED[from])

VARIABLES store,    \* the deployment table
          lease,    \* the owner of the unexpired lease of each deployment
          healthy,  \* the nodes the adapter's node_health calls healthy
          pc,       \* where each worker is in run_once and reconcile
          queue,    \* of its list, the deployments it has still to visit
          at,       \* the deployment it works on
          record,   \* its copy of that deployment's record
          undone,   \* history: deployments a rollback_action undid
          overrun   \* history: deployments whose lease expired under a working worker

vars == <<store, lease, healthy, pc, queue, at, record, undone, overrun>>

history == <<undone, overrun>>

Blank == [state |-> "CREATED", node |-> None]

\* ensure_deployment made every record.
Init ==
  /\ store = [d \in Deployments |-> Blank]
  /\ lease = [d \in Deployments |-> None]
  /\ healthy = Nodes
  /\ pc = [w \in Workers |-> "idle"]
  /\ queue = [w \in Workers |-> {}]
  /\ at = [w \in Workers |-> None]
  /\ record = [w \in Workers |-> Blank]
  /\ undone = {} /\ overrun = {}

Goto(w, label) == pc' = [pc EXCEPT ![w] = label]

Copy(w, r) == record' = [record EXCEPT ![w] = r]

Write(d, r) == store' = [store EXCEPT ![d] = r]

\* run_once: list_active.
List(w) ==
  /\ pc[w] = "idle"
  /\ \E d \in Deployments : store[d].state \notin TERMINAL
  /\ queue' = [queue EXCEPT ![w] = {d \in Deployments : store[d].state \notin TERMINAL}]
  /\ Goto(w, "next")
  /\ UNCHANGED <<store, lease, healthy, at, record, history>>

\* run_once: the next listed deployment, if acquire grants its lease.
Acquire(w, d) ==
  /\ pc[w] = "next" /\ d \in queue[w]
  /\ lease[d] \in {None, w}
  /\ lease' = [lease EXCEPT ![d] = w]
  /\ queue' = [queue EXCEPT ![w] = @ \ {d}]
  /\ at' = [at EXCEPT ![w] = d]
  /\ Goto(w, "reconcile")
  /\ UNCHANGED <<store, healthy, record, history>>

\* run_once: a lease conflict passes over the deployment.
Skip(w, d) ==
  /\ pc[w] = "next" /\ d \in queue[w]
  /\ lease[d] \notin {None, w}
  /\ queue' = [queue EXCEPT ![w] = @ \ {d}]
  /\ UNCHANGED <<store, lease, healthy, pc, at, record, history>>

\* run_once returns; the supervisor will call it again.
Done(w) ==
  /\ pc[w] = "next" /\ queue[w] = {}
  /\ Goto(w, "idle")
  /\ UNCHANGED <<store, lease, healthy, queue, at, record, history>>

\* reconcile: get, and what its result calls for.
Reconcile(w) ==
  LET r == store[at[w]] IN
  /\ pc[w] = "reconcile"
  /\ \/ /\ r.state \in TERMINAL
        /\ Goto(w, "release") /\ Copy(w, r)
     \/ /\ r.state = "ROLLBACK_REQUIRED"
        /\ Goto(w, "mark") /\ Copy(w, [r EXCEPT !.state = "ROLLING_BACK"])
     \/ /\ r.state = "ROLLING_BACK"
        /\ Goto(w, "retry") /\ Copy(w, r)
     \/ /\ r.state \notin TERMINAL \union Undoing
        /\ r.node \in healthy \union {None}
        /\ Goto(w, "resume") /\ Copy(w, r)
     \/ /\ r.state \notin TERMINAL \union Undoing
        /\ r.node \notin healthy \union {None}
        /\ \E n \in healthy : Goto(w, "failover") /\ Copy(w, [r EXCEPT !.node = n])
     \/ /\ r.state \notin TERMINAL \union Undoing
        /\ r.node \notin healthy \union {None}
        /\ Goto(w, "release") /\ Copy(w, r)
  /\ UNCHANGED <<store, lease, healthy, queue, at, history>>

\* reconcile: put ROLLING_BACK, and roll back only then.
MarkRollingBack(w) ==
  /\ pc[w] = "mark"
  /\ Write(at[w], record[w])
  /\ Goto(w, "rollback")
  /\ UNCHANGED <<lease, healthy, queue, at, record, history>>

\* rollback_action of a fresh rollback; false fails the deployment.
Rollback(w) ==
  /\ pc[w] = "rollback"
  /\ \/ /\ undone' = undone \union {at[w]}
        /\ Copy(w, [record[w] EXCEPT !.state = "ROLLED_BACK"])
     \/ /\ Copy(w, [record[w] EXCEPT !.state = "FAILED"])
        /\ UNCHANGED undone
  /\ Goto(w, "put")
  /\ UNCHANGED <<store, lease, healthy, queue, at, overrun>>

\* Mutant of RetryRollback: it treats false as a fresh rollback does.
RetryRollbackAsFresh(w) ==
  /\ pc[w] = "retry"
  /\ \/ /\ undone' = undone \union {at[w]}
        /\ Copy(w, [record[w] EXCEPT !.state = "ROLLED_BACK"])
     \/ /\ Copy(w, [record[w] EXCEPT !.state = "FAILED"])
        /\ UNCHANGED undone
  /\ Goto(w, "put")
  /\ UNCHANGED <<store, lease, healthy, queue, at, overrun>>

\* rollback_action of an interrupted rollback; false leaves it for the next pass.
RetryRollback(w) ==
  /\ pc[w] = "retry"
  /\ \/ /\ undone' = undone \union {at[w]}
        /\ Copy(w, [record[w] EXCEPT !.state = "ROLLED_BACK"])
        /\ Goto(w, "put")
     \/ /\ Goto(w, "release")
        /\ UNCHANGED <<record, undone>>
  /\ UNCHANGED <<store, lease, healthy, queue, at, overrun>>

\* Mutant of Failover: it resumes on a replacement it has not stored.
FailoverInMemory(w) ==
  /\ pc[w] = "failover"
  /\ Goto(w, "resume")
  /\ UNCHANGED <<store, lease, healthy, queue, at, record, history>>

\* reconcile: put the replacement node before the deployment is resumed on it.
Failover(w) ==
  /\ pc[w] = "failover"
  /\ Write(at[w], record[w])
  /\ Goto(w, "resume")
  /\ UNCHANGED <<lease, healthy, queue, at, record, history>>

\* resume_action: the adapter may place the deployment and move it one transition on;
\* false drops what it changed in the copy.
Resume(w) ==
  /\ pc[w] = "resume"
  /\ \/ \E r \in Records :
          /\ Transition(record[w].state, r.state)
          /\ record[w].node # None => r.node = record[w].node
          /\ Copy(w, r)
          /\ Goto(w, "put")
     \/ /\ Goto(w, "release")
        /\ UNCHANGED record
  /\ UNCHANGED <<store, lease, healthy, queue, at, history>>

\* reconcile: put the outcome of the action.
Put(w) ==
  /\ pc[w] = "put"
  /\ Write(at[w], record[w])
  /\ Goto(w, "release")
  /\ UNCHANGED <<lease, healthy, queue, at, record, history>>

\* run_once, finally: release deletes the lease if it is still the worker's.
Release(w) ==
  /\ pc[w] = "release"
  /\ lease' = [lease EXCEPT ![at[w]] = IF @ = w THEN None ELSE @]
  /\ at' = [at EXCEPT ![w] = None]
  /\ Copy(w, Blank)
  /\ Goto(w, "next")
  /\ UNCHANGED <<store, healthy, queue, history>>

\* Mutant of Raise: run_once has no finally clause.
RaiseUnreleased(w) ==
  /\ pc[w] \notin {"idle", "next", "release"}
  /\ queue' = [queue EXCEPT ![w] = {}]
  /\ Goto(w, "idle")
  /\ UNCHANGED <<store, lease, healthy, at, record, history>>

\* The store or the adapter raises: run_once releases, and gives up the rest of its list.
Raise(w) ==
  /\ pc[w] \notin {"idle", "next", "release"}
  /\ queue' = [queue EXCEPT ![w] = {}]
  /\ Goto(w, "release")
  /\ UNCHANGED <<store, lease, healthy, at, record, history>>

\* The process dies; its lease stays.  A new one with its owner_id starts over.
Crash(w) ==
  /\ pc[w] # "idle"
  /\ queue' = [queue EXCEPT ![w] = {}]
  /\ at' = [at EXCEPT ![w] = None]
  /\ Copy(w, Blank)
  /\ Goto(w, "idle")
  /\ UNCHANGED <<store, lease, healthy, history>>

\* ttl_seconds have passed since acquire.
Expire(d) ==
  /\ lease[d] # None
  /\ lease' = [lease EXCEPT ![d] = None]
  /\ overrun' = IF at[lease[d]] = d THEN overrun \union {d} ELSE overrun
  /\ UNCHANGED <<store, healthy, pc, queue, at, record, undone>>

\* A node fails or comes back.
NodeChanges(n) ==
  /\ healthy' = IF n \in healthy THEN healthy \ {n} ELSE healthy \union {n}
  /\ UNCHANGED <<store, lease, pc, queue, at, record, history>>

Step(w) ==
  \/ List(w) \/ Done(w) \/ Reconcile(w) \/ MarkRollingBack(w) \/ Rollback(w)
  \/ RetryRollback(w) \/ Failover(w) \/ Resume(w) \/ Put(w) \/ Release(w)
  \/ \E d \in Deployments : Acquire(w, d) \/ Skip(w, d)

Next ==
  \/ \E w \in Workers : Step(w) \/ Raise(w) \/ Crash(w)
  \/ \E d \in Deployments : Expire(d)
  \/ \E n \in Nodes : NodeChanges(n)

Spec == Init /\ [][Next]_vars

-----------------------------------------------------------------------------
Working == {"reconcile", "mark", "rollback", "retry", "failover", "resume", "put", "release"}

\* Types; a worker is at a deployment exactly while it works (RecoveryWorker.run_once).
TypeOK ==
  /\ store \in [Deployments -> Records]
  /\ lease \in [Deployments -> Workers \union {None}]
  /\ healthy \subseteq Nodes
  /\ pc \in [Workers -> Working \union {"idle", "next"}]
  /\ queue \in [Workers -> SUBSET Deployments]
  /\ at \in [Workers -> Deployments \union {None}]
  /\ record \in [Workers -> Records]
  /\ undone \subseteq Deployments /\ overrun \subseteq Deployments
  /\ \A w \in Workers : at[w] = None <=> pc[w] \notin Working

\* "Reconcile only owned leases" (RecoveryWorker): as long as no lease of a deployment has
\* expired under a worker still at work, at most one worker works on the deployment, across
\* crashes, restarts and conflicts.
ExclusiveUntilLapse ==
  \A v, w \in Workers :
    at[v] # None /\ at[v] = at[w] /\ at[v] \notin overrun => v = w

\* How far a deployment has come; a rollback comes after every state of its activation.
Stage ==
  [CREATED |-> 0, PLANNED |-> 1, ACTIVATING |-> 2, DEPLOYED |-> 3, HEALTH_CHECKING |-> 4,
   ACCEPTANCE_PENDING |-> 5, READY_FOR_PROMOTION |-> 6, LIVE_VERIFIED |-> 7,
   ROLLBACK_REQUIRED |-> 8, ROLLING_BACK |-> 9, ROLLED_BACK |-> 10, FAILED |-> 10]

\* transition guards a worker's copy; the store has no guard.  Until a lease lapses, what
\* the workers write back nevertheless only moves the stored deployment on: a rollback is
\* never resumed, and a terminal deployment never changes state.
OnlyForwardUntilLapse ==
  [][\A d \in Deployments \ overrun' :
       store'[d].state # store[d].state =>
         /\ store[d].state \notin TERMINAL
         /\ Stage[store[d].state] < Stage[store'[d].state]]_vars

\* A deployment that has a node is resumed where the store says it is: when it moved off an
\* unhealthy node the replacement is stored first, so that a failure of resume_action, or a
\* crash, does not leave it on a replacement that no record names (reconcile 82-92).  Nothing
\* is said of a deployment without a node: resume_action may place it before any put.
ReplacementIsRecorded ==
  \A w \in Workers :
    pc[w] = "resume" /\ record[w].node # None /\ at[w] \notin overrun =>
      store[at[w]].node = record[w].node

\* ROLLED_BACK is stored only after a rollback_action succeeded; and once one did, the
\* deployment is rolling back or rolled back, whichever crash or error came between the
\* action and its put: it is never reported failed, resumed or promoted (reconcile 60-80).
UndoneIsRecorded ==
  \A d \in Deployments \ overrun :
    /\ store[d].state = "ROLLED_BACK" => d \in undone
    /\ d \in undone => store[d].state \in {"ROLLING_BACK", "ROLLED_BACK"}

\* DeploymentContract, of the table the workers share.
Contract == INSTANCE DeploymentContract WITH table <- store, loose <- overrun

\* Copies written back whole, crashes, conflicts and retries included, the table changes by
\* one transition of the state machine at a time, and what it says of a rollback is what
\* was done (DeploymentReconciler.reconcile).
ImplementsContract == Contract!ContractSpec
=============================================================================
