------------------------- MODULE FabricRecoveryProofs -------------------------
(***************************************************************************)
(* Proofs about FabricRecovery, for any number of deployments, workers and *)
(* nodes.                                                                  *)
(***************************************************************************)
EXTENDS FabricRecovery, TLAPS

\* What a transition out of an active state outside a rollback can reach.
LEMMA TransitionForward ==
  ASSUME NEW s \in States \ (TERMINAL \union Undoing), NEW t \in States, Transition(s, t)
  PROVE  /\ t = s \/ Stage[s] < Stage[t]
         /\ t \notin {"ROLLING_BACK", "ROLLED_BACK"}
<1>1. s \in {"CREATED", "PLANNED", "ACTIVATING", "DEPLOYED", "HEALTH_CHECKING",
             "ACCEPTANCE_PENDING", "READY_FOR_PROMOTION"}
  BY DEF States, TERMINAL, Undoing, ALLOWED
<1>2. CASE s \in {"CREATED", "PLANNED"}
  BY <1>2 DEF Transition, ALLOWED, Stage
<1>3. CASE s \in {"ACTIVATING", "DEPLOYED", "HEALTH_CHECKING"}
  BY <1>3 DEF Transition, ALLOWED, Stage
<1>4. CASE s \in {"ACCEPTANCE_PENDING", "READY_FOR_PROMOTION"}
  BY <1>4 DEF Transition, ALLOWED, Stage
<1> QED
  BY <1>1, <1>2, <1>3, <1>4

\* The states named in the actions are states of the machine.
LEMMA StateNames ==
  /\ "CREATED" \in States
  /\ {"ROLLBACK_REQUIRED", "ROLLING_BACK"} \subseteq States
  /\ TERMINAL \subseteq States
BY DEF States, ALLOWED, TERMINAL

\* A record written in one of the states of a rollback is a record.
LEMMA RecordInState ==
  ASSUME NEW r \in Records, NEW s \in States
  PROVE  /\ [r EXCEPT !.state = s] \in Records
         /\ [r EXCEPT !.state = s].state = s
         /\ [r EXCEPT !.state = s].node = r.node
BY DEF Records

\* Failover changes the node of a record and not its state.
LEMMA RecordOnNode ==
  ASSUME NEW r \in Records, NEW n \in Nodes
  PROVE  /\ [r EXCEPT !.node = n] \in Records
         /\ [r EXCEPT !.node = n].node = n
         /\ [r EXCEPT !.node = n].state = r.state
BY DEF Records

-----------------------------------------------------------------------------
\* Every deployment is created and every worker idle.
LEMMA TypeInit == Init => TypeOK
<1> SUFFICES ASSUME Init PROVE TypeOK
  OBVIOUS
<1>1. Blank \in Records
  BY StateNames DEF Blank, Records
<1> QED
  BY <1>1 DEF Init, TypeOK, Working

\* Every step keeps the types: one case per action.
LEMMA TypeStep == TypeOK /\ [Next]_vars => TypeOK'
<1> SUFFICES ASSUME TypeOK, [Next]_vars PROVE TypeOK'
  OBVIOUS
<1> USE DEF TypeOK
<1>0. Blank \in Records
  BY StateNames DEF Blank, Records
<1>1. ASSUME NEW w \in Workers, List(w) \/ Done(w)
      PROVE  TypeOK'
  BY <1>1 DEF List, Done, Goto, history, Working
<1>2. ASSUME NEW w \in Workers, NEW d \in Deployments, Acquire(w, d) \/ Skip(w, d)
      PROVE  TypeOK'
  BY <1>2, FabricAssumption DEF Acquire, Skip, Goto, history, Working
<1>3. ASSUME NEW w \in Workers, Reconcile(w)
      PROVE  TypeOK'
  <2>1. at[w] \in Deployments /\ store[at[w]] \in Records
    BY <1>3 DEF Reconcile, Working
  <2>2. \A s \in States : [store[at[w]] EXCEPT !.state = s] \in Records
    BY <2>1, RecordInState
  <2>3. \A n \in healthy : [store[at[w]] EXCEPT !.node = n] \in Records
    BY <2>1, RecordOnNode
  <2>4. record' \in [Workers -> Records]
    BY <1>3, <2>1, <2>2, <2>3, StateNames DEF Reconcile, Copy
  <2>5. /\ pc' \in [Workers -> Working \union {"idle", "next"}]
        /\ \A v \in Workers : pc'[v] \in Working <=> pc[v] \in Working
    BY <1>3 DEF Reconcile, Goto, Working
  <2> QED
    BY <1>3, <2>4, <2>5 DEF Reconcile, history
<1>4. ASSUME NEW w \in Workers, MarkRollingBack(w) \/ Failover(w) \/ Put(w)
      PROVE  TypeOK'
  <2>1. at[w] \in Deployments
    BY <1>4 DEF MarkRollingBack, Failover, Put, Working
  <2>2. /\ pc' \in [Workers -> Working \union {"idle", "next"}]
        /\ \A v \in Workers : pc'[v] \in Working <=> pc[v] \in Working
    BY <1>4 DEF MarkRollingBack, Failover, Put, Goto, Working
  <2>3. store' \in [Deployments -> Records]
    BY <1>4, <2>1 DEF MarkRollingBack, Failover, Put, Write
  <2> QED
    BY <1>4, <2>2, <2>3 DEF MarkRollingBack, Failover, Put, history
<1>5. ASSUME NEW w \in Workers, Rollback(w) \/ RetryRollback(w)
      PROVE  TypeOK'
  <2>1. at[w] \in Deployments /\ record[w] \in Records
    BY <1>5 DEF Rollback, RetryRollback, Working
  <2>2. /\ [record[w] EXCEPT !.state = "ROLLED_BACK"] \in Records
        /\ [record[w] EXCEPT !.state = "FAILED"] \in Records
    BY <2>1, RecordInState, StateNames DEF TERMINAL
  <2>3. record' \in [Workers -> Records] /\ undone' \subseteq Deployments
    BY <1>5, <2>1, <2>2 DEF Rollback, RetryRollback, Copy
  <2>4. /\ pc' \in [Workers -> Working \union {"idle", "next"}]
        /\ \A v \in Workers : pc'[v] \in Working <=> pc[v] \in Working
    BY <1>5 DEF Rollback, RetryRollback, Goto, Working
  <2> QED
    BY <1>5, <2>3, <2>4 DEF Rollback, RetryRollback
<1>6. ASSUME NEW w \in Workers, Resume(w)
      PROVE  TypeOK'
  BY <1>6 DEF Resume, Copy, Goto, history, Working
<1>7. ASSUME NEW w \in Workers, Release(w)
      PROVE  TypeOK'
  <2>1. at[w] \in Deployments
    BY <1>7 DEF Release, Working
  <2> QED
    BY <1>0, <1>7, <2>1 DEF Release, Copy, Goto, history, Working
<1>8. ASSUME NEW w \in Workers, Raise(w) \/ Crash(w)
      PROVE  TypeOK'
  BY <1>0, <1>8 DEF Raise, Crash, Copy, Goto, history, Working
<1>9. ASSUME NEW d \in Deployments, Expire(d)
      PROVE  TypeOK'
  BY <1>9 DEF Expire
<1>10. ASSUME NEW n \in Nodes, NodeChanges(n)
       PROVE  TypeOK'
  BY <1>10 DEF NodeChanges, history
<1>11. CASE UNCHANGED vars
  BY <1>11 DEF vars
<1> QED
  BY <1>1, <1>2, <1>3, <1>4, <1>5, <1>6, <1>7, <1>8, <1>9, <1>10, <1>11 DEF Next, Step

\* Types, and a worker is at a deployment exactly while it works on it.
THEOREM TypeCorrect == Spec => []TypeOK
BY TypeInit, TypeStep, PTL DEF Spec

-----------------------------------------------------------------------------
(* The inductive invariant, for deployments no lease of which lapsed under  *)
(* its worker: who works on one holds its lease, and what its copy says is  *)
(* still in step with the store.                                            *)

Reliable(w) == at[w] # None /\ at[w] \notin overrun

Holds(w) == Reliable(w) => lease[at[w]] = w

\* resume_action made r of s.
Resumes(s, r) ==
  /\ s.state \notin TERMINAL \union Undoing
  /\ Transition(s.state, r.state)
  /\ s.node # None => r.node = s.node

\* A rollback of s ended in r.
Concludes(s, r, done) ==
  /\ s.state = "ROLLING_BACK"
  /\ r = [s EXCEPT !.state = IF done THEN "ROLLED_BACK" ELSE "FAILED"]

InStep(w) ==
  LET s == store[at[w]]
      r == record[w]
  IN /\ pc[w] = "mark" =>
          s.state = "ROLLBACK_REQUIRED" /\ r = [s EXCEPT !.state = "ROLLING_BACK"]
     /\ pc[w] = "rollback" => s.state = "ROLLING_BACK" /\ r = s /\ at[w] \notin undone
     /\ pc[w] = "retry" => s.state = "ROLLING_BACK" /\ r = s
     /\ pc[w] = "failover" =>
          /\ s.state \notin TERMINAL \union Undoing
          /\ \E n \in Nodes : r = [s EXCEPT !.node = n]
     /\ pc[w] = "resume" => s.state \notin TERMINAL \union Undoing /\ r = s
     /\ pc[w] = "put" => Resumes(s, r) \/ Concludes(s, r, at[w] \in undone)

InStepOK == \A w \in Workers : Reliable(w) => InStep(w)

FabricOK == (\A w \in Workers : Holds(w)) /\ InStepOK /\ UndoneIsRecorded

\* What the other workers rely on survives a step of one worker at its own deployment or
\* at one whose lease is free.
LEMMA OthersKeep ==
  ASSUME TypeOK, FabricOK, NEW w \in Workers, NEW v \in Workers \ {w},
         UNCHANGED <<pc[v], at[v], record[v], overrun>>,
         \A d \in Deployments :
           \/ UNCHANGED <<store[d], lease[d]>> /\ (d \in undone' <=> d \in undone)
           \/ lease[d] \in {None, w}
           \/ d = at[w],
         Reliable(v)'
  PROVE  Holds(v)' /\ InStep(v)'
<1>1. Reliable(v) /\ at[v] \in Deployments /\ lease[at[v]] = v
  BY DEF Reliable, FabricOK, Holds, TypeOK
<1>2. at[v] # at[w] /\ v # None
  BY <1>1, FabricAssumption DEF FabricOK, Holds, Reliable
<1>3. UNCHANGED <<store[at[v]], lease[at[v]]>> /\ (at[v] \in undone' <=> at[v] \in undone)
  BY <1>1, <1>2
<1>4. InStep(v)
  BY <1>1 DEF FabricOK, InStepOK
<1>5. store'[at'[v]] = store[at[v]] /\ (at'[v] \in undone' <=> at[v] \in undone)
  BY <1>3
<1>6. InStep(v)'
  BY <1>4, <1>5 DEF InStep, Resumes, Concludes
<1> QED
  BY <1>1, <1>3, <1>6 DEF Holds

\* What a worker at a write knows of the states it replaces.
LEMMA WriterKnows ==
  ASSUME TypeOK, FabricOK, NEW w \in Workers, Reliable(w)
  PROVE  /\ pc[w] = "mark" =>
              /\ store[at[w]].state = "ROLLBACK_REQUIRED"
              /\ record[w].state = "ROLLING_BACK" /\ at[w] \notin undone
         /\ pc[w] = "failover" =>
              /\ record[w].state = store[at[w]].state
              /\ record[w].state \notin TERMINAL \union Undoing /\ at[w] \notin undone
         /\ pc[w] = "put" =>
              /\ store[at[w]].state \notin TERMINAL
              /\ \/ record[w].state = store[at[w]].state
                 \/ Stage[store[at[w]].state] < Stage[record[w].state]
              /\ record[w].state = "ROLLED_BACK" <=> at[w] \in undone
<1>1. /\ InStep(w) /\ at[w] \in Deployments
      /\ store[at[w]] \in Records /\ record[w] \in Records
  BY DEF FabricOK, InStepOK, Reliable, TypeOK
<1>2. at[w] \in undone => store[at[w]].state \in {"ROLLING_BACK", "ROLLED_BACK"}
  BY <1>1 DEF FabricOK, UndoneIsRecorded, Reliable
<1>3. CASE pc[w] = "mark"
  <2>1. /\ store[at[w]].state = "ROLLBACK_REQUIRED"
        /\ record[w] = [store[at[w]] EXCEPT !.state = "ROLLING_BACK"]
    BY <1>1, <1>3 DEF InStep
  <2>2. record[w].state = "ROLLING_BACK"
    BY <1>1, <2>1, RecordInState, StateNames
  <2> QED
    BY <1>2, <1>3, <2>1, <2>2
<1>4. CASE pc[w] = "failover"
  <2>1. store[at[w]].state \notin TERMINAL \union Undoing
    BY <1>1, <1>4 DEF InStep
  <2>2. PICK n \in Nodes : record[w] = [store[at[w]] EXCEPT !.node = n]
    BY <1>1, <1>4 DEF InStep
  <2>3. record[w].state = store[at[w]].state
    BY <1>1, <2>2, RecordOnNode
  <2>4. at[w] \notin undone
    BY <1>2, <2>1 DEF TERMINAL, Undoing
  <2> QED
    BY <1>4, <2>1, <2>3, <2>4
<1>5. CASE pc[w] = "put" /\ Resumes(store[at[w]], record[w])
  <2>1. /\ store[at[w]].state \in States \ (TERMINAL \union Undoing)
        /\ record[w].state \in States
    BY <1>1, <1>5 DEF Records, Resumes
  <2>2. /\ \/ record[w].state = store[at[w]].state
           \/ Stage[store[at[w]].state] < Stage[record[w].state]
        /\ record[w].state # "ROLLED_BACK"
    BY <1>5, <2>1, TransitionForward DEF Resumes
  <2>3. at[w] \notin undone
    BY <1>2, <2>1 DEF TERMINAL, Undoing
  <2> QED
    BY <1>5, <2>1, <2>2, <2>3
<1>6. CASE pc[w] = "put" /\ Concludes(store[at[w]], record[w], at[w] \in undone)
  <2>1. /\ store[at[w]].state = "ROLLING_BACK"
        /\ record[w].state = IF at[w] \in undone THEN "ROLLED_BACK" ELSE "FAILED"
    BY <1>1, <1>6, RecordInState, StateNames DEF Concludes, TERMINAL
  <2> QED
    BY <1>6, <2>1 DEF TERMINAL, Stage
<1> QED
  BY <1>1, <1>3, <1>4, <1>5, <1>6 DEF InStep

\* An invariance argument for a step of one worker.
LEMMA OneWorker ==
  ASSUME TypeOK, FabricOK, NEW w \in Workers,
         \A v \in Workers \ {w} : UNCHANGED <<pc[v], at[v], record[v]>>,
         UNCHANGED overrun,
         \A d \in Deployments :
           \/ UNCHANGED <<store[d], lease[d]>> /\ (d \in undone' <=> d \in undone)
           \/ lease[d] \in {None, w}
           \/ d = at[w],
         Reliable(w)' => Holds(w)' /\ InStep(w)',
         UndoneIsRecorded'
  PROVE  FabricOK'
<1>1. ASSUME NEW v \in Workers, Reliable(v)' PROVE Holds(v)' /\ InStep(v)'
  <2>1. CASE v = w
    BY <1>1, <2>1
  <2>2. CASE v # w
    BY <1>1, <2>2, OthersKeep
  <2> QED
    BY <2>1, <2>2
<1>2. \A v \in Workers : Holds(v)'
  BY <1>1 DEF Holds
<1> QED
  BY <1>1, <1>2 DEF FabricOK, InStepOK

\* Nobody works on a deployment and nothing was undone.
LEMMA FabricInit == Init => FabricOK
BY DEF Init, FabricOK, Holds, Reliable, InStepOK, UndoneIsRecorded, Blank

\* A step of the lease's owner keeps its copy and the store in line; steps of others do
\* not reach the record, since they lack the lease; an expiry under a worker is excepted.
LEMMA FabricStep == TypeOK /\ TypeOK' /\ FabricOK /\ [Next]_vars => FabricOK'
<1> SUFFICES ASSUME TypeOK, TypeOK', FabricOK, [Next]_vars PROVE FabricOK'
  OBVIOUS
<1>0. \A w \in Workers : Reliable(w) => at[w] \in Deployments /\ lease[at[w]] = w /\ InStep(w)
  BY DEF Reliable, FabricOK, InStepOK, Holds, TypeOK
<1>1. ASSUME NEW w \in Workers, List(w) \/ Done(w)
      PROVE  FabricOK'
  <2>1. UNCHANGED <<store, lease, at, record, history>> /\ pc[w] \in {"idle", "next"}
    BY <1>1 DEF List, Done
  <2>2. /\ \A v \in Workers \ {w} : pc'[v] = pc[v]
        /\ at[w] = None
    BY <1>1, <2>1 DEF List, Done, Goto, TypeOK, Working
  <2>3. UndoneIsRecorded'
    BY <2>1 DEF FabricOK, UndoneIsRecorded, history
  <2> QED
    BY <2>1, <2>2, <2>3, OneWorker DEF history, Reliable
<1>2. ASSUME NEW w \in Workers, NEW d \in Deployments, Acquire(w, d) \/ Skip(w, d)
      PROVE  FabricOK'
  <2>1. UndoneIsRecorded'
    BY <1>2 DEF FabricOK, UndoneIsRecorded, Acquire, Skip, history
  <2>2. CASE Acquire(w, d)
    <3>1. /\ UNCHANGED <<store, record, history>>
          /\ \A v \in Workers \ {w} : UNCHANGED <<pc[v], at[v]>>
          /\ \A e \in Deployments : lease'[e] = lease[e] \/ lease[e] \in {None, w}
          /\ pc'[w] = "reconcile" /\ at'[w] = d /\ lease'[d] = w
      BY <2>2 DEF Acquire, Goto, TypeOK
    <3>2. Holds(w)' /\ InStep(w)'
      BY <3>1 DEF Holds, InStep
    <3> QED
      BY <2>1, <3>1, <3>2, OneWorker DEF history
  <2>3. CASE Skip(w, d)
    BY <2>1, <2>3 DEF Skip, history, FabricOK, Holds, Reliable, InStepOK, InStep
  <2> QED
    BY <1>2, <2>2, <2>3
<1>3. ASSUME NEW w \in Workers, Reconcile(w)
      PROVE  FabricOK'
  <2>1. /\ UNCHANGED <<store, lease, at, history>>
        /\ \A v \in Workers \ {w} : UNCHANGED <<pc[v], record[v]>>
        /\ at[w] \in Deployments /\ store[at[w]] \in Records
    BY <1>3 DEF Reconcile, Goto, Copy, TypeOK, Working
  <2>2. UndoneIsRecorded'
    BY <2>1 DEF FabricOK, UndoneIsRecorded, history
  <2>3. ASSUME Reliable(w)' PROVE Holds(w)' /\ InStep(w)'
    <3>1. Reliable(w) /\ Holds(w)'
      BY <1>0, <2>1, <2>3 DEF Reliable, Holds, history
    <3>2. CASE pc'[w] = "mark"
      <4>1. /\ store[at[w]].state = "ROLLBACK_REQUIRED"
            /\ record'[w] = [store[at[w]] EXCEPT !.state = "ROLLING_BACK"]
        BY <1>3, <3>2 DEF Reconcile, Goto, Copy, TypeOK
      <4> QED
        BY <2>1, <3>1, <3>2, <4>1 DEF InStep
    <3>3. CASE pc'[w] = "retry"
      BY <1>3, <2>1, <3>1, <3>3 DEF Reconcile, Goto, Copy, InStep, TypeOK
    <3>4. CASE pc'[w] = "failover"
      <4>1. /\ store[at[w]].state \notin TERMINAL \union Undoing
            /\ \E n \in Nodes : record'[w] = [store[at[w]] EXCEPT !.node = n]
        BY <1>3, <3>4 DEF Reconcile, Goto, Copy, TypeOK
      <4> QED
        BY <2>1, <3>1, <3>4, <4>1 DEF InStep
    <3>5. CASE pc'[w] = "resume"
      BY <1>3, <2>1, <3>1, <3>5 DEF Reconcile, Goto, Copy, InStep, TypeOK
    <3>6. CASE pc'[w] = "release"
      BY <3>1, <3>6 DEF InStep
    <3>7. pc'[w] \in {"mark", "retry", "failover", "resume", "release"}
      BY <1>3 DEF Reconcile, Goto, TypeOK
    <3> QED
      BY <3>1, <3>2, <3>3, <3>4, <3>5, <3>6, <3>7
  <2> QED
    BY <2>1, <2>2, <2>3, OneWorker DEF history
<1>4. ASSUME NEW w \in Workers, MarkRollingBack(w) \/ Failover(w) \/ Put(w)
      PROVE  FabricOK'
  <2>1. /\ UNCHANGED <<lease, at, record, history>>
        /\ \A v \in Workers \ {w} : UNCHANGED pc[v]
        /\ at[w] \in Deployments /\ record[w] \in Records
        /\ store'[at[w]] = record[w]
        /\ \A d \in Deployments \ {at[w]} : store'[d] = store[d]
    BY <1>4 DEF MarkRollingBack, Failover, Put, Goto, Write, TypeOK, Working
  <2>2. Reliable(w) /\ pc[w] = "put" =>
          /\ record[w].state = "ROLLED_BACK" <=> at[w] \in undone
    BY WriterKnows
  <2>3. Reliable(w) /\ pc[w] = "mark" => at[w] \notin undone /\ record[w].state = "ROLLING_BACK"
    BY WriterKnows
  <2>4. Reliable(w) /\ pc[w] = "failover" =>
          /\ at[w] \notin undone
          /\ record[w].state \notin TERMINAL \union Undoing
    BY WriterKnows
  <2>5. pc[w] \in {"put", "mark", "failover"} /\ at[w] # None
    BY <1>4, <2>1, FabricAssumption DEF MarkRollingBack, Failover, Put
  <2>6. ASSUME NEW d \in Deployments \ overrun, d = at[w]
        PROVE  /\ store'[d].state = "ROLLED_BACK" => d \in undone
               /\ d \in undone => store'[d].state \in {"ROLLING_BACK", "ROLLED_BACK"}
    BY <2>1, <2>2, <2>3, <2>4, <2>5, <2>6 DEF Reliable, TERMINAL
  <2>7. UndoneIsRecorded'
    BY <2>1, <2>6 DEF FabricOK, UndoneIsRecorded, history
  <2>8. ASSUME Reliable(w)' PROVE Holds(w)' /\ InStep(w)'
    <3>1. Reliable(w) /\ Holds(w)' /\ InStep(w)
      BY <1>0, <2>1, <2>8 DEF Reliable, Holds, history
    <3>2. CASE MarkRollingBack(w)
      BY <2>1, <2>3, <3>1, <3>2 DEF MarkRollingBack, Goto, InStep, TypeOK, history
    <3>3. CASE Failover(w)
      BY <2>1, <2>4, <3>1, <3>3 DEF Failover, Goto, InStep, TypeOK
    <3>4. CASE Put(w)
      BY <3>1, <3>4 DEF Put, Goto, InStep, TypeOK
    <3> QED
      BY <1>4, <3>1, <3>2, <3>3, <3>4
  <2> QED
    BY <2>1, <2>7, <2>8, OneWorker DEF history
<1>5. ASSUME NEW w \in Workers, Rollback(w) \/ RetryRollback(w)
      PROVE  FabricOK'
  <2>1. /\ UNCHANGED <<store, lease, at, overrun>>
        /\ \A v \in Workers \ {w} : UNCHANGED <<pc[v], record[v]>>
        /\ at[w] \in Deployments /\ record[w] \in Records
        /\ undone' \in {undone, undone \union {at[w]}}
    BY <1>5 DEF Rollback, RetryRollback, Goto, Copy, TypeOK, Working
  <2>2. Reliable(w) =>
          store[at[w]].state = "ROLLING_BACK" /\ (pc[w] = "rollback" => at[w] \notin undone)
    BY <1>0, <1>5 DEF Rollback, RetryRollback, InStep
  <2>3. UndoneIsRecorded'
    BY <2>1, <2>2, FabricAssumption DEF FabricOK, UndoneIsRecorded, Reliable
  <2>4. ASSUME Reliable(w)' PROVE Holds(w)' /\ InStep(w)'
    <3>1. Reliable(w) /\ Holds(w)'
      BY <1>0, <2>1, <2>4 DEF Reliable, Holds
    <3>2. record[w] = store[at[w]]
      BY <1>0, <1>5, <3>1 DEF Rollback, RetryRollback, InStep
    <3>3. CASE undone' = undone \union {at[w]} /\ pc'[w] = "put"
               /\ record'[w] = [record[w] EXCEPT !.state = "ROLLED_BACK"]
      BY <2>1, <2>2, <3>1, <3>2, <3>3 DEF InStep, Concludes
    <3>4. CASE undone' = undone /\ pc'[w] = "put" /\ pc[w] = "rollback"
               /\ record'[w] = [record[w] EXCEPT !.state = "FAILED"]
      BY <2>1, <2>2, <3>1, <3>2, <3>4 DEF InStep, Concludes
    <3>5. CASE pc'[w] = "release"
      BY <3>1, <3>5 DEF InStep
    <3> QED
      BY <1>5, <3>1, <3>3, <3>4, <3>5 DEF Rollback, RetryRollback, Goto, Copy, TypeOK
  <2> QED
    BY <2>1, <2>2, <2>3, <2>4, OneWorker
<1>6. ASSUME NEW w \in Workers, Resume(w)
      PROVE  FabricOK'
  <2>1. /\ UNCHANGED <<store, lease, at, history>>
        /\ \A v \in Workers \ {w} : UNCHANGED <<pc[v], record[v]>>
        /\ at[w] \in Deployments /\ record[w] \in Records
    BY <1>6 DEF Resume, Goto, Copy, TypeOK, Working
  <2>2. UndoneIsRecorded'
    BY <2>1 DEF FabricOK, UndoneIsRecorded, history
  <2>3. ASSUME Reliable(w)' PROVE Holds(w)' /\ InStep(w)'
    <3>1. Reliable(w) /\ Holds(w)'
      BY <1>0, <2>1, <2>3 DEF Reliable, Holds, history
    <3>2. record[w] = store[at[w]] /\ record[w].state \notin TERMINAL \union Undoing
      BY <1>0, <1>6, <3>1 DEF Resume, InStep
    <3>3. ASSUME NEW r \in Records, Transition(record[w].state, r.state), record'[w] = r,
                 record[w].node # None => r.node = record[w].node, pc'[w] = "put"
          PROVE  InStep(w)'
      BY <2>1, <3>2, <3>3 DEF InStep, Resumes
    <3>4. CASE pc'[w] = "release"
      BY <3>1, <3>4 DEF InStep
    <3> QED
      BY <1>6, <3>1, <3>3, <3>4 DEF Resume, Goto, Copy, TypeOK
  <2> QED
    BY <2>1, <2>2, <2>3, OneWorker DEF history
<1>7. ASSUME NEW w \in Workers, Release(w)
      PROVE  FabricOK'
  <2>1. /\ UNCHANGED <<store, history>> /\ at'[w] = None
        /\ \A v \in Workers \ {w} : UNCHANGED <<pc[v], at[v], record[v]>>
        /\ \A d \in Deployments \ {at[w]} : lease'[d] = lease[d]
    BY <1>7 DEF Release, Goto, Copy, TypeOK
  <2>2. UndoneIsRecorded'
    BY <2>1 DEF FabricOK, UndoneIsRecorded, history
  <2> QED
    BY <2>1, <2>2, OneWorker DEF history, Reliable
<1>8. ASSUME NEW w \in Workers, Raise(w) \/ Crash(w)
      PROVE  FabricOK'
  <2>1. /\ UNCHANGED <<store, lease, history>>
        /\ \A v \in Workers \ {w} : UNCHANGED <<pc[v], at[v], record[v]>>
        /\ \/ at'[w] = None
           \/ at'[w] = at[w] /\ pc'[w] = "release"
    BY <1>8 DEF Raise, Crash, Goto, Copy, TypeOK
  <2>2. UndoneIsRecorded'
    BY <2>1 DEF FabricOK, UndoneIsRecorded, history
  <2>3. ASSUME Reliable(w)' PROVE Holds(w)' /\ InStep(w)'
    BY <1>0, <2>1, <2>3 DEF Reliable, Holds, InStep, history
  <2> QED
    BY <2>1, <2>2, <2>3, OneWorker DEF history
<1>9. ASSUME NEW d \in Deployments, Expire(d)
      PROVE  FabricOK'
  <2>1. /\ UNCHANGED <<store, pc, at, record, undone>> /\ overrun \subseteq overrun'
        /\ \A e \in Deployments \ {d} : lease'[e] = lease[e]
    BY <1>9 DEF Expire, TypeOK
  <2>2. UndoneIsRecorded'
    BY <2>1 DEF FabricOK, UndoneIsRecorded
  <2>3. ASSUME NEW v \in Workers, Reliable(v)' PROVE Holds(v)' /\ InStep(v)'
    <3>1. Reliable(v) /\ at[v] \in Deployments /\ lease[at[v]] = v /\ InStep(v)
      BY <1>0, <2>1, <2>3 DEF Reliable
    <3>2. at[v] # d
      BY <1>9, <2>1, <2>3, <3>1 DEF Expire, Reliable
    <3> QED
      BY <2>1, <3>1, <3>2 DEF Holds, InStep
  <2> QED
    BY <2>2, <2>3 DEF FabricOK, InStepOK, Holds
<1>10. ASSUME NEW n \in Nodes, NodeChanges(n)
       PROVE  FabricOK'
  BY <1>10 DEF NodeChanges, history, FabricOK, Holds, Reliable, InStepOK, InStep, UndoneIsRecorded
<1>11. CASE UNCHANGED vars
  BY <1>11 DEF vars, FabricOK, Holds, Reliable, InStepOK, InStep, UndoneIsRecorded
<1> QED
  BY <1>1, <1>2, <1>3, <1>4, <1>5, <1>6, <1>7, <1>8, <1>9, <1>10, <1>11 DEF Next, Step

\* The inductive invariant in every state.
LEMMA FabricInvariance == Spec => []FabricOK
BY TypeInit, TypeStep, FabricInit, FabricStep, PTL DEF Spec

\* Until a lease lapses under its worker, no two workers work on one deployment.
THEOREM ExclusiveUntilLapseHolds == Spec => []ExclusiveUntilLapse
<1>1. FabricOK => ExclusiveUntilLapse
  BY DEF FabricOK, Holds, Reliable, ExclusiveUntilLapse
<1> QED
  BY <1>1, FabricInvariance, PTL

\* A deployment that has a node is resumed where the store says it is: a replacement is
\* stored before it is used.
THEOREM ReplacementIsRecordedHolds == Spec => []ReplacementIsRecorded
<1>1. TypeOK /\ FabricOK => ReplacementIsRecorded
  BY DEF FabricOK, InStepOK, InStep, Reliable, ReplacementIsRecorded, TypeOK, Working
<1> QED
  BY <1>1, TypeCorrect, FabricInvariance, PTL

\* What was rolled back is recorded as rolled back, or its rollback is retried.
THEOREM UndoneIsRecordedHolds == Spec => []UndoneIsRecorded
<1>1. FabricOK => UndoneIsRecorded
  BY DEF FabricOK
<1> QED
  BY <1>1, FabricInvariance, PTL

\* The unguarded writes of the workers only move a stored deployment on.
THEOREM OnlyForwardUntilLapseHolds == Spec => OnlyForwardUntilLapse
<1> DEFINE Forward ==
      \A d \in Deployments \ overrun' :
        store'[d].state # store[d].state =>
          /\ store[d].state \notin TERMINAL
          /\ Stage[store[d].state] < Stage[store'[d].state]
<1>1. TypeOK /\ FabricOK /\ [Next]_vars => [Forward]_vars
  <2> SUFFICES ASSUME TypeOK, FabricOK, Next PROVE Forward
    BY DEF vars
  <2>1. CASE UNCHANGED store
    BY <2>1
  <2>2. ASSUME NEW w \in Workers, MarkRollingBack(w) \/ Failover(w) \/ Put(w)
        PROVE  Forward
    <3>1. /\ at[w] \in Deployments /\ overrun' = overrun
          /\ store'[at[w]] = record[w]
          /\ \A d \in Deployments \ {at[w]} : store'[d] = store[d]
      BY <2>2 DEF MarkRollingBack, Failover, Put, Write, TypeOK, Working, history
    <3>2. ASSUME at[w] \notin overrun, record[w].state # store[at[w]].state
          PROVE  /\ store[at[w]].state \notin TERMINAL
                 /\ Stage[store[at[w]].state] < Stage[record[w].state]
      <4>1. Reliable(w)
        BY <3>1, <3>2, FabricAssumption DEF Reliable
      <4> QED
        BY <2>2, <3>2, <4>1, WriterKnows DEF MarkRollingBack, Failover, Put, TERMINAL, Stage
    <3> QED
      BY <3>1, <3>2
  <2>3. \/ UNCHANGED store
        \/ \E w \in Workers : MarkRollingBack(w) \/ Failover(w) \/ Put(w)
    BY DEF Next, Step, List, Done, Acquire, Skip, Reconcile, Rollback, RetryRollback, Resume,
           Release, Raise, Crash, Expire, NodeChanges
  <2> QED
    BY <2>1, <2>2, <2>3
<1> QED
  BY <1>1, TypeCorrect, FabricInvariance, PTL DEF Spec, OnlyForwardUntilLapse

-----------------------------------------------------------------------------
(* DeploymentContract.                                                      *)

\* A write of a worker is the next step of its deployment, or one of a loose deployment.
LEMMA WriteRefines ==
  ASSUME TypeOK, FabricOK, NEW w \in Workers, MarkRollingBack(w) \/ Failover(w) \/ Put(w)
  PROVE  Contract!ContractNext
<1>1. /\ at[w] \in Deployments /\ record[w] \in Records /\ store[at[w]] \in Records
      /\ UNCHANGED <<undone, overrun>>
      /\ Contract!Record(at[w], record[w])
  BY DEF MarkRollingBack, Failover, Put, Write, TypeOK, Working, history, Contract!Record
<1> DEFINE d == at[w]
<1>2. CASE d \in overrun
  BY <1>1, <1>2 DEF Contract!ContractNext, Contract!Overwrite
<1>3. CASE d \notin overrun
  <2>1. InStep(w)
    BY <1>1, <1>3, FabricAssumption DEF FabricOK, InStepOK, Reliable
  <2>2. CASE MarkRollingBack(w)
    <3>1. Contract!AnnounceRollback(d)
      BY <1>1, <2>1, <2>2
         DEF MarkRollingBack, InStep, Contract!AnnounceRollback, Contract!State, Contract!Record
    <3> QED
      BY <1>1, <1>3, <3>1 DEF Contract!ContractNext, Contract!Keep
  <2>3. CASE Failover(w)
    <3>1. Contract!Move(d)
      BY <1>1, <2>1, <2>3
         DEF Failover, InStep, Contract!Move, Contract!Active, Contract!State, Contract!Record
    <3> QED
      BY <1>1, <1>3, <3>1 DEF Contract!ContractNext, Contract!Keep
  <2>4. CASE Put(w) /\ Resumes(store[d], record[w])
    <3>1. Contract!Advance(d)
      BY <1>1, <2>4
         DEF Resumes, Transition, Contract!Advance, Contract!Active, Contract!State
    <3> QED
      BY <1>1, <1>3, <3>1 DEF Contract!ContractNext, Contract!Keep
  <2>5. CASE Put(w) /\ Concludes(store[d], record[w], d \in undone)
    <3>1. Contract!ConcludeRollback(d)
      BY <1>1, <2>5
         DEF Concludes, Contract!ConcludeRollback, Contract!State, Contract!Record
    <3> QED
      BY <1>1, <1>3, <3>1 DEF Contract!ContractNext, Contract!Keep
  <2> QED
    BY <2>1, <2>2, <2>3, <2>4, <2>5 DEF InStep, Put
<1> QED
  BY <1>2, <1>3

\* A rollback action undoes a deployment whose record announces it, or a loose one.
LEMMA RollbackRefines ==
  ASSUME TypeOK, FabricOK, NEW w \in Workers, Rollback(w) \/ RetryRollback(w)
  PROVE  Contract!ContractNext \/ UNCHANGED <<store, undone, overrun>>
<1>1. /\ at[w] \in Deployments /\ store[at[w]] \in Records
      /\ UNCHANGED <<store, overrun>>
      /\ undone' \in {undone, undone \union {at[w]}}
  BY DEF Rollback, RetryRollback, TypeOK, Working
<1>2. CASE at[w] \in overrun
  <2>1. Contract!Record(at[w], store[at[w]])
    BY <1>1 DEF Contract!Record, TypeOK
  <2> QED
    BY <1>1, <1>2, <2>1 DEF Contract!ContractNext, Contract!Overwrite
<1>3. CASE at[w] \notin overrun /\ undone' = undone \union {at[w]}
  <2>1. store[at[w]].state = "ROLLING_BACK"
    BY <1>1, <1>3, FabricAssumption
       DEF FabricOK, InStepOK, Reliable, InStep, Rollback, RetryRollback
  <2> QED
    BY <1>1, <1>3, <2>1
       DEF Contract!ContractNext, Contract!Keep, Contract!Undo, Contract!State
<1> QED
  BY <1>1, <1>2, <1>3

\* Every step is a step of the contract or leaves the table as it is.
LEMMA StepRefines ==
  TypeOK /\ FabricOK /\ [Next]_vars => [Contract!ContractNext]_<<store, undone, overrun>>
<1> SUFFICES ASSUME TypeOK, FabricOK, Next
             PROVE  Contract!ContractNext \/ UNCHANGED <<store, undone, overrun>>
  BY DEF vars
<1>1. ASSUME NEW w \in Workers, MarkRollingBack(w) \/ Failover(w) \/ Put(w)
      PROVE  Contract!ContractNext
  BY <1>1, WriteRefines
<1>2. ASSUME NEW w \in Workers, Rollback(w) \/ RetryRollback(w)
      PROVE  Contract!ContractNext \/ UNCHANGED <<store, undone, overrun>>
  BY <1>2, RollbackRefines
<1>3. ASSUME NEW d \in Deployments, Expire(d)
      PROVE  Contract!ContractNext \/ UNCHANGED <<store, undone, overrun>>
  BY <1>3 DEF Expire, Contract!ContractNext, Contract!Loosen
<1>4. ASSUME NEW w \in Workers,
             \/ List(w) \/ Done(w) \/ Reconcile(w) \/ Resume(w) \/ Release(w)
             \/ Raise(w) \/ Crash(w) \/ \E d \in Deployments : Acquire(w, d) \/ Skip(w, d)
      PROVE  UNCHANGED <<store, undone, overrun>>
  BY <1>4 DEF List, Done, Reconcile, Resume, Release, Raise, Crash, Acquire, Skip, history
<1>5. ASSUME NEW n \in Nodes, NodeChanges(n)
      PROVE  UNCHANGED <<store, undone, overrun>>
  BY <1>5 DEF NodeChanges, history
<1> QED
  BY <1>1, <1>2, <1>3, <1>4, <1>5 DEF Next, Step

\* Recovery implements DeploymentContract: whatever crashes, conflicts or is tried again, a
\* stored deployment changes by one transition at a time, and its rollback is recorded as
\* it went, until a lease expires under its worker.
THEOREM Refinement == Spec => ImplementsContract
<1>1. Init => Contract!ContractInit
  BY DEF Init, Blank, Contract!ContractInit
<1> QED
  BY <1>1, StepRefines, TypeCorrect, FabricInvariance, PTL
     DEF Spec, ImplementsContract, Contract!ContractSpec, Contract!contractVars
=============================================================================
