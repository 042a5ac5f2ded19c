--------------------------- MODULE TaskQueueProofs ---------------------------
(***************************************************************************)
(* Proofs about TaskQueue, for any number of tasks and workers and any     *)
(* limit of attempts.                                                      *)
(***************************************************************************)
EXTENDS TaskQueue, TLAPS

Labels == Executing \union {"idle", "select", "take"}

\* Goto moves one worker and leaves the others where they are.
LEMMA GotoMoves ==
  ASSUME TypeOK, NEW w \in Workers, NEW label \in Labels, Goto(w, label)
  PROVE  /\ pc' \in [Workers -> Labels] /\ pc'[w] = label
         /\ \A v \in Workers \ {w} : pc'[v] = pc[v]
BY DEF Goto, TypeOK, Labels

\* A worker that returns is at no task; the others are where they were.
LEMMA ReturnMoves ==
  ASSUME TypeOK, NEW w \in Workers, Return(w)
  PROVE  /\ pc' \in [Workers -> Labels] /\ pc'[w] = "idle"
         /\ at' \in [Workers -> Tasks \union {None}] /\ at'[w] = None
         /\ seen' \in [Workers -> 0 .. MaxTakes] /\ take' \in [Workers -> 0 .. MaxTakes]
         /\ \A v \in Workers \ {w} : /\ pc'[v] = pc[v] /\ at'[v] = at[v]
                                     /\ seen'[v] = seen[v] /\ take'[v] = take[v]
<1>1. pc' \in [Workers -> Labels] /\ pc'[w] = "idle" /\ \A v \in Workers \ {w} : pc'[v] = pc[v]
  BY GotoMoves DEF Return, Labels
<1>2. at' \in [Workers -> Tasks \union {None}] /\ at'[w] = None
  BY DEF Return, TypeOK
<1>3. seen' \in [Workers -> 0 .. MaxTakes] /\ take' \in [Workers -> 0 .. MaxTakes]
  BY QueueAssumption DEF Return, TypeOK
<1> QED
  BY <1>1, <1>2, <1>3 DEF Return, TypeOK

\* The types of the rows.
RowsOK ==
  /\ status \in [Tasks -> {"absent", "queued", "leased", "completed", "dead_letter"}]
  /\ attempt \in [Tasks -> 0 .. MaxTakes]
  /\ owner \in [Tasks -> Workers \union {None}]
  /\ receipt \in [Tasks -> Workers \union {None}]
  /\ \A t \in Tasks : owner[t] # None <=> status[t] = "leased"
  /\ lapsed \subseteq {t \in Tasks : status[t] = "leased"}

\* The types of the workers.
WorkersOK ==
  /\ pc \in [Workers -> Labels]
  /\ at \in [Workers -> Tasks \union {None}]
  /\ seen \in [Workers -> 0 .. MaxTakes] /\ take \in [Workers -> 0 .. MaxTakes]
  /\ \A w \in Workers : at[w] # None <=> pc[w] \in Executing \union {"take"}

\* The two halves of the type invariant.
LEMMA TypeSplit == /\ TypeOK <=> RowsOK /\ WorkersOK
                   /\ TypeOK' <=> RowsOK' /\ WorkersOK'
BY DEF TypeOK, RowsOK, WorkersOK, Labels

\* A lease that ends leaves a row without owner.
LEMMA EndLeaseRow ==
  ASSUME TypeOK, NEW w \in Workers, at[w] \in Tasks,
         NEW s \in {"queued", "completed", "dead_letter"}, EndLease(w, s)
  PROVE  /\ status' \in [Tasks -> {"absent", "queued", "leased", "completed", "dead_letter"}]
         /\ owner' \in [Tasks -> Workers \union {None}]
         /\ status'[at[w]] = s /\ owner'[at[w]] = None
         /\ \A t \in Tasks \ {at[w]} : status'[t] = status[t] /\ owner'[t] = owner[t]
         /\ \A t \in Tasks : owner'[t] # None <=> status'[t] = "leased"
         /\ lapsed' \subseteq {t \in Tasks : status'[t] = "leased"}
<1>1. /\ status' \in [Tasks -> {"absent", "queued", "leased", "completed", "dead_letter"}]
      /\ owner' \in [Tasks -> Workers \union {None}]
  BY DEF EndLease, TypeOK
<1>2. /\ status'[at[w]] = s /\ owner'[at[w]] = None
      /\ \A t \in Tasks \ {at[w]} : status'[t] = status[t] /\ owner'[t] = owner[t]
  BY DEF EndLease, TypeOK
<1>3. \A t \in Tasks : owner'[t] # None <=> status'[t] = "leased"
  BY <1>2 DEF TypeOK
<1>4. lapsed' \subseteq {t \in Tasks : status'[t] = "leased"}
  BY <1>2 DEF EndLease, TypeOK
<1> QED
  BY <1>1, <1>2, <1>3, <1>4

\* fail either requeues or gives up.
LEMMA FailureStatus ==
  ASSUME NEW w \in Workers PROVE StatusAfterFailure(w) \in {"queued", "completed", "dead_letter"}
BY DEF StatusAfterFailure

-----------------------------------------------------------------------------
\* No rows and idle workers.
LEMMA TypeInit == Init => TypeOK
BY QueueAssumption DEF Init, TypeOK, Executing

\* Every step keeps the types: one case per action.
LEMMA TypeStep == TypeOK /\ [Next]_vars => TypeOK'
<1> SUFFICES ASSUME TypeOK, [Next]_vars PROVE RowsOK' /\ WorkersOK'
  BY TypeSplit
<1> USE TypeSplit, QueueAssumption
<1>1. ASSUME NEW t \in Tasks, Submit(t) PROVE RowsOK' /\ WorkersOK'
  BY <1>1 DEF Submit, RowsOK, WorkersOK, TypeOK
<1>2. ASSUME NEW t \in Tasks, Lapse(t) PROVE RowsOK' /\ WorkersOK'
  BY <1>2 DEF Lapse, RowsOK, WorkersOK, TypeOK
<1>3. ASSUME NEW w \in Workers, RecoverExpired(w) PROVE RowsOK' /\ WorkersOK'
  <2>1. WorkersOK'
    BY <1>3, GotoMoves DEF RecoverExpired, WorkersOK, Labels, Executing
  <2>2. RowsOK'
    BY <1>3 DEF RecoverExpired, RowsOK
  <2> QED
    BY <2>1, <2>2
<1>4. ASSUME NEW w \in Workers, Select(w) PROVE RowsOK' /\ WorkersOK'
  <2>1. RowsOK'
    BY <1>4 DEF Select, RowsOK
  <2>2. CASE Return(w)
    BY <2>1, <2>2, ReturnMoves DEF WorkersOK, Executing
  <2>3. ASSUME NEW t \in Tasks, at' = [at EXCEPT ![w] = t],
               seen' = [seen EXCEPT ![w] = attempt[t]], Goto(w, "take"), UNCHANGED take
        PROVE  WorkersOK'
    <3>1. seen' \in [Workers -> 0 .. MaxTakes] /\ at' \in [Workers -> Tasks \union {None}]
      BY <2>3 DEF WorkersOK, RowsOK
    <3> QED
      BY <2>3, <3>1, GotoMoves DEF WorkersOK, Labels, Executing
  <2> QED
    BY <1>4, <2>1, <2>2, <2>3 DEF Select
<1>5. ASSUME NEW w \in Workers, Take(w) PROVE RowsOK' /\ WorkersOK'
  <2>1. at[w] \in Tasks
    BY <1>5 DEF Take, WorkersOK, Executing
  <2>2. attempt' \in [Tasks -> 0 .. MaxTakes] /\ attempt[at[w]] + 1 \in 0 .. MaxTakes
    BY <1>5, <2>1 DEF Take, RowsOK
  <2>3. RowsOK'
    BY <1>5, <2>1, <2>2 DEF Take, RowsOK
  <2>4. take' \in [Workers -> 0 .. MaxTakes]
    BY <1>5, <2>2 DEF Take, WorkersOK
  <2>5. WorkersOK'
    BY <1>5, <2>4, GotoMoves DEF Take, WorkersOK, Labels, Executing
  <2> QED
    BY <2>3, <2>5
<1>6. ASSUME NEW w \in Workers, Miss(w) \/ Raise(w) PROVE RowsOK' /\ WorkersOK'
  BY <1>6, ReturnMoves DEF Miss, Raise, RowsOK, WorkersOK, Executing
<1>7. ASSUME NEW w \in Workers, Execute(w) \/ CompleteRaises(w) PROVE RowsOK' /\ WorkersOK'
  <2>1. \E label \in {"complete", "fail"} : Goto(w, label)
    BY <1>7 DEF Execute, CompleteRaises
  <2> QED
    BY <1>7, <2>1, GotoMoves
       DEF Execute, CompleteRaises, RowsOK, WorkersOK, Labels, Executing
<1>8. ASSUME NEW w \in Workers, Complete(w) \/ Fail(w) PROVE RowsOK' /\ WorkersOK'
  <2>1. at[w] \in Tasks /\ Return(w) /\ UNCHANGED attempt
    BY <1>8 DEF Complete, Fail, WorkersOK, Executing
  <2>2. \E s \in {"queued", "completed", "dead_letter"} : EndLease(w, s)
    BY <1>8, FailureStatus DEF Complete, Fail
  <2>3. receipt' \in [Tasks -> Workers \union {None}]
    BY <1>8 DEF Complete, Fail, RowsOK
  <2>4. RowsOK'
    BY <2>1, <2>2, <2>3, EndLeaseRow DEF RowsOK
  <2>5. WorkersOK'
    BY <2>1, ReturnMoves DEF WorkersOK, Executing
  <2> QED
    BY <2>4, <2>5
<1>9. CASE UNCHANGED vars
  BY <1>9 DEF vars, RowsOK, WorkersOK
<1> QED
  BY <1>1, <1>2, <1>3, <1>4, <1>5, <1>6, <1>7, <1>8, <1>9 DEF Next, Step

\* Rows, leases and workers keep their types, whatever lapses, raises or dies.
THEOREM TypeCorrect == Spec => []TypeOK
BY TypeInit, TypeStep, PTL DEF Spec

-----------------------------------------------------------------------------
\* What a worker knows of its task: the row it read is not ahead of the table, and as long
\* as it owns the task no other execution was started since it took it.
Knows(w) ==
  /\ pc[w] = "take" => seen[w] <= attempt[at[w]]
  /\ pc[w] \in Executing =>
       /\ seen[w] < take[w] /\ take[w] <= attempt[at[w]]
       /\ owner[at[w]] = w => take[w] = attempt[at[w]]

\* The inductive invariant.
IInv ==
  /\ TypeOK
  /\ \A w \in Workers : Knows(w)
  /\ GivenUpLate

\* A worker that owns its task and fails gives it up late enough.
LEMMA GivesUpLate ==
  ASSUME IInv, NEW w \in Workers, pc[w] \in Executing, Owns(w),
         StatusAfterFailure(w) = "dead_letter"
  PROVE  attempt[at[w]] >= MaxAttempts
<1>1. at[w] \in Tasks
  BY DEF IInv, TypeOK
<1>2. take[w] = attempt[at[w]] /\ seen[w] < take[w]
  BY DEF IInv, Knows, Owns
<1>3. seen[w] + 1 >= MaxAttempts
  BY DEF StatusAfterFailure
<1>4. seen[w] \in Nat /\ take[w] \in Nat /\ attempt[at[w]] \in Nat /\ MaxAttempts \in Nat
  BY <1>1, QueueAssumption DEF IInv, TypeOK
<1> QED
  BY <1>2, <1>3, <1>4

\* A worker keeps what it knows as long as it stays where it is, attempts are counted up,
\* and its task is neither given to it nor tried while it owns it.
LEMMA KnowsStill ==
  ASSUME TypeOK, TypeOK', NEW v \in Workers, Knows(v),
         at[v] # None =>
           /\ attempt[at[v]] <= attempt'[at[v]]
           /\ owner'[at[v]] = v => owner[at[v]] = v /\ attempt'[at[v]] = attempt[at[v]],
         pc'[v] = pc[v], at'[v] = at[v], seen'[v] = seen[v], take'[v] = take[v]
  PROVE  Knows(v)'
<1>1. CASE at[v] = None
  <2>1. pc'[v] \notin Executing \union {"take"}
    BY <1>1 DEF TypeOK
  <2> QED
    BY <2>1 DEF Knows
<1>2. CASE at[v] # None
  <2>1. at[v] \in Tasks
    BY <1>2 DEF TypeOK
  <2>2. /\ attempt[at[v]] \in Nat /\ attempt'[at[v]] \in Nat
        /\ seen[v] \in Nat /\ take[v] \in Nat
    BY <2>1, QueueAssumption DEF TypeOK
  <2> QED
    BY <1>2, <2>1, <2>2 DEF Knows
<1> QED
  BY <1>1, <1>2

\* Idle workers know nothing.
LEMMA InvInit == Init => IInv
<1> SUFFICES ASSUME Init PROVE IInv
  OBVIOUS
<1>1. \A w \in Workers : Knows(w)
  BY DEF Init, Knows, Executing
<1>2. GivenUpLate
  BY DEF Init, GivenUpLate
<1> QED
  BY <1>1, <1>2, TypeInit DEF IInv

\* Every step keeps the invariant: one case per action.
LEMMA InvStep == IInv /\ [Next]_vars => IInv'
<1> SUFFICES ASSUME IInv, [Next]_vars
             PROVE  (\A v \in Workers : Knows(v)') /\ GivenUpLate'
  BY TypeStep DEF IInv
<1>t. TypeOK /\ TypeOK'
  BY TypeStep DEF IInv
<1>k. /\ \A v \in Workers : Knows(v)
      /\ GivenUpLate
  BY DEF IInv
<1>a. \A v \in Workers : at[v] # None => at[v] \in Tasks /\ attempt[at[v]] \in Nat
  BY <1>t, QueueAssumption DEF TypeOK
<1>1. ASSUME NEW t \in Tasks, Submit(t) \/ Lapse(t)
      PROVE  (\A v \in Workers : Knows(v)') /\ GivenUpLate'
  <2>1. UNCHANGED <<attempt, owner, pc, at, seen, take>>
    BY <1>1 DEF Submit, Lapse
  <2>2. \A s \in Tasks : status'[s] = "dead_letter" => status[s] = "dead_letter"
    BY <1>1, <1>t DEF Submit, Lapse, TypeOK
  <2>3. \A v \in Workers : Knows(v)'
    BY <1>k, <2>1 DEF Knows
  <2> QED
    BY <1>k, <2>1, <2>2, <2>3 DEF GivenUpLate
<1>2. ASSUME NEW w \in Workers, RecoverExpired(w)
      PROVE  (\A v \in Workers : Knows(v)') /\ GivenUpLate'
  <2>1. UNCHANGED <<attempt, at, seen, take>>
    BY <1>2 DEF RecoverExpired
  <2>2. \A s \in Tasks : /\ status'[s] = "dead_letter" => status[s] = "dead_letter"
                         /\ owner'[s] # None => owner'[s] = owner[s]
    BY <1>2, <1>t DEF RecoverExpired, TypeOK
  <2>3. pc'[w] = "select" /\ \A v \in Workers \ {w} : pc'[v] = pc[v]
    BY <1>2, <1>t, GotoMoves DEF RecoverExpired, Labels
  <2>4. Knows(w)'
    BY <2>3 DEF Knows, Executing
  <2>5. \A v \in Workers \ {w} : Knows(v)'
    BY <1>t, <1>k, <1>a, <2>1, <2>2, <2>3, KnowsStill, QueueAssumption
  <2> QED
    BY <1>k, <2>1, <2>2, <2>4, <2>5 DEF GivenUpLate
<1>3. ASSUME NEW w \in Workers, Select(w)
      PROVE  (\A v \in Workers : Knows(v)') /\ GivenUpLate'
  <2>1. UNCHANGED <<status, attempt, owner>>
    BY <1>3 DEF Select
  <2>2. CASE Return(w)
    <3>1. Knows(w)'
      BY <1>t, <2>2, ReturnMoves DEF Knows, Executing
    <3>2. \A v \in Workers \ {w} : Knows(v)'
      BY <1>t, <1>k, <1>a, <2>1, <2>2, ReturnMoves, KnowsStill
    <3> QED
      BY <1>k, <2>1, <3>1, <3>2 DEF GivenUpLate
  <2>3. ASSUME NEW t \in Tasks, at' = [at EXCEPT ![w] = t],
               seen' = [seen EXCEPT ![w] = attempt[t]], Goto(w, "take"), UNCHANGED take
        PROVE  (\A v \in Workers : Knows(v)') /\ GivenUpLate'
    <3>1. pc'[w] = "take" /\ \A v \in Workers \ {w} : pc'[v] = pc[v]
      BY <1>t, <2>3, GotoMoves DEF Labels
    <3>2. at'[w] = t /\ seen'[w] = attempt[t] /\ attempt[t] \in Nat
      BY <1>t, <2>3, QueueAssumption DEF TypeOK
    <3>3. Knows(w)'
      BY <2>1, <3>1, <3>2 DEF Knows, Executing
    <3>4. \A v \in Workers \ {w} : at'[v] = at[v] /\ seen'[v] = seen[v] /\ take'[v] = take[v]
      BY <1>t, <2>3 DEF TypeOK
    <3>5. \A v \in Workers \ {w} : Knows(v)'
      BY <1>t, <1>k, <1>a, <2>1, <3>1, <3>4, KnowsStill
    <3> QED
      BY <1>k, <2>1, <3>3, <3>5 DEF GivenUpLate
  <2> QED
    BY <1>3, <2>2, <2>3 DEF Select
<1>4. ASSUME NEW w \in Workers, Take(w)
      PROVE  (\A v \in Workers : Knows(v)') /\ GivenUpLate'
  <2>1. at[w] \in Tasks /\ pc[w] = "take"
    BY <1>4, <1>t DEF Take, TypeOK
  <2>2. /\ attempt'[at[w]] = attempt[at[w]] + 1 /\ owner'[at[w]] = w
        /\ status'[at[w]] = "leased" /\ take'[w] = attempt[at[w]] + 1
        /\ \A t \in Tasks \ {at[w]} : /\ attempt'[t] = attempt[t] /\ owner'[t] = owner[t]
                                      /\ status'[t] = status[t]
        /\ \A v \in Workers \ {w} : take'[v] = take[v]
    BY <1>4, <1>t, <2>1 DEF Take, TypeOK
  <2>3. pc'[w] = "run" /\ \A v \in Workers \ {w} : pc'[v] = pc[v]
    BY <1>4, <1>t, GotoMoves DEF Take, Labels, Executing
  <2>4. UNCHANGED <<at, seen>>
    BY <1>4 DEF Take
  <2>5. Knows(w)'
    <3>1. seen[w] <= attempt[at[w]]
      BY <1>k, <2>1 DEF Knows
    <3>2. seen[w] \in Nat /\ attempt[at[w]] \in Nat
      BY <1>t, <2>1, QueueAssumption DEF TypeOK
    <3> QED
      BY <2>2, <2>3, <2>4, <3>1, <3>2 DEF Knows, Executing
  <2>6. \A v \in Workers \ {w} : Knows(v)'
    BY <1>t, <1>k, <1>a, <2>2, <2>3, <2>4, KnowsStill
  <2>7. GivenUpLate'
    BY <1>k, <2>1, <2>2 DEF GivenUpLate
  <2> QED
    BY <2>5, <2>6, <2>7
<1>5. ASSUME NEW w \in Workers, Miss(w) \/ Raise(w)
      PROVE  (\A v \in Workers : Knows(v)') /\ GivenUpLate'
  <2>1. UNCHANGED <<status, attempt, owner>> /\ Return(w)
    BY <1>5 DEF Miss, Raise
  <2>2. Knows(w)'
    BY <1>t, <2>1, ReturnMoves DEF Knows, Executing
  <2>3. \A v \in Workers \ {w} : Knows(v)'
    BY <1>t, <1>k, <1>a, <2>1, ReturnMoves, KnowsStill
  <2> QED
    BY <1>k, <2>1, <2>2, <2>3 DEF GivenUpLate
<1>6. ASSUME NEW w \in Workers, Execute(w) \/ CompleteRaises(w)
      PROVE  (\A v \in Workers : Knows(v)') /\ GivenUpLate'
  <2>1. UNCHANGED <<status, attempt, owner, at, seen, take>> /\ pc[w] \in Executing
    BY <1>6 DEF Execute, CompleteRaises, Executing
  <2>2. pc'[w] \in Executing /\ \A v \in Workers \ {w} : pc'[v] = pc[v]
    BY <1>6, <1>t, GotoMoves DEF Execute, CompleteRaises, Labels, Executing
  <2>3. Knows(w)'
    BY <1>k, <2>1, <2>2 DEF Knows, Executing
  <2>4. \A v \in Workers \ {w} : Knows(v)'
    BY <1>t, <1>k, <1>a, <2>1, <2>2, KnowsStill
  <2> QED
    BY <1>k, <2>1, <2>3, <2>4 DEF GivenUpLate
<1>7. ASSUME NEW w \in Workers, Complete(w) \/ Fail(w)
      PROVE  (\A v \in Workers : Knows(v)') /\ GivenUpLate'
  <2>1. /\ at[w] \in Tasks /\ pc[w] \in Executing /\ Owns(w) /\ Return(w)
        /\ UNCHANGED attempt
    BY <1>7, <1>t DEF Complete, Fail, TypeOK, Executing
  <2>2. PICK s \in {"queued", "completed", "dead_letter"} :
          EndLease(w, s) /\ (s = "dead_letter" => StatusAfterFailure(w) = "dead_letter")
    BY <1>7, FailureStatus DEF Complete, Fail
  <2>3. /\ status'[at[w]] = s /\ owner'[at[w]] = None
        /\ \A t \in Tasks \ {at[w]} : status'[t] = status[t] /\ owner'[t] = owner[t]
    BY <1>t, <2>1, <2>2, EndLeaseRow
  <2>4. Knows(w)'
    BY <1>t, <2>1, ReturnMoves DEF Knows, Executing
  <2>5. \A v \in Workers \ {w} : Knows(v)'
    BY <1>t, <1>k, <1>a, <2>1, <2>3, ReturnMoves, KnowsStill, QueueAssumption
  <2>6. GivenUpLate'
    BY <1>k, <2>1, <2>2, <2>3, GivesUpLate DEF GivenUpLate
  <2> QED
    BY <2>4, <2>5, <2>6
<1>8. CASE UNCHANGED vars
  <2>1. UNCHANGED <<status, attempt, owner, pc, at, seen, take>>
    BY <1>8 DEF vars
  <2> QED
    BY <1>k, <2>1 DEF Knows, GivenUpLate
<1> QED
  BY <1>1, <1>2, <1>3, <1>4, <1>5, <1>6, <1>7, <1>8 DEF Next, Step

\* The inductive invariant holds.
THEOREM Invariance == Spec => []IInv
BY InvInit, InvStep, PTL DEF Spec

\* No task is given up before max_attempts executions of it were started, although fail goes
\* by a row that may be out of date.
THEOREM GivenUpLateHolds == Spec => []GivenUpLate
<1>1. IInv => GivenUpLate
  BY DEF IInv
<1> QED
  BY <1>1, Invariance, PTL

\* A leased row whose lease has not lapsed ends only by complete or fail of its owner.
LEMMA OwnerStep ==
  ASSUME IInv, [Next]_vars, NEW t \in Tasks, t \notin lapsed,
         status[t] = "leased", status'[t] # "leased"
  PROVE  \E w \in Workers : /\ at[w] = t /\ pc[w] \in Executing /\ pc'[w] = "idle"
                            /\ owner[t] = w /\ take[w] = attempt[t]
<1>t. TypeOK
  BY DEF IInv
<1>1. PICK w \in Workers : Complete(w) \/ Fail(w)
  <2>1. ASSUME NEW s \in Tasks, Submit(s) \/ Lapse(s) PROVE FALSE
    BY <2>1, <1>t DEF Submit, Lapse, TypeOK
  <2>2. ASSUME NEW w \in Workers, RecoverExpired(w) PROVE FALSE
    BY <2>2 DEF RecoverExpired
  <2>3. ASSUME NEW w \in Workers, Take(w) PROVE FALSE
    BY <2>3, <1>t DEF Take, TypeOK
  <2>4. ASSUME NEW w \in Workers,
               Select(w) \/ Miss(w) \/ Execute(w) \/ CompleteRaises(w) \/ Raise(w)
        PROVE  FALSE
    BY <2>4 DEF Select, Miss, Execute, CompleteRaises, Raise
  <2>5. CASE UNCHANGED vars
    BY <2>5 DEF vars
  <2> QED
    BY <2>1, <2>2, <2>3, <2>4, <2>5 DEF Next, Step
<1>2. at[w] \in Tasks /\ pc[w] \in Executing /\ Owns(w) /\ Return(w)
  BY <1>1, <1>t DEF Complete, Fail, TypeOK, Executing
<1>3. \E s \in {"queued", "completed", "dead_letter"} : EndLease(w, s)
  BY <1>1, FailureStatus DEF Complete, Fail
<1>4. at[w] = t
  BY <1>t, <1>2, <1>3, EndLeaseRow
<1>5. pc'[w] = "idle"
  BY <1>t, <1>2, ReturnMoves
<1>6. owner[t] = w /\ take[w] = attempt[t]
  BY <1>2, <1>4 DEF Owns, IInv, Knows
<1> QED
  BY <1>2, <1>4, <1>5, <1>6

\* An unexpired lease is ended by its owner alone, in the execution it was taken for.
THEOREM OnlyOwnerEndsHolds == Spec => OnlyOwnerEnds
<1>1. IInv /\ [Next]_vars =>
        \A t \in Tasks \ lapsed :
          status[t] = "leased" /\ status'[t] # "leased" =>
            \E w \in Workers : /\ at[w] = t /\ pc[w] \in Executing /\ pc'[w] = "idle"
                               /\ owner[t] = w /\ take[w] = attempt[t]
  BY OwnerStep
<1>2. IInv /\ [Next]_vars =>
        [\A t \in Tasks \ lapsed :
          status[t] = "leased" /\ status'[t] # "leased" =>
            \E w \in Workers : /\ at[w] = t /\ pc[w] \in Executing /\ pc'[w] = "idle"
                               /\ owner[t] = w /\ take[w] = attempt[t]]_vars
  BY <1>1
<1> QED
  BY <1>2, Invariance, PTL DEF Spec, OnlyOwnerEnds

\* A step leaves ended rows and receipts alone, but for the receipt complete writes.
LEMMA EndsStep ==
  ASSUME TypeOK, [Next]_vars, NEW t \in Tasks
  PROVE  /\ status[t] \in {"completed", "dead_letter"} =>
              status'[t] = status[t] /\ receipt'[t] = receipt[t]
         /\ receipt'[t] # receipt[t] =>
              receipt'[t] = owner[t] /\ status'[t] = "completed"
<1>1. ASSUME NEW s \in Tasks, Submit(s) \/ Lapse(s)
      PROVE  receipt' = receipt /\ (status'[t] # status[t] => status[t] = "absent")
  BY <1>1 DEF Submit, Lapse, TypeOK
<1>2. ASSUME NEW w \in Workers, RecoverExpired(w)
      PROVE  receipt' = receipt /\ (status'[t] # status[t] => status[t] = "leased")
  BY <1>2 DEF RecoverExpired, TypeOK
<1>3. ASSUME NEW w \in Workers, Take(w)
      PROVE  receipt' = receipt /\ (status'[t] # status[t] => status[t] = "queued")
  BY <1>3 DEF Take, TypeOK
<1>4. ASSUME NEW w \in Workers,
             Select(w) \/ Miss(w) \/ Execute(w) \/ CompleteRaises(w) \/ Raise(w)
      PROVE  UNCHANGED <<receipt, status>>
  BY <1>4 DEF Select, Miss, Execute, CompleteRaises, Raise
<1>5. ASSUME NEW w \in Workers, Fail(w)
      PROVE  receipt' = receipt /\ (status'[t] # status[t] => status[t] = "leased")
  BY <1>5 DEF Fail, Owns, EndLease, TypeOK
<1>6. ASSUME NEW w \in Workers, Complete(w)
      PROVE  /\ status'[t] # status[t] \/ receipt'[t] # receipt[t] => status[t] = "leased"
             /\ receipt'[t] # receipt[t] =>
                  receipt'[t] = owner[t] /\ status'[t] = "completed"
  <2>1. at[w] \in Tasks
    BY <1>6 DEF Complete, TypeOK, Executing
  <2> QED
    BY <1>6, <2>1 DEF Complete, Owns, EndLease, TypeOK
<1>7. CASE UNCHANGED vars
  BY <1>7 DEF vars
<1> QED
  BY <1>1, <1>2, <1>3, <1>4, <1>5, <1>6, <1>7 DEF Next, Step

\* A task ends once, and its receipt is that of the completion.
THEOREM EndsOnceHolds == Spec => EndsOnce
<1>1. TypeOK /\ [Next]_vars =>
        [\A t \in Tasks :
           /\ status[t] \in {"completed", "dead_letter"} =>
                status'[t] = status[t] /\ receipt'[t] = receipt[t]
           /\ receipt'[t] # receipt[t] =>
                receipt'[t] = owner[t] /\ status'[t] = "completed"]_vars
  BY EndsStep
<1> QED
  BY <1>1, TypeCorrect, PTL DEF Spec, EndsOnce

-----------------------------------------------------------------------------
(* TaskContract.                                                            *)

\* A lease that ends is the end of an execution.
LEMMA EndRefines ==
  ASSUME TypeOK, NEW w \in Workers, at[w] \in Tasks, Owns(w),
         NEW s \in {"queued", "completed", "dead_letter"}, EndLease(w, s), UNCHANGED attempt
  PROVE  Contract!End(at[w], s)
BY DEF Owns, EndLease, Contract!End

\* Completion is the contract's, with the receipt of the holder; a failure tries the task
\* again or gives it up.
LEMMA OutcomeRefines ==
  ASSUME IInv, NEW w \in Workers, Complete(w) \/ Fail(w)
  PROVE  Contract!ContractNext
<1>t. TypeOK
  BY DEF IInv
<1>1. at[w] \in Tasks /\ pc[w] \in Executing /\ Owns(w) /\ UNCHANGED attempt
  BY <1>t DEF Complete, Fail, TypeOK, Executing
<1>2. CASE Complete(w)
  <2>1. Contract!End(at[w], "completed")
    BY <1>t, <1>1, <1>2, EndRefines DEF Complete
  <2>2. receipt' = [receipt EXCEPT ![at[w]] = owner[at[w]]]
    BY <1>1, <1>2 DEF Complete, Owns
  <2> QED
    BY <1>1, <2>1, <2>2 DEF Contract!ContractNext, Contract!Succeed
<1>3. CASE Fail(w) /\ StatusAfterFailure(w) = "queued"
  <2>1. Contract!End(at[w], "queued")
    BY <1>t, <1>1, <1>3, EndRefines DEF Fail
  <2> QED
    BY <1>1, <1>3, <2>1 DEF Fail, Contract!ContractNext, Contract!TryAgain
<1>4. CASE Fail(w) /\ StatusAfterFailure(w) = "dead_letter"
  <2>1. Contract!End(at[w], "dead_letter")
    BY <1>t, <1>1, <1>4, EndRefines DEF Fail
  <2>2. attempt[at[w]] >= MaxAttempts
    BY <1>1, <1>4, GivesUpLate
  <2> QED
    BY <1>1, <1>4, <2>1, <2>2 DEF Fail, Contract!ContractNext, Contract!GiveUp
<1> QED
  BY <1>2, <1>3, <1>4 DEF StatusAfterFailure

\* Every step is a step of the contract or leaves the rows as they are.
LEMMA StepRefines ==
  IInv /\ [Next]_vars => [Contract!ContractNext]_<<status, attempt, owner, lapsed, receipt>>
<1> SUFFICES ASSUME IInv, Next
             PROVE  \/ Contract!ContractNext
                    \/ UNCHANGED <<status, attempt, owner, lapsed, receipt>>
  BY DEF vars
<1>1. ASSUME NEW t \in Tasks, Submit(t) PROVE Contract!ContractNext
  BY <1>1 DEF Submit, Contract!ContractNext, Contract!Enqueue
<1>2. ASSUME NEW t \in Tasks, Lapse(t) PROVE Contract!ContractNext
  BY <1>2 DEF Lapse, Contract!ContractNext, Contract!RunOut
<1>3. ASSUME NEW w \in Workers, RecoverExpired(w) PROVE Contract!ContractNext
  BY <1>3 DEF RecoverExpired, Contract!ContractNext, Contract!Requeue
<1>4. ASSUME NEW w \in Workers, Take(w) PROVE Contract!ContractNext
  <2>1. at[w] \in Tasks
    BY <1>4 DEF Take, IInv, TypeOK, Executing
  <2> QED
    BY <1>4, <2>1 DEF Take, Contract!ContractNext, Contract!Start
<1>5. ASSUME NEW w \in Workers,
             Select(w) \/ Miss(w) \/ Execute(w) \/ CompleteRaises(w) \/ Raise(w)
      PROVE  UNCHANGED <<status, attempt, owner, lapsed, receipt>>
  BY <1>5 DEF Select, Miss, Execute, CompleteRaises, Raise
<1>6. ASSUME NEW w \in Workers, Complete(w) \/ Fail(w) PROVE Contract!ContractNext
  BY <1>6, OutcomeRefines
<1> QED
  BY <1>1, <1>2, <1>3, <1>4, <1>5, <1>6 DEF Next, Step

\* The workers, whatever they know of their tasks, implement TaskContract.
THEOREM Refinement == Spec => ImplementsContract
<1>1. Init => Contract!ContractInit
  BY DEF Init, Contract!ContractInit
<1> QED
  BY <1>1, StepRefines, Invariance, PTL
     DEF Spec, ImplementsContract, Contract!ContractSpec, Contract!contractVars
=============================================================================
