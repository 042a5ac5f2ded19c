------------------------- MODULE RefundRecoveryProofs -------------------------
(***************************************************************************)
(* Proofs about RefundRecovery, for any number of workers, payments and    *)
(* amounts.                                                                *)
(***************************************************************************)
EXTENDS RefundRecovery, TLAPS

Outcomes == {"inTransit", "executed", "rejected"}

\* The rows the statements write are rows of the table.
LEMMA RowTypes ==
  /\ NoRow \in Row /\ InQuarantine \in Row
  /\ \A s \in {"succeeded", "failed"} : [status |-> s, reconciliationRequired |-> FALSE] \in Row
BY DEF NoRow, InQuarantine, Row

\* What SetTerminal does to the table.
LEMMA TerminalRow ==
  ASSUME operations \in [RefundIds -> Row], NEW r \in RefundIds,
         NEW s \in {"succeeded", "failed"}, SetTerminal(r, s)
  PROVE  /\ operations' \in [RefundIds -> Row]
         /\ Status(r)' = s
         /\ \A q \in RefundIds \ {r} : operations'[q] = operations[q]
BY RowTypes DEF SetTerminal, Status

\* Goto moves one worker and leaves the others where they are.
LEMMA GotoMoves ==
  ASSUME pc \in [Workers -> Working \union {"idle", "next"}], NEW w \in Workers,
         NEW label \in Working \union {"idle", "next"}, Goto(w, label)
  PROVE  /\ pc' \in [Workers -> Working \union {"idle", "next"}]
         /\ pc'[w] = label
         /\ \A v \in Workers \ {w} : pc'[v] = pc[v]
BY DEF Goto

-----------------------------------------------------------------------------
\* No rows, no claims and idle workers.
LEMMA TypeInit == Init => TypeOK
BY RowTypes DEF Init, TypeOK, Working

\* A step of a worker that stays at its refund.
Stays(w) ==
  /\ UNCHANGED <<claim, at>>
  /\ pc[w] \in Working /\ pc'[w] \in Working
  /\ pc' \in [Workers -> Working \union {"idle", "next"}]
  /\ \A v \in Workers \ {w} : pc'[v] = pc[v]

\* Between claim and release a worker stays at its refund.
LEMMA StaysAtRefund ==
  ASSUME TypeOK, NEW w \in Workers,
         \/ Load(w) \/ Reserve(w) \/ Lookup(w) \/ ResolveSucceeded(w) \/ ResolveFailed(w)
         \/ Finalize(w) \/ Defer(w) \/ Throw(w) \/ AnswerLost(w) \/ ThrowInDefer(w)
  PROVE  Stays(w) /\ at[w] \in RefundIds
<1>1. pc[w] \in Working /\ at[w] \in RefundIds /\ UNCHANGED <<claim, at>>
  BY DEF TypeOK, Working, Load, Reserve, Lookup, ResolveSucceeded, ResolveFailed, Finalize,
         Defer, Throw, AnswerLost, ThrowInDefer, history
<1>2. \E label \in Working : Goto(w, label)
  BY DEF Working, Load, Reserve, Lookup, ResolveSucceeded, ResolveFailed, Finalize,
         Defer, Throw, AnswerLost, ThrowInDefer
<1> QED
  BY <1>1, <1>2, GotoMoves DEF Stays, TypeOK

\* Every step keeps the types: one case per action.
LEMMA TypeStep == TypeOK /\ [Next]_vars => TypeOK'
<1> SUFFICES ASSUME TypeOK, [Next]_vars PROVE TypeOK'
  OBVIOUS
<1>1. ASSUME NEW w \in Workers, List(w) \/ Done(w)
      PROVE  TypeOK'
  BY <1>1 DEF List, Done, Goto, world, history, TypeOK, Working
<1>2. ASSUME NEW w \in Workers, NEW r \in RefundIds, Claim(w, r) \/ Skip(w, r)
      PROVE  TypeOK'
  BY <1>2, RecoveryAssumption DEF Claim, Skip, Take, Goto, world, history, TypeOK, Working
<1>3. ASSUME NEW w \in Workers, Load(w) \/ Reserve(w) \/ Lookup(w) \/ Throw(w)
      PROVE  TypeOK'
  BY <1>3, StaysAtRefund
     DEF Load, Reserve, Lookup, Throw, Stays, world, history, TypeOK
<1>4. ASSUME NEW w \in Workers, ResolveSucceeded(w) \/ ResolveFailed(w) \/ AnswerLost(w)
      PROVE  TypeOK'
  <2>1. Stays(w) /\ at[w] \in RefundIds
    BY <1>4, StaysAtRefund
  <2>2. \/ operations' = operations
        \/ SetTerminal(at[w], "succeeded")
        \/ SetTerminal(at[w], "failed")
    BY <1>4 DEF ResolveSucceeded, ResolveFailed, AnswerLost
  <2>3. operations' \in [RefundIds -> Row]
    BY <2>1, <2>2, TerminalRow DEF TypeOK
  <2>4. /\ resolved' \subseteq RefundIds /\ abandoned' \subseteq RefundIds
        /\ UNCHANGED <<world, queue, finalized, lapsed>>
    BY <1>4, <2>1 DEF ResolveSucceeded, ResolveFailed, AnswerLost, history, TypeOK
  <2>5. {resolved, abandoned, lapsed}' \subseteq SUBSET RefundIds
    BY <2>4 DEF TypeOK
  <2>6. \A v \in Workers : at'[v] = None <=> pc'[v] \notin Working
    BY <2>1 DEF Stays, TypeOK
  <2> QED
    BY <2>1, <2>3, <2>4, <2>5, <2>6 DEF Stays, world, TypeOK
<1>5. ASSUME NEW w \in Workers, Finalize(w) \/ Defer(w) \/ ThrowInDefer(w)
      PROVE  TypeOK'
  <2>1. Stays(w) /\ at[w] \in RefundIds
    BY <1>5, StaysAtRefund
  <2>2. abandoned \subseteq RefundIds
    BY DEF TypeOK
  <2>3. CASE Finalize(w)
    <3>1. finalized' \in [RefundIds -> SUBSET Workers] /\ abandoned' \subseteq RefundIds
      BY <2>1, <2>2, <2>3 DEF Finalize, TypeOK
    <3> QED
      BY <2>1, <2>3, <3>1 DEF Finalize, Stays, world, TypeOK
  <2>4. CASE Defer(w) \/ ThrowInDefer(w)
    <3>1. due' \in [RefundIds -> BOOLEAN] /\ queue' \in [Workers -> SUBSET RefundIds]
      BY <2>1, <2>4 DEF Defer, ThrowInDefer, world, TypeOK
    <3> QED
      BY <2>1, <2>4, <3>1 DEF Defer, ThrowInDefer, Stays, world, history, TypeOK
  <2> QED
    BY <1>5, <2>3, <2>4
<1>6. ASSUME NEW w \in Workers, Release(w)
      PROVE  TypeOK'
  <2>1. at[w] \in RefundIds
    BY <1>6 DEF Release, TypeOK, Working
  <2> QED
    BY <1>6, <2>1 DEF Release, Goto, world, history, TypeOK, Working
<1>7. ASSUME NEW w \in Workers, Crash(w)
      PROVE  TypeOK'
  BY <1>7 DEF Crash, Goto, world, TypeOK, Working
<1>8. ASSUME NEW r \in RefundIds,
             ClaimExpires(r) \/ BecomesDue(r) \/ EntersQuarantine(r) \/ Decide(r)
      PROVE  TypeOK'
  <2>1. CASE ClaimExpires(r)
    <3>1. claim' \in [RefundIds -> Workers \union {None, Dead}] /\ lapsed' \subseteq RefundIds
      BY <2>1 DEF ClaimExpires, TypeOK
    <3> QED
      BY <2>1, <3>1 DEF ClaimExpires, world, TypeOK
  <2>2. CASE BecomesDue(r)
    <3>1. due' \in [RefundIds -> BOOLEAN]
      BY <2>2 DEF BecomesDue, TypeOK
    <3> QED
      BY <2>2, <3>1 DEF BecomesDue, history, TypeOK
  <2>3. CASE EntersQuarantine(r)
    <3>1. operations' \in [RefundIds -> Row]
      BY <2>3, RowTypes DEF EntersQuarantine, TypeOK
    <3> QED
      BY <2>3, <3>1 DEF EntersQuarantine, world, history, TypeOK
  <2>4. CASE Decide(r)
    <3>1. provider' \in [RefundIds -> {"inTransit", "executed", "rejected"}]
      BY <2>4 DEF Decide, TypeOK
    <3> QED
      BY <2>4, <3>1 DEF Decide, history, TypeOK
  <2> QED
    BY <1>8, <2>1, <2>2, <2>3, <2>4
<1>9. ASSUME NEW r \in RefundIds, ResolvedElsewhere(r) \/ ConfirmedAtOnce(r)
      PROVE  TypeOK'
  BY <1>9, TerminalRow DEF ResolvedElsewhere, ConfirmedAtOnce, world, history, TypeOK
<1>10. CASE UNCHANGED vars
  BY <1>10 DEF vars, TypeOK
<1> QED
  BY <1>1, <1>2, <1>3, <1>4, <1>5, <1>6, <1>7, <1>8, <1>9, <1>10 DEF Next, Step

\* Types, and a worker is at a refund exactly while it works on it.
THEOREM TypeCorrect == Spec => []TypeOK
BY TypeInit, TypeStep, PTL DEF Spec

-----------------------------------------------------------------------------
(* The inductive invariant.  What a row says is true of the provider; and   *)
(* as long as no claim of a refund expired under its worker, who works on   *)
(* it holds its claim, it is due, and nobody has finalized it.              *)

Deciding == {"load", "reserve", "lookup", "resolveSucceeded", "resolveFailed"}

Knows(w) ==
  /\ pc[w] = "resolveSucceeded" => provider[at[w]] = "executed"
  /\ pc[w] = "resolveFailed" => provider[at[w]] = "rejected"
  /\ pc[w] = "finalize" => Status(at[w]) = "succeeded"

Reliable(w) == at[w] # None /\ at[w] \notin lapsed

Alone(w) ==
  Reliable(w) =>
    /\ claim[at[w]] = w
    /\ pc[w] \in Deciding => due[at[w]]
    /\ pc[w] # "release" => finalized[at[w]] = {}

WorkersOK == \A w \in Workers : Knows(w) /\ Alone(w)

RecoveryOK ==
  WorkersOK /\ ResolutionIsTrue /\ FinalizedOnceUntilLapse /\ OnlyFailureAbandons

\* No worker is at a refund and nothing was resolved.
LEMMA RecoveryInit == Init => RecoveryOK
BY DEF Init, RecoveryOK, WorkersOK, Knows, Alone, Reliable, ResolutionIsTrue,
       FinalizedOnceUntilLapse, OnlyFailureAbandons, Status, NoRow

\* A row that is not in quarantine, and the outcome of a decided refund, stay.
Settles ==
  \A r \in RefundIds :
    /\ Status(r) = "succeeded" => Status(r)' = "succeeded"
    /\ provider[r] # "inTransit" => provider'[r] = provider[r]
    /\ Status(r)' = "succeeded" => provider'[r] = "executed"
    /\ Status(r)' = "failed" => provider'[r] = "rejected"

\* The provider decides once, and terminal rows are never written again.
LEMMA SettlesStep == TypeOK /\ RecoveryOK /\ [Next]_vars => Settles
<1> SUFFICES ASSUME TypeOK, RecoveryOK, [Next]_vars PROVE Settles
  OBVIOUS
<1>1. CASE UNCHANGED <<operations, provider>>
  BY <1>1 DEF Settles, RecoveryOK, ResolutionIsTrue, Status
<1>2. ASSUME NEW r \in RefundIds, NEW s \in {"succeeded", "failed"},
             IsQuarantined(r) \/ CanInsert(r), SetTerminal(r, s), UNCHANGED provider,
             provider[r] = IF s = "succeeded" THEN "executed" ELSE "rejected"
      PROVE  Settles
  <2>1. /\ Status(r)' = s /\ Status(r) # "succeeded"
        /\ \A q \in RefundIds \ {r} : Status(q)' = Status(q)
    BY <1>2, TerminalRow DEF TypeOK, Status, IsQuarantined, IsProcessing, CanInsert
  <2> QED
    BY <1>2, <2>1 DEF Settles, RecoveryOK, ResolutionIsTrue
<1>3. ASSUME NEW w \in Workers, ResolveSucceeded(w) \/ ResolveFailed(w) \/ AnswerLost(w)
      PROVE  Settles
  <2>1. /\ at[w] \in RefundIds
        /\ pc[w] = "resolveSucceeded" => provider[at[w]] = "executed"
        /\ pc[w] = "resolveFailed" => provider[at[w]] = "rejected"
    BY <1>3, StaysAtRefund DEF RecoveryOK, WorkersOK, Knows
  <2>2. UNCHANGED provider
    BY <1>3 DEF ResolveSucceeded, ResolveFailed, AnswerLost, world
  <2>3. \/ UNCHANGED operations
        \/ /\ IsQuarantined(at[w]) /\ pc[w] = "resolveSucceeded"
           /\ SetTerminal(at[w], "succeeded")
        \/ /\ IsQuarantined(at[w]) /\ pc[w] = "resolveFailed"
           /\ SetTerminal(at[w], "failed")
    BY <1>3 DEF ResolveSucceeded, ResolveFailed, AnswerLost
  <2> QED
    BY <1>1, <1>2, <2>1, <2>2, <2>3
<1>4. ASSUME NEW r \in RefundIds, ResolvedElsewhere(r) \/ ConfirmedAtOnce(r)
      PROVE  Settles
  BY <1>2, <1>4 DEF ResolvedElsewhere, ConfirmedAtOnce, world
<1>5. ASSUME NEW r \in RefundIds, EntersQuarantine(r)
      PROVE  Settles
  BY <1>5 DEF EntersQuarantine, CanInsert, InQuarantine, world, Settles, Status, RecoveryOK,
              ResolutionIsTrue, TypeOK
<1>6. ASSUME NEW r \in RefundIds, Decide(r)
      PROVE  Settles
  BY <1>6 DEF Decide, Settles, Status, RecoveryOK, ResolutionIsTrue, TypeOK
<1>7. \/ UNCHANGED <<operations, provider>>
      \/ \E w \in Workers : ResolveSucceeded(w) \/ ResolveFailed(w) \/ AnswerLost(w)
      \/ \E r \in RefundIds : \/ ResolvedElsewhere(r) \/ ConfirmedAtOnce(r)
                              \/ EntersQuarantine(r) \/ Decide(r)
  BY DEF vars, Next, Step, List, Done, Load, Reserve, Lookup, Finalize, Defer, Release, Throw,
         ThrowInDefer, Claim, Take, Skip, Crash, ClaimExpires, BecomesDue, world, history
<1> QED
  BY <1>1, <1>3, <1>4, <1>5, <1>6, <1>7

\* A worker keeps what it relies on through a step that is not its own.
LEMMA OthersKeep ==
  ASSUME TypeOK, RecoveryOK, Settles, NEW v \in Workers,
         UNCHANGED <<pc[v], at[v]>>, lapsed \subseteq lapsed',
         Reliable(v)' =>
           /\ UNCHANGED <<claim[at[v]], finalized[at[v]]>>
           /\ due[at[v]] => due'[at[v]]
  PROVE  Knows(v)' /\ Alone(v)'
<1>1. Knows(v) /\ Alone(v)
  BY DEF RecoveryOK, WorkersOK
<1>2. pc[v] \in Working => at[v] \in RefundIds
  BY DEF TypeOK
<1>3. Knows(v)'
  BY <1>1, <1>2 DEF Knows, Settles, Working
<1>4. Alone(v)'
  BY <1>1 DEF Alone, Reliable
<1> QED
  BY <1>3, <1>4

\* Two workers at one refund: some claim of it expired.
LEMMA ReliableAlone ==
  ASSUME WorkersOK, NEW v \in Workers, NEW w \in Workers \ {v}, Reliable(v)
  PROVE  at[w] # at[v]
BY DEF WorkersOK, Alone, Reliable

\* A step of worker w that stays at its refund.
LEMMA OthersKeepAt ==
  ASSUME TypeOK, RecoveryOK, Settles, NEW w \in Workers, Stays(w), at[w] \in RefundIds,
         lapsed' = lapsed,
         \A r \in RefundIds \ {at[w]} : UNCHANGED <<due[r], finalized[r]>>
  PROVE  \A v \in Workers \ {w} : Knows(v)' /\ Alone(v)'
<1> SUFFICES ASSUME NEW v \in Workers \ {w} PROVE Knows(v)' /\ Alone(v)'
  OBVIOUS
<1>1. UNCHANGED <<pc[v], at[v], claim>>
  BY DEF Stays
<1>2. ASSUME Reliable(v)' PROVE at[v] # at[w] /\ at[v] \in RefundIds
  BY <1>1, <1>2, ReliableAlone DEF Reliable, RecoveryOK, TypeOK
<1> QED
  BY <1>1, <1>2, OthersKeep

\* What a worker knows of its refund, and that it is alone with it, survives its own steps
\* and those of others until the claim expires.
LEMMA WorkersStep == TypeOK /\ RecoveryOK /\ Settles /\ [Next]_vars => WorkersOK'
<1> SUFFICES ASSUME TypeOK, RecoveryOK, Settles, [Next]_vars PROVE WorkersOK'
  OBVIOUS
<1>0. WorkersOK
  BY DEF RecoveryOK
<1>1. ASSUME NEW w \in Workers, List(w) \/ Done(w)
      PROVE  WorkersOK'
  <2>1. UNCHANGED <<at, claim, world, history>> /\ \A v \in Workers \ {w} : pc'[v] = pc[v]
    BY <1>1 DEF List, Done, Goto, TypeOK
  <2>2. at[w] = None /\ pc'[w] \in {"idle", "next"}
    BY <1>1 DEF List, Done, Goto, TypeOK, Working
  <2>3. Knows(w)' /\ Alone(w)'
    BY <2>1, <2>2 DEF Knows, Alone, Reliable
  <2> QED
    BY <2>1, <2>3, OthersKeep DEF WorkersOK, world, history
<1>2. ASSUME NEW w \in Workers, NEW r \in RefundIds, Skip(w, r)
      PROVE  WorkersOK'
  BY <1>2, OthersKeep DEF WorkersOK, Skip, world, history
<1>3. ASSUME NEW w \in Workers, NEW r \in RefundIds, Claim(w, r)
      PROVE  WorkersOK'
  <2>1. /\ UNCHANGED <<operations, world, history>>
        /\ \A v \in Workers \ {w} : UNCHANGED <<pc[v], at[v]>>
        /\ \A q \in RefundIds \ {r} : claim'[q] = claim[q]
        /\ claim'[r] = w /\ at'[w] = r /\ pc'[w] = "load"
        /\ IsQuarantined(r) /\ due[r] /\ claim[r] = None
    BY <1>3 DEF Claim, Take, Goto, TypeOK
  <2>2. finalized[r] = {}
    BY <2>1 DEF RecoveryOK, ResolutionIsTrue, IsQuarantined, IsProcessing
  <2>3. Knows(w)' /\ Alone(w)'
    BY <2>1, <2>2 DEF Knows, Alone, Reliable, world, history
  <2>4. ASSUME NEW v \in Workers \ {w} PROVE Knows(v)' /\ Alone(v)'
    <3>1. Reliable(v)' => at[v] # r
      BY <1>0, <2>1, RecoveryAssumption DEF WorkersOK, Alone, Reliable, history
    <3>2. Reliable(v)' => at[v] \in RefundIds
      BY <2>1 DEF Reliable, TypeOK
    <3> QED
      BY <2>1, <3>1, <3>2, OthersKeep DEF world, history
  <2> QED
    BY <2>3, <2>4 DEF WorkersOK
<1>4. ASSUME NEW w \in Workers,
             \/ Load(w) \/ Reserve(w) \/ Lookup(w) \/ ResolveSucceeded(w) \/ ResolveFailed(w)
             \/ Finalize(w) \/ Defer(w) \/ Throw(w) \/ AnswerLost(w) \/ ThrowInDefer(w)
      PROVE  WorkersOK'
  <2>1. Stays(w) /\ at[w] \in RefundIds /\ Knows(w) /\ Alone(w)
    BY <1>0, <1>4, StaysAtRefund DEF WorkersOK
  <2>2. /\ UNCHANGED lapsed
        /\ \A r \in RefundIds \ {at[w]} : UNCHANGED <<due[r], finalized[r]>>
    BY <1>4, <2>1
       DEF Load, Reserve, Lookup, ResolveSucceeded, ResolveFailed, Finalize, Defer, Throw,
           AnswerLost, ThrowInDefer, world, history, TypeOK
  <2>3. Knows(w)'
    <3>1. CASE Load(w) \/ Throw(w) \/ AnswerLost(w) \/ Finalize(w) \/ Defer(w) \/ ThrowInDefer(w)
      BY <3>1 DEF Load, Throw, AnswerLost, Finalize, Defer, ThrowInDefer, Goto, Knows, TypeOK
    <3>2. CASE Reserve(w) \/ Lookup(w)
      <4>1. Status(at[w]) = "succeeded" <=> ReservationKind(at[w]) = "succeeded"
        BY DEF ReservationKind
      <4> QED
        BY <2>1, <3>2, <4>1 DEF Reserve, Lookup, Goto, Knows, Stays, world, TypeOK, Status
    <3>3. CASE ResolveSucceeded(w) \/ ResolveFailed(w)
      <4>1. pc'[w] = "finalize" => Status(at[w])' = "succeeded"
        BY <2>1, <3>3, TerminalRow
           DEF ResolveSucceeded, ResolveFailed, Goto, Stays, TypeOK, Status
      <4>2. pc'[w] \in {"finalize", "release", "defer"}
        BY <3>3 DEF ResolveSucceeded, ResolveFailed, Goto, TypeOK
      <4> QED
        BY <2>1, <4>1, <4>2 DEF Knows, Stays
    <3> QED
      BY <1>4, <3>1, <3>2, <3>3
  <2>4. ASSUME Reliable(w)'
        PROVE  /\ claim'[at'[w]] = w
               /\ pc'[w] \in Deciding => due'[at'[w]]
               /\ pc'[w] # "release" => finalized'[at'[w]] = {}
    <3>1. /\ UNCHANGED <<at, claim>> /\ claim[at[w]] = w
          /\ pc[w] \in Deciding => due[at[w]]
          /\ pc[w] # "release" => finalized[at[w]] = {}
      BY <2>1, <2>2, <2>4 DEF Alone, Reliable, Stays
    <3>2. /\ pc[w] # "release"
          /\ pc'[w] \in Deciding => pc[w] \in Deciding /\ UNCHANGED due
          /\ pc'[w] # "release" => UNCHANGED finalized
      BY <1>4 DEF Load, Reserve, Lookup, ResolveSucceeded, ResolveFailed, Finalize, Defer,
                  Throw, AnswerLost, ThrowInDefer, Goto, Deciding, world, history, TypeOK
    <3> QED
      BY <3>1, <3>2
  <2> QED
    BY <2>1, <2>2, <2>3, <2>4, OthersKeepAt DEF WorkersOK, Alone
<1>5. ASSUME NEW w \in Workers, Release(w) \/ Crash(w)
      PROVE  WorkersOK'
  <2>1. /\ UNCHANGED <<operations, world, finalized, lapsed>>
        /\ \A v \in Workers \ {w} : UNCHANGED <<pc[v], at[v]>>
        /\ at'[w] = None /\ pc'[w] \in {"next", "idle"}
        /\ \A r \in RefundIds : claim[r] # w => claim'[r] = claim[r]
    BY <1>5 DEF Release, Crash, Goto, world, history, TypeOK
  <2>2. Knows(w)' /\ Alone(w)'
    BY <2>1 DEF Knows, Alone, Reliable
  <2>3. ASSUME NEW v \in Workers \ {w} PROVE Knows(v)' /\ Alone(v)'
    <3>1. Reliable(v)' => at[v] \in RefundIds /\ claim[at[v]] = v
      BY <1>0, <2>1 DEF Reliable, TypeOK, WorkersOK, Alone
    <3> QED
      BY <2>1, <3>1, OthersKeep DEF world
  <2> QED
    BY <2>2, <2>3 DEF WorkersOK
<1>6. ASSUME NEW r \in RefundIds, ClaimExpires(r)
      PROVE  WorkersOK'
  <2>1. /\ UNCHANGED <<world, pc, at, finalized>> /\ lapsed \subseteq lapsed'
        /\ \A q \in RefundIds \ {r} : claim'[q] = claim[q]
        /\ claim[r] = Dead \/ r \in lapsed'
    BY <1>6 DEF ClaimExpires, history, TypeOK
  <2>2. ASSUME NEW v \in Workers PROVE Knows(v)' /\ Alone(v)'
    <3>1. Reliable(v)' => at[v] # r /\ at[v] \in RefundIds
      BY <1>0, <2>1, RecoveryAssumption DEF Reliable, TypeOK, WorkersOK, Alone
    <3> QED
      BY <2>1, <3>1, OthersKeep DEF world
  <2> QED
    BY <2>2 DEF WorkersOK
<1>7. ASSUME NEW r \in RefundIds,
             \/ BecomesDue(r) \/ EntersQuarantine(r) \/ ConfirmedAtOnce(r) \/ Decide(r)
             \/ ResolvedElsewhere(r)
      PROVE  WorkersOK'
  <2>1. /\ UNCHANGED <<pc, at, claim, history>>
        /\ \A q \in RefundIds : due[q] => due'[q]
    BY <1>7 DEF BecomesDue, EntersQuarantine, ConfirmedAtOnce, Decide, ResolvedElsewhere, world,
                TypeOK
  <2>2. ASSUME NEW v \in Workers PROVE Knows(v)' /\ Alone(v)'
    <3>1. Reliable(v)' => at[v] \in RefundIds
      BY <2>1 DEF Reliable, TypeOK
    <3> QED
      BY <2>1, <3>1, OthersKeep DEF history
  <2> QED
    BY <2>2 DEF WorkersOK
<1>8. CASE UNCHANGED vars
  BY <1>0, <1>8 DEF vars, WorkersOK, Knows, Alone, Reliable, Status
<1> QED
  BY <1>1, <1>2, <1>3, <1>4, <1>5, <1>6, <1>7, <1>8 DEF Next, Step

\* Only a worker that held the refund until its claim expired can finalize it second.
LEMMA HistoryStep ==
  TypeOK /\ TypeOK' /\ RecoveryOK /\ Settles /\ [Next]_vars =>
    /\ ResolutionIsTrue'
    /\ FinalizedOnceUntilLapse'
    /\ OnlyFailureAbandons'
<1> SUFFICES ASSUME TypeOK, TypeOK', RecoveryOK, Settles, [Next]_vars
             PROVE  ResolutionIsTrue' /\ FinalizedOnceUntilLapse' /\ OnlyFailureAbandons'
  OBVIOUS
<1>1. /\ lapsed \subseteq lapsed' /\ abandoned \subseteq abandoned'
      /\ \/ UNCHANGED finalized
         \/ \E w \in Workers :
              /\ pc[w] = "finalize" /\ at[w] \in RefundIds
              /\ finalized' = [finalized EXCEPT ![at[w]] = @ \union {w}]
  <2>1. ASSUME NEW w \in Workers, Finalize(w)
        PROVE  at[w] \in RefundIds
    BY <2>1, StaysAtRefund
  <2> QED
    BY <2>1
       DEF vars, Next, Step, List, Done, Load, Reserve, Lookup, ResolveSucceeded, ResolveFailed,
           Finalize, Defer, Release, Throw, AnswerLost, ThrowInDefer, Claim, Take, Skip, Crash,
           ClaimExpires, BecomesDue, EntersQuarantine, ConfirmedAtOnce, Decide,
           ResolvedElsewhere, world, history
<1>2. ASSUME NEW w \in Workers, pc[w] = "finalize", at[w] \in RefundIds
      PROVE  /\ Status(at[w]) = "succeeded"
             /\ at[w] \notin lapsed => finalized[at[w]] = {}
  BY <1>2, RecoveryAssumption DEF RecoveryOK, WorkersOK, Knows, Alone, Reliable
<1>3. ResolutionIsTrue'
  <2> SUFFICES ASSUME NEW r \in RefundIds, finalized'[r] # {}
               PROVE  Status(r)' = "succeeded"
    BY DEF ResolutionIsTrue, Settles
  <2>1. Status(r) = "succeeded"
    BY <1>1, <1>2 DEF RecoveryOK, ResolutionIsTrue, TypeOK
  <2> QED
    BY <2>1 DEF Settles
<1>4. FinalizedOnceUntilLapse'
  BY <1>1, <1>2 DEF RecoveryOK, FinalizedOnceUntilLapse, TypeOK
<1>5. OnlyFailureAbandons'
  <2>0. \A r \in RefundIds : finalized[r] # {} => finalized'[r] # {}
    BY <1>1 DEF TypeOK
  <2> DEFINE Kept(r) == \/ finalized'[r] # {}
                       \/ r \in abandoned'
                       \/ \E w \in Workers : at'[w] = r /\ pc'[w] = "finalize"
  <2>1. ASSUME NEW w \in Workers, at[w] \in RefundIds, pc[w] = "finalize"
        PROVE  Kept(at[w])
    <3>1. CASE Finalize(w)
      <4>1. w \in finalized'[at[w]] \/ at[w] \in abandoned'
        BY <2>1, <3>1 DEF Finalize, TypeOK
      <4> QED
        BY <4>1
    <3>2. CASE Crash(w)
      BY <2>1, <3>2, RecoveryAssumption DEF Crash
    <3>3. \/ Finalize(w) \/ Crash(w)
          \/ at'[w] = at[w] /\ pc'[w] = pc[w]
      BY <2>1
         DEF vars, Next, Step, List, Done, Load, Reserve, Lookup, ResolveSucceeded,
             ResolveFailed, Finalize, Defer, Release, Throw, AnswerLost, ThrowInDefer, Claim,
             Take, Skip, Crash, ClaimExpires, BecomesDue, EntersQuarantine, ConfirmedAtOnce,
             Decide, ResolvedElsewhere, Goto, world, history, TypeOK
    <3> QED
      BY <2>1, <3>1, <3>2, <3>3
  <2>2. ASSUME NEW r \in resolved PROVE Kept(r)
    BY <1>1, <2>0, <2>1, <2>2 DEF RecoveryOK, OnlyFailureAbandons, TypeOK
  <2>3. ASSUME NEW r \in resolved' \ resolved PROVE Kept(r)
    <3>1. \E w \in Workers :
            /\ ResolveSucceeded(w) \/ AnswerLost(w)
            /\ r = at[w] /\ resolved' = resolved \union {r}
      BY <2>3
         DEF vars, Next, Step, List, Done, Load, Reserve, Lookup, ResolveSucceeded,
             ResolveFailed, Finalize, Defer, Release, Throw, AnswerLost, ThrowInDefer, Claim,
             Take, Skip, Crash, ClaimExpires, BecomesDue, EntersQuarantine, ConfirmedAtOnce,
             Decide, ResolvedElsewhere, world, history
    <3>2. PICK w \in Workers :
            /\ ResolveSucceeded(w) \/ AnswerLost(w)
            /\ r = at[w] /\ resolved' = resolved \union {r}
      BY <3>1
    <3>3. resolved' # resolved
      BY <2>3
    <3>4. CASE ResolveSucceeded(w)
      BY <3>2, <3>3, <3>4 DEF ResolveSucceeded, Goto, TypeOK
    <3>5. CASE AnswerLost(w)
      BY <3>2, <3>3, <3>5 DEF AnswerLost
    <3> QED
      BY <3>2, <3>4, <3>5
  <2> QED
    BY <2>2, <2>3 DEF OnlyFailureAbandons
<1> QED
  BY <1>3, <1>4, <1>5

\* Every step keeps the invariant.
LEMMA RecoveryStep == TypeOK /\ RecoveryOK /\ [Next]_vars => TypeOK' /\ RecoveryOK'
BY TypeStep, SettlesStep, WorkersStep, HistoryStep DEF RecoveryOK

\* The inductive invariant in every state.
LEMMA RecoveryInvariance == Spec => [](TypeOK /\ RecoveryOK)
BY TypeInit, RecoveryInit, RecoveryStep, PTL DEF Spec

\* Until a claim lapses under its worker, no two workers reconcile one refund.
THEOREM ClaimedOnceUntilLapseHolds == Spec => []ClaimedOnceUntilLapse
<1>1. RecoveryOK => ClaimedOnceUntilLapse
  BY DEF RecoveryOK, WorkersOK, Alone, Reliable, ClaimedOnceUntilLapse
<1> QED
  BY <1>1, RecoveryInvariance, PTL

\* Until a claim lapses under its worker, a refund is finalized at most once.
THEOREM FinalizedOnceUntilLapseHolds == Spec => []FinalizedOnceUntilLapse
BY RecoveryInvariance, PTL DEF RecoveryOK

\* Rows and finalizations only say what the provider did, lapses or not.
THEOREM ResolutionIsTrueHolds == Spec => []ResolutionIsTrue
BY RecoveryInvariance, PTL DEF RecoveryOK

\* Only a death or an error of its worker leaves a resolved refund without finalization.
THEOREM OnlyFailureAbandonsHolds == Spec => []OnlyFailureAbandons
BY RecoveryInvariance, PTL DEF RecoveryOK

\* No lookup happens before it is due, until a claim lapses.
THEOREM NoLookupBeforeDueHolds == Spec => []NoLookupBeforeDue
<1>1. TypeOK /\ RecoveryOK => NoLookupBeforeDue
  BY DEF RecoveryOK, WorkersOK, Alone, Reliable, Deciding, NoLookupBeforeDue, TypeOK, Working
<1> QED
  BY <1>1, RecoveryInvariance, PTL
=============================================================================
