-------------------------- MODULE RefundSystemProofs --------------------------
(***************************************************************************)
(* Proofs about RefundSystem, for any payments, amounts, callers, workers  *)
(* and orchestrator objects.  What RefundFabricProofs and                  *)
(* RefundRecoveryProofs show of either side is cited, not proved again.    *)
(***************************************************************************)
EXTENDS RefundSystem, RefundFabricProofs

\* The theorems about RefundRecovery, of the rows and the provider as it sees them.
R == INSTANCE RefundRecoveryProofs WITH
  operations <- [r \in RefundIds |-> Seen(r)],
  provider <- [r \in RefundIds |-> IF provider[r] = "none" THEN "inTransit" ELSE provider[r]]

\* What RefundRecovery assumes of its constants is assumed here.
LEMMA ConstantsOK ==
  R!RecoveryAssumption /\ R!AmountsAssumption /\ R!PaymentAmountAssumption
BY WorkersAssumption, AmountsAssumption, PaymentAmountAssumption
   DEF R!RecoveryAssumption, R!AmountsAssumption, R!PaymentAmountAssumption, R!RefundIds,
       RefundIds

\* The two names of the instance mean the same.
LEMMA SameRecovery ==
  /\ Recovery!Init <=> R!Init
  /\ Recovery!vars = R!vars
  /\ Recovery!Next <=> R!Next
BY DEF Recovery!Next, R!Next, Recovery!vars, R!vars, Recovery!Init, R!Init,
       Recovery!Step, R!Step, Recovery!List, R!List, Recovery!Done, R!Done,
       Recovery!Load, R!Load, Recovery!Reserve, R!Reserve, Recovery!Lookup, R!Lookup,
       Recovery!ResolveSucceeded, R!ResolveSucceeded, Recovery!ResolveFailed,
       R!ResolveFailed, Recovery!Finalize, R!Finalize, Recovery!Defer, R!Defer,
       Recovery!Release, R!Release, Recovery!Throw, R!Throw, Recovery!AnswerLost,
       R!AnswerLost, Recovery!ThrowInDefer, R!ThrowInDefer, Recovery!Claim, R!Claim,
       Recovery!Take, R!Take, Recovery!Skip, R!Skip, Recovery!Crash, R!Crash,
       Recovery!ClaimExpires, R!ClaimExpires, Recovery!BecomesDue, R!BecomesDue,
       Recovery!EntersQuarantine, R!EntersQuarantine, Recovery!ConfirmedAtOnce,
       R!ConfirmedAtOnce, Recovery!Decide, R!Decide, Recovery!ResolvedElsewhere,
       R!ResolvedElsewhere, Recovery!Goto, R!Goto, Recovery!world, R!world,
       Recovery!history, R!history, Recovery!InQuarantine, R!InQuarantine,
       Recovery!RefundIds, R!RefundIds, Recovery!Status, R!Status,
       Recovery!IsProcessing, R!IsProcessing, Recovery!IsQuarantined, R!IsQuarantined,
       Recovery!CanInsert, R!CanInsert, Recovery!ReservationKind, R!ReservationKind,
       Recovery!SetTerminal, R!SetTerminal, Recovery!NoRow, R!NoRow

-----------------------------------------------------------------------------
(* The same row under three names. *)

\* What the workers, and RefundRecovery through Seen, read of a row.
LEMMA RowsSeen ==
  /\ Worker!RefundIds = RefundIds /\ R!RefundIds = RefundIds
  /\ \A r \in RefundIds :
       /\ Worker!Status(r) = Status(r)
       /\ Worker!IsQuarantined(r) <=> IsQuarantined(r)
       /\ R!IsQuarantined(r) <=> IsQuarantined(r)
       /\ R!Status(r) = IF IsProcessing(r) /\ ~IsQuarantined(r) THEN "absent" ELSE Status(r)
<1>1. Worker!RefundIds = RefundIds /\ R!RefundIds = RefundIds
  BY DEF Worker!RefundIds, R!RefundIds, RefundIds
<1>2. ASSUME NEW r \in RefundIds
      PROVE  /\ Worker!Status(r) = Status(r)
             /\ Worker!IsQuarantined(r) <=> IsQuarantined(r)
             /\ R!IsQuarantined(r) <=> IsQuarantined(r)
             /\ R!Status(r) = IF IsProcessing(r) /\ ~IsQuarantined(r) THEN "absent"
                                                                     ELSE Status(r)
  BY <1>2 DEF Worker!Status, Worker!IsQuarantined, Worker!IsProcessing, R!Status,
     R!IsQuarantined, R!IsProcessing, Seen, NoRow, Status, IsQuarantined, IsProcessing
<1> QED
  BY <1>1, <1>2

\* As long as table and provider stay, so does what is seen of them.
LEMMA SeenUnchanged ==
  ASSUME UNCHANGED <<operations, provider>>
  PROVE  UNCHANGED <<[r \in RefundIds |-> Seen(r)],
                     [r \in RefundIds |-> IF provider[r] = "none" THEN "inTransit"
                                                                 ELSE provider[r]]>>
BY DEF Seen, IsProcessing, IsQuarantined, Status

\* The terminal statement, seen so too.
LEMMA TerminalSeen ==
  ASSUME operations \in [RefundIds -> Row], NEW r \in RefundIds,
         NEW s \in {"succeeded", "failed"}, SetTerminal(r, s)
  PROVE  R!SetTerminal(r, s)
<1>1. \A q \in RefundIds :
        Seen(q)' = IF q = r THEN [status |-> s, reconciliationRequired |-> FALSE] ELSE Seen(q)
  BY DEF SetTerminal, Seen, IsProcessing, IsQuarantined, Status
<1> QED
  BY <1>1 DEF R!SetTerminal

-----------------------------------------------------------------------------
(* The workers. *)

\* A worker works on a refund.
LEMMA WorkersAt ==
  ASSUME R!TypeOK, NEW w \in Workers, pc[w] \notin {"idle", "next"}
  PROVE  at[w] \in RefundIds
BY RowsSeen DEF R!TypeOK, R!Working

\* A step of a worker or of a clock on the table itself is one on the rows as seen.
LEMMA WorkerImplements ==
  ASSUME TypeOK, R!TypeOK, WorkerMoves
  PROVE  R!Next
<1>0. operations \in [RefundIds -> Row]
  BY DEF TypeOK
<1> USE DEF Worker!Goto, R!Goto, Worker!world, R!world, Worker!history, R!history
<1>1. ASSUME NEW w \in Workers,
             \/ Worker!Done(w) \/ Worker!Load(w) \/ Worker!Finalize(w) \/ Worker!Release(w)
             \/ Worker!Throw(w) \/ Worker!ThrowInDefer(w) \/ Worker!Crash(w)
      PROVE  R!Step(w) \/ R!Crash(w)
  <2>1. UNCHANGED <<operations, provider>>
    BY <1>1 DEF Worker!Done, Worker!Load, Worker!Finalize, Worker!Release, Worker!Throw,
       Worker!ThrowInDefer, Worker!Crash
  <2>3. CASE Worker!Done(w) \/ Worker!Load(w) \/ Worker!Finalize(w) \/ Worker!Release(w)
    BY <2>1, <2>3, SeenUnchanged DEF Worker!Done, Worker!Load, Worker!Finalize, Worker!Release, R!Done,
       R!Load, R!Finalize, R!Release, R!Step
  <2>4. CASE Worker!Throw(w) \/ Worker!ThrowInDefer(w) \/ Worker!Crash(w)
    BY <2>1, <2>4, RowsSeen, SeenUnchanged DEF Worker!Throw, Worker!ThrowInDefer, Worker!Crash, R!Throw,
       R!ThrowInDefer, R!Crash, R!Step
  <2> QED
    BY <1>1, <2>3, <2>4
<1>2. ASSUME NEW w \in Workers, Worker!List(w)
      PROVE  R!Step(w)
  <2>1. {r \in R!RefundIds : R!IsQuarantined(r) /\ due[r]}
          = {r \in Worker!RefundIds : Worker!IsQuarantined(r) /\ due[r]}
    BY RowsSeen
  <2>2. UNCHANGED <<operations, provider>>
    BY <1>2 DEF Worker!List
  <2> QED
    BY <1>2, <2>1, <2>2, SeenUnchanged DEF Worker!List, R!List, R!Step
<1>3. ASSUME NEW w \in Workers, NEW r \in RefundIds, Worker!Claim(w, r) \/ Worker!Skip(w, r)
      PROVE  R!Step(w)
  <2>1. UNCHANGED <<operations, provider>>
    BY <1>3 DEF Worker!Claim, Worker!Take, Worker!Skip
  <2>2. R!Claim(w, r) \/ R!Skip(w, r)
    BY <1>3, <2>1, RowsSeen, SeenUnchanged
       DEF Worker!Claim, Worker!Take, Worker!Skip, R!Claim, R!Take, R!Skip
  <2> QED
    BY <2>2, RowsSeen DEF R!Step
<1>4. ASSUME NEW w \in Workers, Worker!Reserve(w) \/ Worker!Lookup(w) \/ Worker!Defer(w)
      PROVE  R!Step(w)
  <2>1. at[w] \in RefundIds
    BY <1>4, WorkersAt DEF Worker!Reserve, Worker!Lookup, Worker!Defer
  <2>2. CASE Worker!Reserve(w)
    <3>1. UNCHANGED <<operations, provider>>
      BY <2>2 DEF Worker!Reserve
    <3> DEFINE told == {"succeeded", "reconciliation-required"}
    <3>2. \/ R!ReservationKind(at[w]) = Worker!ReservationKind(at[w])
          \/ R!ReservationKind(at[w]) \notin told /\ Worker!ReservationKind(at[w]) \notin told
      BY <2>1 DEF R!ReservationKind, Worker!ReservationKind, R!Status, Worker!Status, Seen,
         NoRow, IsProcessing, IsQuarantined, Status
    <3> QED
      BY <2>2, <3>1, <3>2, SeenUnchanged DEF Worker!Reserve, R!Reserve, R!Step
  <2>3. CASE Worker!Lookup(w)
    <3>1. UNCHANGED <<operations, provider>>
      BY <2>3 DEF Worker!Lookup
    <3> QED
      BY <2>1, <2>3, <3>1, SeenUnchanged DEF Worker!Lookup, R!Lookup, R!Step
  <2>4. CASE Worker!Defer(w)
    <3>1. UNCHANGED <<operations, provider>>
      BY <2>4 DEF Worker!Defer
    <3> QED
      BY <2>1, <2>4, <3>1, RowsSeen, SeenUnchanged DEF Worker!Defer, R!Defer, R!Step
  <2> QED
    BY <1>4, <2>2, <2>3, <2>4
<1>5. ASSUME NEW w \in Workers,
             Worker!ResolveSucceeded(w) \/ Worker!ResolveFailed(w) \/ Worker!AnswerLost(w)
      PROVE  R!Step(w)
  <2>1. at[w] \in RefundIds
    BY <1>5, WorkersAt DEF Worker!ResolveSucceeded, Worker!ResolveFailed, Worker!AnswerLost
  <2>2. \A r \in RefundIds, status \in {"succeeded", "failed"} :
          Worker!SetTerminal(r, status) => R!SetTerminal(r, status)
    BY <1>0, TerminalSeen DEF Worker!SetTerminal, SetTerminal
  <2>3. UNCHANGED provider
    BY <1>5 DEF Worker!ResolveSucceeded, Worker!ResolveFailed, Worker!AnswerLost
  <2>4. \A status \in {"succeeded", "failed"} :
          ~IsQuarantined(at[w]) \/ Status(at[w]) = status =>
            (Status(at[w]) = status <=> R!Status(at[w]) = status)
    BY <2>1, RowsSeen DEF IsQuarantined, IsProcessing
  <2>5. CASE Worker!ResolveSucceeded(w)
    <3>1. R!ResolveSucceeded(w)
      BY <2>1, <2>2, <2>3, <2>4, <2>5, RowsSeen, SeenUnchanged
         DEF Worker!ResolveSucceeded, R!ResolveSucceeded
    <3> QED
      BY <3>1 DEF R!Step
  <2>6. CASE Worker!ResolveFailed(w)
    <3>1. R!ResolveFailed(w)
      BY <2>1, <2>2, <2>3, <2>4, <2>6, RowsSeen, SeenUnchanged
         DEF Worker!ResolveFailed, R!ResolveFailed
    <3> QED
      BY <3>1 DEF R!Step
  <2>7. CASE Worker!AnswerLost(w)
    <3>1. R!AnswerLost(w)
      BY <2>1, <2>2, <2>3, <2>7, RowsSeen DEF Worker!AnswerLost, R!AnswerLost
    <3> QED
      BY <3>1 DEF R!Step
  <2> QED
    BY <1>5, <2>5, <2>6, <2>7
<1>6. ASSUME NEW r \in RefundIds, Worker!ClaimExpires(r) \/ Worker!BecomesDue(r)
      PROVE  R!ClaimExpires(r) \/ R!BecomesDue(r)
  <2>1. UNCHANGED <<operations, provider>>
    BY <1>6 DEF Worker!ClaimExpires, Worker!BecomesDue
  <2> QED
    BY <1>6, <2>1, SeenUnchanged
       DEF Worker!ClaimExpires, Worker!BecomesDue, R!ClaimExpires, R!BecomesDue
<1>7. ASSUME NEW w \in Workers, Worker!Step(w) \/ Worker!Crash(w)
      PROVE  R!Step(w) \/ R!Crash(w)
  BY <1>1, <1>2, <1>3, <1>4, <1>5, <1>7, RowsSeen DEF Worker!Step
<1> QED
  BY <1>6, <1>7, RowsSeen DEF WorkerMoves, R!Next

-----------------------------------------------------------------------------
(* The refund calls. *)

\* A step of the refund calls is one of RefundRecovery's environment, or is not seen.
LEMMA FabricImplements ==
  ASSUME TypeOK, IInv, [Next]_vars, UNCHANGED workerVars
  PROVE  [R!Next]_(R!vars)
<1>0. /\ \A c \in Callers : call[c].pc # "idle" => call[c].id \in RefundIds
      /\ operations \in [RefundIds -> Row]
      /\ provider \in [RefundIds -> {"none", "inTransit", "executed", "rejected"}]
  BY RunningCall DEF TypeOK
<1> DEFINE seen == [r \in RefundIds |-> Seen(r)]
           told == [r \in RefundIds |-> IF provider[r] = "none" THEN "inTransit"
                                                              ELSE provider[r]]
<1>1. CASE UNCHANGED <<seen, told>>
  BY <1>1 DEF workerVars, R!vars
<1>2. ASSUME NEW c \in Callers, ReserveInsert(c)
      PROVE  UNCHANGED <<seen, told>>
  <2>1. call[c].id \in RefundIds /\ Status(call[c].id) = "absent"
    BY <1>0, <1>2 DEF ReserveInsert, CanInsert, At
  <2>2. operations[call[c].id] = NoRow
    BY <1>0, <2>1 DEF Row, NoRow, IInv, RequestsFollowRows, IsProcessing, Status
  <2>3. \A r \in RefundIds : Seen(r)' = Seen(r)
    BY <1>0, <1>2, <2>1, <2>2, InsertEach
       DEF ReserveInsert, Seen, IsProcessing, IsQuarantined, Status, NoRow
  <2> QED
    BY <1>2, <2>3 DEF ReserveInsert
<1>3. ASSUME NEW c \in Callers, SendRequest(c)
      PROVE  UNCHANGED <<seen, told>>
  <2>1. call[c].id \in RefundIds /\ provider[call[c].id] = "none"
    BY <1>0, <1>3 DEF SendRequest, At, IInv, CallsKnow
  <2>2. \A r \in RefundIds : Seen(r)' = Seen(r)
    BY <1>3 DEF SendRequest, Seen, IsProcessing, IsQuarantined, Status
  <2>3. UNCHANGED told
    BY <1>0, <1>3, <2>1 DEF SendRequest
  <2> QED
    BY <2>2, <2>3
<1>4. ASSUME NEW r \in RefundIds, ProviderDecides(r)
      PROVE  R!Decide(r)
  <2>1. UNCHANGED seen
    BY <1>4 DEF ProviderDecides, Seen, IsProcessing, IsQuarantined, Status
  <2>2. PICK outcome \in {"executed", "rejected"} : provider' = [provider EXCEPT ![r] = outcome]
    BY <1>4 DEF ProviderDecides
  <2>3. told' = [told EXCEPT ![r] = outcome] /\ told[r] = "inTransit"
    BY <1>0, <1>4, <2>2 DEF ProviderDecides
  <2> QED
    BY <2>1, <2>3 DEF R!Decide, R!history, workerVars
<1>5. ASSUME NEW r \in RefundIds, IsProcessing(r), ~IsQuarantined(r)
      PROVE  R!CanInsert(r)
  BY <1>5, RowsSeen
     DEF R!CanInsert, R!IsProcessing, IInv, OneActive, IsProcessing, IsQuarantined
<1>6. ASSUME NEW c \in Callers, MarkReconciliationRequired(c)
      PROVE  R!EntersQuarantine(call[c].id) /\ call[c].id \in RefundIds
  <2> DEFINE r == call[c].id
  <2>1. r \in RefundIds /\ IsProcessing(r) /\ ~IsQuarantined(r)
    BY <1>0, <1>6 DEF MarkReconciliationRequired, At, IInv, OwnersHoldRows, Owning
  <2>2. SetQuarantined(r) /\ UNCHANGED provider
    BY <1>6, <2>1 DEF MarkReconciliationRequired
  <2>3. operations[r].status = "processing" /\ operations[r] \in Row
    BY <1>0, <2>1 DEF IsProcessing, Status
  <2>4. operations'[r] = [status |-> "processing", reconciliationRequired |-> TRUE]
    BY <1>0, <2>1, <2>2, <2>3 DEF SetQuarantined, Row
  <2>5. \A q \in RefundIds :
          Seen(q)' = IF q = r THEN [status |-> "processing", reconciliationRequired |-> TRUE]
                             ELSE Seen(q)
    BY <1>0, <2>1, <2>2, <2>4, QuarantineEach
       DEF Seen, IsProcessing, IsQuarantined, Status
  <2>6. seen' = [seen EXCEPT ![r] = [status |-> "processing", reconciliationRequired |-> TRUE]]
    BY <2>5
  <2> QED
    BY <1>5, <2>1, <2>2, <2>6
       DEF R!EntersQuarantine, R!InQuarantine, R!world, R!history, workerVars
<1>7. ASSUME NEW c \in Callers, MarkSucceeded(c)
      PROVE  R!ConfirmedAtOnce(call[c].id) /\ call[c].id \in RefundIds
  <2> DEFINE r == call[c].id
  <2>1. /\ r \in RefundIds /\ IsProcessing(r) /\ ~IsQuarantined(r)
        /\ provider[r] = "executed"
    BY <1>0, <1>7 DEF MarkSucceeded, At, IInv, OwnersHoldRows, Owning, CallsKnow
  <2>2. SetTerminal(r, "succeeded") /\ UNCHANGED provider
    BY <1>7, <2>1 DEF MarkSucceeded
  <2> QED
    BY <1>0, <1>5, <2>1, <2>2, TerminalSeen
       DEF R!ConfirmedAtOnce, R!world, R!history, workerVars
<1>8. ASSUME NEW c \in Callers, ResolveSucceeded(c) \/ ResolveFailed(c)
      PROVE  \/ UNCHANGED <<operations, provider>>
             \/ R!ResolvedElsewhere(call[c].id) /\ call[c].id \in RefundIds
  <2> DEFINE r == call[c].id
  <2>1. /\ r \in RefundIds
        /\ ResolveSucceeded(c) => provider[r] = "executed"
        /\ ResolveFailed(c) => provider[r] = "rejected"
    BY <1>0, <1>8 DEF ResolveSucceeded, ResolveFailed, At, IInv, CallsKnow
  <2>2. UNCHANGED provider
    BY <1>8 DEF ResolveSucceeded, ResolveFailed
  <2>3. CASE ~IsQuarantined(r)
    BY <1>8, <2>3 DEF ResolveSucceeded, ResolveFailed
  <2>4. CASE IsQuarantined(r)
    BY <1>0, <1>8, <2>1, <2>2, <2>4, RowsSeen, TerminalSeen
       DEF ResolveSucceeded, ResolveFailed, R!ResolvedElsewhere, R!world, R!history, workerVars
  <2> QED
    BY <2>3, <2>4
<1>9. \/ UNCHANGED <<operations, provider>>
      \/ \E c \in Callers : \/ ReserveInsert(c) \/ SendRequest(c) \/ MarkSucceeded(c)
                            \/ MarkReconciliationRequired(c)
                            \/ ResolveSucceeded(c) \/ ResolveFailed(c)
      \/ \E r \in RefundIds : ProviderDecides(r)
  BY DEF vars, Next, Start, Throw, Crash, Step, RecordRequested, ReserveConflict,
     ReserveReread, ProviderConfirms, RequestFails, Lookup, SettlePartial, SettleFull,
     AppendStateEvent, EnterLedger, CheckLedger, AppendTransaction, RecordRefunded
<1> QED
  BY <1>1, <1>2, <1>3, <1>4, <1>6, <1>7, <1>8, <1>9, RowsSeen, SeenUnchanged DEF R!Next

-----------------------------------------------------------------------------
(* The invariant of the whole: what either side needs of itself.  The calls *)
(* keep theirs although workers write the table, because a worker writes a  *)
(* quarantined row only, and what the provider did.                         *)

SystemOK == TypeOK /\ IInv /\ R!TypeOK /\ R!RecoveryOK

\* A worker leaves the table alone, or concludes a quarantined refund truly.
Concludes(r) ==
  /\ IsQuarantined(r)
  /\ \/ provider[r] = "executed" /\ SetTerminal(r, "succeeded")
     \/ provider[r] = "rejected" /\ SetTerminal(r, "failed")

\* What a worker knows when it writes.
LEMMA WorkerConcludes ==
  ASSUME SystemOK, WorkerMoves
  PROVE  /\ UNCHANGED provider
         /\ UNCHANGED operations \/ \E r \in RefundIds : Concludes(r)
<1>1. ASSUME NEW w \in Workers,
             Worker!ResolveSucceeded(w) \/ Worker!ResolveFailed(w) \/ Worker!AnswerLost(w)
      PROVE  /\ UNCHANGED provider
             /\ UNCHANGED operations \/ \E r \in RefundIds : Concludes(r)
  <2>1. at[w] \in RefundIds
    BY <1>1, WorkersAt
       DEF SystemOK, Worker!ResolveSucceeded, Worker!ResolveFailed, Worker!AnswerLost
  <2>2. /\ pc[w] = "resolveSucceeded" => provider[at[w]] = "executed"
        /\ pc[w] = "resolveFailed" => provider[at[w]] = "rejected"
    BY <2>1, RowsSeen DEF SystemOK, R!RecoveryOK, R!WorkersOK, R!Knows
  <2>3. \/ UNCHANGED operations
        \/ /\ IsQuarantined(at[w])
           /\ \/ pc[w] = "resolveSucceeded" /\ SetTerminal(at[w], "succeeded")
              \/ pc[w] = "resolveFailed" /\ SetTerminal(at[w], "failed")
    BY <1>1, <2>1, RowsSeen
       DEF Worker!ResolveSucceeded, Worker!ResolveFailed, Worker!AnswerLost,
           Worker!SetTerminal, SetTerminal
  <2>4. UNCHANGED provider
    BY <1>1 DEF Worker!ResolveSucceeded, Worker!ResolveFailed, Worker!AnswerLost,
       Worker!world
  <2> QED
    BY <2>1, <2>2, <2>3, <2>4 DEF Concludes
<1>2. \/ UNCHANGED <<operations, provider>>
      \/ \E w \in Workers :
           Worker!ResolveSucceeded(w) \/ Worker!ResolveFailed(w) \/ Worker!AnswerLost(w)
  BY DEF WorkerMoves, Worker!Step, Worker!List, Worker!Done, Worker!Load, Worker!Reserve,
     Worker!Lookup, Worker!Finalize, Worker!Defer, Worker!Release, Worker!Throw,
     Worker!ThrowInDefer, Worker!Claim, Worker!Take, Worker!Skip, Worker!Crash,
     Worker!ClaimExpires, Worker!BecomesDue, Worker!world
<1> QED
  BY <1>1, <1>2

\* The calls keep their invariant through a step of a worker.
LEMMA WorkersDisturbNoCall ==
  ASSUME SystemOK, WorkerMoves
  PROVE  TypeOK' /\ IInv'
<1>0. UNCHANGED <<call, paymentStatus, auditTrail, provider, requests, ledger, refunded, lock,
                  events>>
  BY WorkerConcludes DEF WorkerMoves
<1>1. CASE UNCHANGED operations
  BY <1>0, <1>1, TypeStep, InductiveStep DEF vars, SystemOK
<1>2. ASSUME NEW r \in RefundIds, Concludes(r)
      PROVE  TypeOK' /\ IInv'
  <2>0. TypeOK /\ IInv /\ operations \in [RefundIds -> Row]
    BY DEF SystemOK, TypeOK
  <2>1. PICK status \in {"succeeded", "failed"} :
          /\ SetTerminal(r, status)
          /\ provider[r] = IF status = "succeeded" THEN "executed" ELSE "rejected"
    BY <1>2 DEF Concludes
  <2>2. \A s \in RefundIds :
          IF s = r THEN Status(s)' = status /\ ~operations'[s].reconciliationRequired
                   ELSE operations'[s] = operations[s]
    BY <2>0, <2>1, TerminalEach
  <2>3. IsProcessing(r) /\ IsQuarantined(r)
    BY <1>2 DEF Concludes, IsQuarantined
  <2>4. \A c \in Callers : call[c].pc # "idle" => call[c].id \in RefundIds
    BY <2>0, RunningCall DEF TypeOK
  <2> USE DEF Status, IsProcessing, IsQuarantined
  <2>5. TypeOK'
    BY <1>0, <2>0, <2>1, StatementType DEF TypeOK, CallTypeOK, At
  <2>6. OneActive'
    BY <2>0, <2>2 DEF IInv, OneActive
  <2>7. OwnersHoldRows'
    BY <1>0, <2>0, <2>2, <2>3, <2>4 DEF IInv, OwnersHoldRows, Owning
  <2>8. RequestsFollowRows' /\ OutcomeIsTrue'
    BY <1>0, <2>0, <2>1, <2>2 DEF IInv, RequestsFollowRows, OutcomeIsTrue
  <2>9. CallsKnow'
    BY <1>0, <2>0, <2>2, <2>3, <2>4 DEF IInv, CallsKnow, Recording, At
  <2>10. RecordsAreConfirmed'
    BY <1>0, <2>0, <2>2, <2>3 DEF TypeOK, IInv, RecordsAreConfirmed
  <2>11. LedgerIsLocked' /\ LedgerWithinPayment'
    BY <1>0, <2>0 DEF IInv, LedgerIsLocked, LedgerWithinPayment, Fits, At
  <2> QED
    BY <2>5, <2>6, <2>7, <2>8, <2>9, <2>10, <2>11 DEF IInv
<1> QED
  BY <1>1, <1>2, WorkerConcludes

\* Every step of the system is one of RefundRecovery, or is not seen.
LEMMA SystemImplementsRecovery ==
  ASSUME SystemOK, [SystemNext]_systemVars
  PROVE  [R!Next]_(R!vars)
<1>1. CASE FabricMoves
  BY <1>1, FabricImplements DEF FabricMoves, SystemOK
<1>2. CASE WorkerMoves
  BY <1>2, WorkerImplements DEF SystemOK
<1>3. CASE UNCHANGED systemVars
  BY <1>3, FabricImplements DEF systemVars, SystemOK
<1> QED
  BY <1>1, <1>2, <1>3 DEF SystemNext

\* Every step of the system keeps the invariant of the whole.
LEMMA SystemStep == SystemOK /\ [SystemNext]_systemVars => SystemOK'
<1> SUFFICES ASSUME SystemOK, [SystemNext]_systemVars PROVE SystemOK'
  OBVIOUS
<1>1. R!TypeOK' /\ R!RecoveryOK'
  BY SystemImplementsRecovery, ConstantsOK, R!RecoveryStep DEF SystemOK
<1>2. TypeOK' /\ IInv'
  <2>1. CASE FabricMoves \/ UNCHANGED systemVars
    BY <2>1, TypeStep, InductiveStep DEF FabricMoves, systemVars, SystemOK
  <2>2. CASE WorkerMoves
    BY <2>2, WorkersDisturbNoCall
  <2> QED
    BY <2>1, <2>2 DEF SystemNext
<1> QED
  BY <1>1, <1>2 DEF SystemOK

\* No rows, no calls, idle workers: the system starts as either side does.
LEMMA SystemStart == SystemInit => SystemOK /\ R!Init
<1> SUFFICES ASSUME SystemInit PROVE SystemOK /\ R!Init
  OBVIOUS
<1>1. TypeOK /\ IInv
  BY TypeInit, InductiveInit DEF SystemInit
<1>2. R!Init
  BY RowsSeen DEF SystemInit, Init, R!Init, R!NoRow, NoRow, Seen, IsProcessing, IsQuarantined,
     Status
<1> QED
  BY <1>1, <1>2, R!TypeInit, R!RecoveryInit, ConstantsOK DEF SystemOK

-----------------------------------------------------------------------------
(* Theorems. *)

\* What the refund calls rely on, and what the workers rely on, holds of both together.
THEOREM SystemInvariance == SystemSpec => []SystemOK
BY SystemStart, SystemStep, PTL DEF SystemSpec

\* The refund calls are the environment RefundRecovery assumes: with them the workers
\* behave as that module says, for any interleaving.
THEOREM RecoveryRefinement == SystemSpec => ImplementsRecovery
<1>1. SystemInit => Recovery!Init
  BY SystemStart, SameRecovery
<1>2. SystemOK /\ [SystemNext]_systemVars => [Recovery!Next]_(Recovery!vars)
  BY SystemImplementsRecovery, SameRecovery DEF Recovery!vars, R!vars
<1> QED
  BY <1>1, <1>2, SystemInvariance, PTL DEF SystemSpec, ImplementsRecovery, Recovery!Spec

\* The books of the refund calls stay true with workers that write them: what both do
\* together is what RefundContract promises.
THEOREM SystemRefinement == SystemSpec => ImplementsContract
<1>1. SystemInit => Contract!ContractInit
  BY DEF SystemInit, Init, Contract!ContractInit, Books, Status, NoRow
<1>2. ASSUME SystemOK, [SystemNext]_systemVars
      PROVE  [Contract!ContractNext]_(Contract!contractVars)
  <2>1. CASE FabricMoves \/ UNCHANGED systemVars
    BY <1>2, <2>1, StepImplements DEF FabricMoves, systemVars, SystemOK
  <2>2. CASE WorkerMoves
    <3>1. UNCHANGED <<provider, ledger>>
      BY <1>2, <2>2, WorkerConcludes DEF WorkerMoves
    <3>2. ASSUME NEW r \in RefundIds, Concludes(r)
          PROVE  Contract!Conclude(r)
      <4> DEFINE books == [q \in RefundIds |-> Books(q)]
      <4>1. PICK status \in {"succeeded", "failed"} :
              /\ SetTerminal(r, status)
              /\ provider[r] = IF status = "succeeded" THEN "executed" ELSE "rejected"
        BY <3>2 DEF Concludes
      <4>2. \A q \in RefundIds :
              Books(q)' = IF q = r THEN IF status = "succeeded" THEN "paidOut" ELSE "void"
                                   ELSE Books(q)
        BY <1>2, <4>1, TerminalEach DEF SystemOK, TypeOK, Books, Status
      <4>3. books' = [books EXCEPT ![r] = IF status = "succeeded" THEN "paidOut" ELSE "void"]
        BY <4>2
      <4>4. books[r] = "undecided"
        BY <3>2 DEF Concludes, IsQuarantined, IsProcessing, Books, Status
      <4> QED
        BY <3>1, <4>1, <4>3, <4>4 DEF Contract!Conclude
    <3> QED
      BY <1>2, <2>2, <3>1, <3>2, WorkerConcludes, BooksUnchanged DEF Contract!ContractNext
  <2> QED
    BY <1>2, <2>1, <2>2 DEF SystemNext
<1> QED
  BY <1>1, <1>2, SystemInvariance, PTL
     DEF SystemSpec, ImplementsContract, Contract!ContractSpec

\* A quarantined refund blocks requests for its payment until somebody, call or worker,
\* concludes it.
THEOREM SystemQuarantineIsKept == SystemSpec => SystemQuarantineHolds
<1>1. ASSUME SystemOK, [SystemNext]_systemVars
      PROVE  [QuarantineStep]_systemVars
  <2>1. CASE FabricMoves
    BY <1>1, <2>1, QuarantineKept DEF FabricMoves, SystemOK
  <2>2. CASE WorkerMoves
    <3>1. UNCHANGED requests /\ operations \in [RefundIds -> Row]
      BY <1>1, <2>2 DEF WorkerMoves, SystemOK, TypeOK
    <3>2. ASSUME NEW r \in RefundIds, IsQuarantined(r)
          PROVE  IsQuarantined(r)' \/ Status(r)' \in {"succeeded", "failed"}
      BY <1>1, <2>2, <3>1, <3>2, WorkerConcludes, TerminalEach
         DEF Concludes, IsQuarantined, IsProcessing, Status
    <3> QED
      BY <3>1, <3>2 DEF QuarantineStep
  <2> QED
    BY <1>1, <2>1, <2>2 DEF SystemNext
<1> QED
  BY <1>1, SystemInvariance, PTL DEF SystemSpec, SystemQuarantineHolds

\* What was finalized or posted was asked for once, and paid out.
THEOREM FinalizedIsPaidOutHolds == SystemSpec => []FinalizedIsPaidOut
<1>1. SystemOK => FinalizedIsPaidOut
  <2> SUFFICES ASSUME SystemOK, NEW r \in RefundIds, finalized[r] # {} \/ r \in ledger
               PROVE  Status(r) = "succeeded" /\ provider[r] = "executed" /\ requests[r] = 1
    BY DEF FinalizedIsPaidOut
  <2>1. finalized[r] # {} => R!Status(r) = "succeeded"
    BY RowsSeen DEF SystemOK, R!RecoveryOK, R!ResolutionIsTrue
  <2>2. Status(r) = "succeeded"
    BY <2>1, RowsSeen DEF SystemOK, IInv, RecordsAreConfirmed
  <2> QED
    BY <2>2 DEF SystemOK, IInv, OutcomeIsTrue, RequestsFollowRows
<1> QED
  BY <1>1, SystemInvariance, PTL

\* Whatever the refund calls do meanwhile, until a claim lapses under its worker a refund
\* is finalized at most once, and what a worker resolved is lost to failures only.
THEOREM WorkersKeepTheirPromises ==
  SystemSpec => [](Worker!FinalizedOnceUntilLapse /\ Worker!OnlyFailureAbandons)
<1>1. SystemOK => Worker!FinalizedOnceUntilLapse /\ Worker!OnlyFailureAbandons
  BY RowsSeen DEF SystemOK, R!RecoveryOK, R!FinalizedOnceUntilLapse, R!OnlyFailureAbandons,
     Worker!FinalizedOnceUntilLapse, Worker!OnlyFailureAbandons
<1> QED
  BY <1>1, SystemInvariance, PTL
=============================================================================
