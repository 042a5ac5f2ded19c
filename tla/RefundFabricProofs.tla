------------------------- MODULE RefundFabricProofs -------------------------
(***************************************************************************)
(* Proofs about RefundFabric, for any payments, amounts, callers and       *)
(* orchestrator objects.                                                   *)
(***************************************************************************)
EXTENDS RefundFabric, TLAPS

\* A refund ID names a payment and a positive amount within it.
LEMMA RefundIdType ==
  \A r \in RefundIds :
    r.pay \in Payments /\ r.amt \in Nat \ {0} /\ PaymentAmount[r.pay] \in Nat
  BY AmountsAssumption, PaymentAmountAssumption DEF RefundIds

-----------------------------------------------------------------------------
(* The helpers the actions are built from. *)

\* A running call holds a refund ID.
LEMMA RunningCall ==
  ASSUME CallTypeOK, NEW c \in Callers, call[c].pc # "idle"
  PROVE  call[c].id \in RefundIds
  BY DEF CallTypeOK, At

\* The calls that share a promise are callers, and none of them is idle.
LEMMA GroupRuns ==
  ASSUME NEW c \in Callers, call[c].pc # "idle"
  PROVE  /\ Group(c) \subseteq Callers
         /\ \A d \in Group(c) : call[d].pc # "idle"
  BY DEF Group

\* Moving running calls on keeps the shape of the calls.
LEMMA GotoType ==
  ASSUME CallTypeOK, NEW S \in SUBSET Callers, NEW pc \in Pcs \ {"idle"},
         \A d \in S : call[d].pc # "idle", Goto(S, pc)
  PROVE  CallTypeOK'
<1>1. \A d \in Callers : call'[d] = IF d \in S THEN [call[d] EXCEPT !.pc = pc] ELSE call[d]
  BY DEF Goto
<1>2. \A d \in Callers : call'[d] \in [kind : Kinds, pc : Pcs, id : RefundIds \union {None}]
  BY <1>1 DEF CallTypeOK
<1>3. \A d \in Callers : call'[d].id = None <=> call'[d].pc = "idle"
  BY <1>1 DEF CallTypeOK, At
<1> QED
  BY <1>2, <1>3 DEF CallTypeOK, At, Goto

\* So does the return of any calls.
LEMMA ReturnType ==
  ASSUME CallTypeOK, NEW S, Return(S)
  PROVE  CallTypeOK'
<1>1. Idle \in [kind : Kinds, pc : Pcs, id : RefundIds \union {None}]
  BY DEF Idle, Kinds, Pcs
<1>2. \A d \in Callers : call'[d] = IF d \in S THEN Idle ELSE call[d]
  BY DEF Return
<1>3. Idle.id = None /\ Idle.pc = "idle"
  BY DEF Idle
<1> QED
  BY <1>1, <1>2, <1>3 DEF CallTypeOK, At, Return

\* The statements of the refund store write well-formed rows, one at a time.
LEMMA StatementType ==
  ASSUME operations \in [RefundIds -> Row], NEW r \in RefundIds
  PROVE  /\ InsertProcessing(r) => operations' \in [RefundIds -> Row]
         /\ SetQuarantined(r) => operations' \in [RefundIds -> Row]
         /\ \A s \in {"succeeded", "failed"} :
              SetTerminal(r, s) => operations' \in [RefundIds -> Row]
<1>1. [status |-> "processing", reconciliationRequired |-> FALSE] \in Row
  BY DEF Row
<1>2. [operations[r] EXCEPT !.reconciliationRequired = TRUE] \in Row
  BY DEF Row
<1>3. \A s \in {"succeeded", "failed"} :
        [status |-> s, reconciliationRequired |-> FALSE] \in Row
  BY DEF Row
<1> QED
  BY <1>1, <1>2, <1>3 DEF InsertProcessing, SetQuarantined, SetTerminal

-----------------------------------------------------------------------------
(* Type correctness. *)

\* No rows and no calls.
LEMMA TypeInit == Init => TypeOK
BY NoneAssumption DEF Init, TypeOK, CallTypeOK, Row, NoRow, Idle, Kinds, Pcs, At

\* Every step keeps the shape TypeOK gives the state: one step per action.
LEMMA TypeStep == TypeOK /\ [Next]_vars => TypeOK'
<1> SUFFICES ASSUME TypeOK, [Next]_vars PROVE TypeOK'
  OBVIOUS
<1> USE NoneAssumption DEF TypeOK
<1>1. ASSUME NEW c \in Callers, NEW kind \in Kinds, NEW r \in RefundIds, Start(c, kind, r)
      PROVE  TypeOK'
  <2>1. CallTypeOK'
    BY <1>1 DEF Start, CallTypeOK, Kinds, Pcs, Executing, At
  <2>2. QED
    BY <1>1, <2>1 DEF Start
<1>2. ASSUME NEW c \in Callers, RecordRequested(c) PROVE TypeOK'
  <2>1. call[c].pc # "idle" /\ call[c].id \in RefundIds
    BY <1>2, RunningCall DEF RecordRequested, At
  <2>2. CallTypeOK'
    BY <1>2, <2>1, GotoType DEF RecordRequested, Pcs, Executing, Recording, Owning
  <2>3. QED
    BY <1>2, <2>1, <2>2 DEF RecordRequested, Fingerprints
<1>3. ASSUME NEW c \in Callers, ReserveInsert(c) PROVE TypeOK'
  <2>1. call[c].pc # "idle" /\ call[c].id \in RefundIds
    BY <1>3, RunningCall DEF ReserveInsert, At
  <2>2. CallTypeOK'
    BY <1>3, <2>1, GotoType, ReturnType
       DEF ReserveInsert, Pcs, Executing, Recording, Owning
  <2>3. operations' \in [RefundIds -> Row]
    BY <1>3, <2>1, StatementType DEF ReserveInsert
  <2>4. QED
    BY <1>3, <2>2, <2>3 DEF ReserveInsert
<1>4. ASSUME NEW c \in Callers, ReserveConflict(c) PROVE TypeOK'
  <2>1. call[c].pc # "idle" /\ call[c].id \in RefundIds
    BY <1>4, RunningCall DEF ReserveConflict, At
  <2>2. CallTypeOK'
    BY <1>4, <2>1, GotoType DEF ReserveConflict, Pcs, Executing, Recording, Owning
  <2>3. QED
    BY <1>4, <2>1, <2>2 DEF ReserveConflict
<1>5. ASSUME NEW c \in Callers, ReserveReread(c) PROVE TypeOK'
  <2>1. call[c].pc # "idle" /\ call[c].id \in RefundIds
    BY <1>5, RunningCall DEF ReserveReread, At
  <2>2. CallTypeOK'
    BY <1>5, <2>1, GotoType, ReturnType, GroupRuns
       DEF ReserveReread, Pcs, Executing, Recording, Owning
  <2>3. QED
    BY <1>5, <2>1, <2>2 DEF ReserveReread
<1>6. ASSUME NEW c \in Callers, SendRequest(c) PROVE TypeOK'
  <2>1. call[c].pc # "idle" /\ call[c].id \in RefundIds
    BY <1>6, RunningCall DEF SendRequest, At
  <2>2. CallTypeOK'
    BY <1>6, <2>1, GotoType DEF SendRequest, Pcs, Executing, Recording, Owning
  <2>3. QED
    BY <1>6, <2>1, <2>2 DEF SendRequest
<1>7. ASSUME NEW c \in Callers, ProviderConfirms(c) PROVE TypeOK'
  <2>1. call[c].pc # "idle" /\ call[c].id \in RefundIds
    BY <1>7, RunningCall DEF ProviderConfirms, At
  <2>2. CallTypeOK'
    BY <1>7, <2>1, GotoType
       DEF ProviderConfirms, Pcs, Executing, Recording, Owning
  <2>3. QED
    BY <1>7, <2>1, <2>2 DEF ProviderConfirms
<1>8. ASSUME NEW c \in Callers, RequestFails(c) PROVE TypeOK'
  <2>1. call[c].pc # "idle" /\ call[c].id \in RefundIds
    BY <1>8, RunningCall DEF RequestFails, At
  <2>2. CallTypeOK'
    BY <1>8, <2>1, GotoType DEF RequestFails, Pcs, Executing, Recording, Owning
  <2>3. QED
    BY <1>8, <2>1, <2>2 DEF RequestFails
<1>9. ASSUME NEW c \in Callers, MarkReconciliationRequired(c) PROVE TypeOK'
  <2>1. call[c].pc # "idle" /\ call[c].id \in RefundIds
    BY <1>9, RunningCall DEF MarkReconciliationRequired, At
  <2>2. CallTypeOK'
    BY <1>9, <2>1, ReturnType DEF MarkReconciliationRequired
  <2>3. operations' \in [RefundIds -> Row]
    BY <1>9, <2>1, StatementType DEF MarkReconciliationRequired
  <2>4. QED
    BY <1>9, <2>2, <2>3 DEF MarkReconciliationRequired
<1>10. ASSUME NEW c \in Callers, MarkSucceeded(c) PROVE TypeOK'
  <2>1. call[c].pc # "idle" /\ call[c].id \in RefundIds
    BY <1>10, RunningCall DEF MarkSucceeded, At
  <2>2. CallTypeOK'
    BY <1>10, <2>1, GotoType, ReturnType, GroupRuns
       DEF MarkSucceeded, Pcs, Executing, Recording, Owning
  <2>3. operations' \in [RefundIds -> Row]
    BY <1>10, <2>1, StatementType DEF MarkSucceeded
  <2>4. QED
    BY <1>10, <2>2, <2>3 DEF MarkSucceeded
<1>11. ASSUME NEW c \in Callers, Lookup(c) PROVE TypeOK'
  <2>1. call[c].pc # "idle" /\ call[c].id \in RefundIds
    BY <1>11, RunningCall DEF Lookup, At
  <2>2. CallTypeOK'
    BY <1>11, <2>1, GotoType, ReturnType
       DEF Lookup, Pcs, Executing, Recording, Owning
  <2>3. QED
    BY <1>11, <2>1, <2>2 DEF Lookup
<1>12. ASSUME NEW c \in Callers, ResolveSucceeded(c) PROVE TypeOK'
  <2>1. call[c].pc # "idle" /\ call[c].id \in RefundIds
    BY <1>12, RunningCall DEF ResolveSucceeded, At
  <2>2. CallTypeOK'
    BY <1>12, <2>1, GotoType, ReturnType
       DEF ResolveSucceeded, Pcs, Executing, Recording, Owning
  <2>3. operations' \in [RefundIds -> Row]
    BY <1>12, <2>1, StatementType DEF ResolveSucceeded
  <2>4. QED
    BY <1>12, <2>2, <2>3 DEF ResolveSucceeded
<1>13. ASSUME NEW c \in Callers, ResolveFailed(c) PROVE TypeOK'
  <2>1. call[c].pc # "idle" /\ call[c].id \in RefundIds
    BY <1>13, RunningCall DEF ResolveFailed, At
  <2>2. CallTypeOK'
    BY <1>13, <2>1, ReturnType DEF ResolveFailed
  <2>3. operations' \in [RefundIds -> Row]
    BY <1>13, <2>1, StatementType DEF ResolveFailed
  <2>4. QED
    BY <1>13, <2>2, <2>3 DEF ResolveFailed
<1>14. ASSUME NEW c \in Callers, SettlePartial(c) PROVE TypeOK'
  <2>1. call[c].pc # "idle" /\ call[c].id \in RefundIds
    BY <1>14, RunningCall DEF SettlePartial, At
  <2>2. CallTypeOK'
    BY <1>14, <2>1, GotoType, GroupRuns
       DEF SettlePartial, Pcs, Executing, Recording, Owning
  <2>3. QED
    BY <1>14, <2>1, <2>2 DEF SettlePartial
<1>15. ASSUME NEW c \in Callers, SettleFull(c) PROVE TypeOK'
  <2>1. call[c].pc # "idle" /\ call[c].id \in RefundIds
    BY <1>15, RunningCall DEF SettleFull, At
  <2>2. CallTypeOK'
    BY <1>15, <2>1, GotoType, GroupRuns
       DEF SettleFull, Pcs, Executing, Recording, Owning
  <2>3. QED
    BY <1>15, <2>1, <2>2, RefundIdType DEF SettleFull
<1>16. ASSUME NEW c \in Callers, AppendStateEvent(c) PROVE TypeOK'
  <2>1. call[c].pc # "idle" /\ call[c].id \in RefundIds
    BY <1>16, RunningCall DEF AppendStateEvent, At
  <2>2. CallTypeOK'
    BY <1>16, <2>1, GotoType, GroupRuns
       DEF AppendStateEvent, Pcs, Executing, Recording, Owning
  <2>3. QED
    BY <1>16, <2>1, <2>2, RefundIdType DEF AppendStateEvent
<1>17. ASSUME NEW c \in Callers, EnterLedger(c) PROVE TypeOK'
  <2>1. call[c].pc # "idle" /\ call[c].id \in RefundIds
    BY <1>17, RunningCall DEF EnterLedger, At
  <2>2. CallTypeOK'
    BY <1>17, <2>1, GotoType DEF EnterLedger, Pcs, Executing, Recording, Owning
  <2>3. QED
    BY <1>17, <2>1, <2>2 DEF EnterLedger
<1>18. ASSUME NEW c \in Callers, CheckLedger(c) PROVE TypeOK'
  <2>1. call[c].pc # "idle" /\ call[c].id \in RefundIds
    BY <1>18, RunningCall DEF CheckLedger, At
  <2>2. CallTypeOK'
    BY <1>18, <2>1, GotoType, ReturnType
       DEF CheckLedger, Pcs, Executing, Recording, Owning
  <2>3. QED
    BY <1>18, <2>1, <2>2 DEF CheckLedger
<1>19. ASSUME NEW c \in Callers, AppendTransaction(c) PROVE TypeOK'
  <2>1. call[c].pc # "idle" /\ call[c].id \in RefundIds
    BY <1>19, RunningCall DEF AppendTransaction, At
  <2>2. CallTypeOK'
    BY <1>19, <2>1, GotoType
       DEF AppendTransaction, Pcs, Executing, Recording, Owning
  <2>3. QED
    BY <1>19, <2>1, <2>2, RefundIdType DEF AppendTransaction
<1>20. ASSUME NEW c \in Callers, RecordRefunded(c) PROVE TypeOK'
  <2>1. call[c].pc # "idle" /\ call[c].id \in RefundIds
    BY <1>20, RunningCall DEF RecordRefunded, At
  <2>2. CallTypeOK'
    BY <1>20, <2>1, ReturnType DEF RecordRefunded
  <2>3. QED
    BY <1>20, <2>1, <2>2 DEF RecordRefunded, Fingerprints
<1>21. ASSUME NEW c \in Callers, Throw(c) PROVE TypeOK'
  <2>1. call[c].pc # "idle" /\ call[c].id \in RefundIds
    BY <1>21, RunningCall DEF Throw, CanThrow
  <2>2. CallTypeOK'
    BY <1>21, <2>1, ReturnType DEF Throw
  <2>3. QED
    BY <1>21, <2>1, <2>2 DEF Throw
<1>22. ASSUME NEW r \in RefundIds, ProviderDecides(r) PROVE TypeOK'
  BY <1>22 DEF ProviderDecides, CallTypeOK, At
<1>23. CASE Crash
  BY <1>23 DEF Crash, CallTypeOK, Idle, Kinds, Pcs, At
<1>24. CASE UNCHANGED vars
  BY <1>24 DEF vars, CallTypeOK, At
<1> QED
  BY <1>1, <1>2, <1>3, <1>4, <1>5, <1>6, <1>7, <1>8, <1>9, <1>10, <1>11, <1>12,
     <1>13, <1>14, <1>15, <1>16, <1>17, <1>18, <1>19, <1>20, <1>21, <1>22, <1>23,
     <1>24
     DEF Next, Step

\* Every reachable state has the shape TypeOK gives it.
THEOREM TypeCorrect == Spec => []TypeOK
BY TypeInit, TypeStep, PTL DEF Spec

-----------------------------------------------------------------------------
(* The inductive invariant. *)

\* What Goto does to each call.
LEMMA GotoEach ==
  ASSUME CallTypeOK, NEW S, NEW pc, Goto(S, pc)
  PROVE  \A d \in Callers :
           /\ call'[d].kind = call[d].kind
           /\ call'[d].id = call[d].id
           /\ call'[d].pc = IF d \in S THEN pc ELSE call[d].pc
  BY DEF CallTypeOK, Goto

\* What Return does to each call.
LEMMA ReturnEach ==
  ASSUME NEW S, Return(S)
  PROVE  \A d \in Callers :
           IF d \in S THEN call'[d].pc = "idle"
           ELSE /\ call'[d].kind = call[d].kind
                /\ call'[d].id = call[d].id
                /\ call'[d].pc = call[d].pc
  BY DEF Return, Idle

\* The calls that share c's promise wait for the same refund.
LEMMA GroupShares ==
  ASSUME NEW c \in Callers
  PROVE  /\ c \in Group(c)
         /\ \A d \in Group(c) : d = c \/ (call[d].pc = "joined" /\ call[d].id = call[c].id)
  BY DEF Group

\* What the statements of the refund store do to each row.
LEMMA InsertEach ==
  ASSUME operations \in [RefundIds -> Row], NEW r \in RefundIds, InsertProcessing(r)
  PROVE  \A s \in RefundIds :
           IF s = r THEN Status(s)' = "processing" /\ ~operations'[s].reconciliationRequired
                    ELSE operations'[s] = operations[s]
  BY DEF InsertProcessing, Status

\* A terminal statement changes the status of its own row, clears its flag, and leaves
\* every other row alone.
LEMMA TerminalEach ==
  ASSUME operations \in [RefundIds -> Row], NEW r \in RefundIds, NEW status,
         SetTerminal(r, status)
  PROVE  \A s \in RefundIds :
           IF s = r THEN Status(s)' = status /\ ~operations'[s].reconciliationRequired
                    ELSE operations'[s] = operations[s]
  BY DEF SetTerminal, Status

\* markReconciliationRequired sets the flag of its own row and changes no status.
LEMMA QuarantineEach ==
  ASSUME operations \in [RefundIds -> Row], NEW r \in RefundIds, SetQuarantined(r)
  PROVE  \A s \in RefundIds :
           /\ Status(s)' = Status(s)
           /\ IF s = r THEN operations'[s].reconciliationRequired
                       ELSE operations'[s] = operations[s]
<1>1. \A s \in RefundIds : operations[s] \in Row
  OBVIOUS
<1>2. \A s \in RefundIds :
        operations'[s] = IF s = r THEN [operations[s] EXCEPT !.reconciliationRequired = TRUE]
                                  ELSE operations[s]
  BY DEF SetQuarantined
<1> QED
  BY <1>1, <1>2 DEF Row, Status

\* Every step keeps the invariant.
LEMMA InductiveStep == TypeOK /\ IInv /\ [Next]_vars => IInv'
<1> SUFFICES ASSUME TypeOK, IInv, [Next]_vars PROVE IInv'
  OBVIOUS
<1>0. /\ CallTypeOK
      /\ \A d \in Callers : call[d].pc # "idle" => call[d].id \in RefundIds
  BY RunningCall DEF TypeOK
<1> USE DEF IInv, At, Status, IsProcessing, IsQuarantined
<1>1. ASSUME NEW c \in Callers, RecordRequested(c) PROVE IInv'
  <2>1. call[c].pc # "idle" /\ call[c].id \in RefundIds
    BY <1>1, RunningCall DEF TypeOK, RecordRequested
  <2>2. OwnersHoldRows'
    BY <1>0, <1>1, GotoEach DEF RecordRequested, OwnersHoldRows, Owning
  <2>3. CallsKnow'
    BY <1>0, <1>1, GotoEach DEF RecordRequested, CallsKnow, Recording
  <2>4. LedgerIsLocked'
    BY <1>0, <1>1, GotoEach DEF RecordRequested, LedgerIsLocked, InLedger, Fits
  <2>5. RecordsAreConfirmed'
    BY <1>1 DEF RecordRequested, RecordsAreConfirmed
  <2>6. QED
    BY <1>1, <2>2, <2>3, <2>4, <2>5
       DEF RecordRequested, OneActive, RequestsFollowRows, OutcomeIsTrue,
           LedgerWithinPayment
<1>2. ASSUME NEW c \in Callers, ReserveInsert(c) PROVE IInv'
  <2>1. call[c].pc # "idle" /\ call[c].id \in RefundIds
    BY <1>2, RunningCall DEF TypeOK, ReserveInsert
  <2>2. \A s \in RefundIds :
          IF s = call[c].id
          THEN Status(s)' = "processing" /\ ~operations'[s].reconciliationRequired
          ELSE operations'[s] = operations[s]
    BY <1>2, <2>1, InsertEach DEF TypeOK, ReserveInsert
  <2>3. OneActive'
    BY <1>2, <2>2 DEF ReserveInsert, OneActive, CanInsert
  <2>4. OwnersHoldRows'
    BY <1>0, <1>2, <2>2, GotoEach, ReturnEach
       DEF ReserveInsert, OwnersHoldRows, Owning, CanInsert
  <2>5. RequestsFollowRows'
    BY <1>2, <2>2 DEF ReserveInsert, RequestsFollowRows
  <2>6. OutcomeIsTrue'
    BY <1>2, <2>2 DEF ReserveInsert, OutcomeIsTrue
  <2>7. CallsKnow'
    BY <1>0, <1>2, <2>2, GotoEach, ReturnEach
       DEF ReserveInsert, CallsKnow, Recording, CanInsert, RequestsFollowRows
  <2>8. RecordsAreConfirmed'
    BY <1>0, <1>2, <2>1, <2>2
       DEF TypeOK, ReserveInsert, RecordsAreConfirmed, CanInsert, OwnersHoldRows,
           Owning, RequestsFollowRows, CallsKnow, Recording
  <2>9. LedgerIsLocked'
    BY <1>0, <1>2, GotoEach, ReturnEach
       DEF ReserveInsert, LedgerIsLocked, InLedger, Fits
  <2>10. QED
    BY <1>2, <2>3, <2>4, <2>5, <2>6, <2>7, <2>8, <2>9
       DEF ReserveInsert, LedgerWithinPayment
<1>3. ASSUME NEW c \in Callers, ReserveConflict(c) PROVE IInv'
  <2>1. call[c].pc # "idle" /\ call[c].id \in RefundIds
    BY <1>3, RunningCall DEF TypeOK, ReserveConflict
  <2>2. OwnersHoldRows'
    BY <1>0, <1>3, GotoEach DEF ReserveConflict, OwnersHoldRows, Owning
  <2>3. CallsKnow'
    BY <1>0, <1>3, GotoEach DEF ReserveConflict, CallsKnow, Recording
  <2>4. LedgerIsLocked'
    BY <1>0, <1>3, GotoEach DEF ReserveConflict, LedgerIsLocked, InLedger, Fits
  <2>5. QED
    BY <1>3, <2>2, <2>3, <2>4
       DEF ReserveConflict, OneActive, RequestsFollowRows, OutcomeIsTrue,
           RecordsAreConfirmed, LedgerWithinPayment
<1>4. ASSUME NEW c \in Callers, ReserveReread(c) PROVE IInv'
  <2>1. call[c].pc # "idle" /\ call[c].id \in RefundIds
    BY <1>4, RunningCall DEF TypeOK, ReserveReread
  <2>2. OwnersHoldRows'
    BY <1>0, <1>4, GotoEach, ReturnEach DEF ReserveReread, OwnersHoldRows, Owning
  <2>3. CallsKnow'
    BY <1>0, <1>4, <2>1, GotoEach, ReturnEach, GroupShares
       DEF TypeOK, ReserveReread, CallsKnow, Recording, ReservationKind,
           RequestsFollowRows
  <2>4. LedgerIsLocked'
    BY <1>0, <1>4, GotoEach, ReturnEach, GroupShares
       DEF ReserveReread, LedgerIsLocked, InLedger, Fits
  <2>5. QED
    BY <1>4, <2>2, <2>3, <2>4
       DEF ReserveReread, OneActive, RequestsFollowRows, OutcomeIsTrue,
           RecordsAreConfirmed, LedgerWithinPayment
<1>5. ASSUME NEW c \in Callers, SendRequest(c) PROVE IInv'
  <2>1. call[c].pc # "idle" /\ call[c].id \in RefundIds
    BY <1>5, RunningCall DEF TypeOK, SendRequest
  <2>2. OwnersHoldRows'
    BY <1>0, <1>5, GotoEach DEF SendRequest, OwnersHoldRows, Owning
  <2>3. RequestsFollowRows'
    BY <1>5
       DEF TypeOK, SendRequest, RequestsFollowRows, CallsKnow, OwnersHoldRows,
           Owning
  <2>4. OutcomeIsTrue'
    BY <1>5 DEF SendRequest, OutcomeIsTrue, OwnersHoldRows, Owning
  <2>5. CallsKnow'
    BY <1>0, <1>5, GotoEach
       DEF TypeOK, SendRequest, CallsKnow, Recording, OwnersHoldRows, Owning
  <2>6. LedgerIsLocked'
    BY <1>0, <1>5, GotoEach DEF SendRequest, LedgerIsLocked, InLedger, Fits
  <2>7. QED
    BY <1>5, <2>2, <2>3, <2>4, <2>5, <2>6
       DEF SendRequest, OneActive, RecordsAreConfirmed, LedgerWithinPayment
<1>6. ASSUME NEW c \in Callers, ProviderConfirms(c) PROVE IInv'
  <2>1. call[c].pc # "idle" /\ call[c].id \in RefundIds
    BY <1>6, RunningCall DEF TypeOK, ProviderConfirms
  <2>2. OwnersHoldRows'
    BY <1>0, <1>6, GotoEach DEF ProviderConfirms, OwnersHoldRows, Owning
  <2>3. CallsKnow'
    BY <1>0, <1>6, GotoEach DEF ProviderConfirms, CallsKnow, Recording
  <2>4. LedgerIsLocked'
    BY <1>0, <1>6, GotoEach DEF ProviderConfirms, LedgerIsLocked, InLedger, Fits
  <2>5. QED
    BY <1>6, <2>2, <2>3, <2>4
       DEF ProviderConfirms, OneActive, RequestsFollowRows, OutcomeIsTrue,
           RecordsAreConfirmed, LedgerWithinPayment
<1>7. ASSUME NEW c \in Callers, RequestFails(c) PROVE IInv'
  <2>1. call[c].pc # "idle" /\ call[c].id \in RefundIds
    BY <1>7, RunningCall DEF TypeOK, RequestFails
  <2>2. OwnersHoldRows'
    BY <1>0, <1>7, GotoEach DEF RequestFails, OwnersHoldRows, Owning
  <2>3. CallsKnow'
    BY <1>0, <1>7, GotoEach DEF RequestFails, CallsKnow, Recording
  <2>4. LedgerIsLocked'
    BY <1>0, <1>7, GotoEach DEF RequestFails, LedgerIsLocked, InLedger, Fits
  <2>5. QED
    BY <1>7, <2>2, <2>3, <2>4
       DEF RequestFails, OneActive, RequestsFollowRows, OutcomeIsTrue,
           RecordsAreConfirmed, LedgerWithinPayment
<1>8. ASSUME NEW c \in Callers, MarkReconciliationRequired(c) PROVE IInv'
  <2>1. call[c].pc # "idle" /\ call[c].id \in RefundIds
    BY <1>8, RunningCall DEF TypeOK, MarkReconciliationRequired
  <2>2. \A s \in RefundIds :
          /\ Status(s)' = Status(s)
          /\ IF s = call[c].id THEN operations'[s].reconciliationRequired
                               ELSE operations'[s] = operations[s]
    BY <1>8, <2>1, QuarantineEach
       DEF TypeOK, MarkReconciliationRequired, OwnersHoldRows, Owning
  <2>3. OneActive'
    BY <2>2 DEF OneActive
  <2>4. OwnersHoldRows'
    BY <1>0, <1>8, <2>2, ReturnEach, GroupShares
       DEF MarkReconciliationRequired, OwnersHoldRows, Owning
  <2>5. RequestsFollowRows'
    BY <1>8, <2>2
       DEF MarkReconciliationRequired, RequestsFollowRows, Owning, CallsKnow
  <2>6. OutcomeIsTrue'
    BY <1>8, <2>2 DEF MarkReconciliationRequired, OutcomeIsTrue
  <2>7. CallsKnow'
    BY <1>0, <1>8, <2>2, ReturnEach
       DEF MarkReconciliationRequired, CallsKnow, Recording
  <2>8. RecordsAreConfirmed'
    BY <1>8, <2>2 DEF TypeOK, MarkReconciliationRequired, RecordsAreConfirmed
  <2>9. LedgerIsLocked'
    BY <1>8, ReturnEach, GroupShares
       DEF MarkReconciliationRequired, LedgerIsLocked, InLedger, Fits
  <2>10. QED
    BY <1>8, <2>3, <2>4, <2>5, <2>6, <2>7, <2>8, <2>9
       DEF MarkReconciliationRequired, LedgerWithinPayment
<1>9. ASSUME NEW c \in Callers, MarkSucceeded(c) PROVE IInv'
  <2>1. call[c].pc # "idle" /\ call[c].id \in RefundIds
    BY <1>9, RunningCall DEF TypeOK, MarkSucceeded
  <2>2. \A s \in RefundIds :
          IF s = call[c].id
          THEN Status(s)' = "succeeded" /\ ~operations'[s].reconciliationRequired
          ELSE operations'[s] = operations[s]
    BY <1>9, <2>1, TerminalEach DEF TypeOK, MarkSucceeded, OwnersHoldRows, Owning
  <2>3. OneActive'
    BY <2>2 DEF OneActive
  <2>4. OwnersHoldRows'
    BY <1>0, <1>9, <2>2, GotoEach DEF MarkSucceeded, OwnersHoldRows, Owning
  <2>5. RequestsFollowRows'
    BY <1>9, <2>2 DEF MarkSucceeded, RequestsFollowRows
  <2>6. OutcomeIsTrue'
    BY <1>9, <2>2 DEF MarkSucceeded, OutcomeIsTrue, CallsKnow
  <2>7. CallsKnow'
    BY <1>0, <1>9, <2>2, GotoEach DEF MarkSucceeded, CallsKnow, Recording
  <2>8. RecordsAreConfirmed'
    BY <1>9, <2>2 DEF TypeOK, MarkSucceeded, RecordsAreConfirmed
  <2>9. LedgerIsLocked'
    BY <1>0, <1>9, <2>2, GotoEach DEF MarkSucceeded, LedgerIsLocked, InLedger, Fits
  <2>10. QED
    BY <1>9, <2>3, <2>4, <2>5, <2>6, <2>7, <2>8, <2>9
       DEF MarkSucceeded, LedgerWithinPayment
<1>10. ASSUME NEW c \in Callers, Lookup(c) PROVE IInv'
  <2>1. call[c].pc # "idle" /\ call[c].id \in RefundIds
    BY <1>10, RunningCall DEF TypeOK, Lookup
  <2>2. OwnersHoldRows'
    BY <1>0, <1>10, GotoEach, ReturnEach DEF Lookup, OwnersHoldRows, Owning
  <2>3. CallsKnow'
    BY <1>0, <1>10, GotoEach, ReturnEach DEF TypeOK, Lookup, CallsKnow, Recording
  <2>4. LedgerIsLocked'
    BY <1>0, <1>10, GotoEach, ReturnEach DEF Lookup, LedgerIsLocked, InLedger, Fits
  <2>5. QED
    BY <1>10, <2>2, <2>3, <2>4
       DEF Lookup, OneActive, RequestsFollowRows, OutcomeIsTrue,
           RecordsAreConfirmed, LedgerWithinPayment
<1>11. ASSUME NEW c \in Callers, ResolveSucceeded(c) PROVE IInv'
  <2>1. call[c].pc # "idle" /\ call[c].id \in RefundIds
    BY <1>11, RunningCall DEF TypeOK, ResolveSucceeded
  <2>2. \A s \in RefundIds :
          IF s = call[c].id /\ IsQuarantined(s)
          THEN Status(s)' = "succeeded" /\ ~operations'[s].reconciliationRequired
          ELSE operations'[s] = operations[s]
    BY <1>11, <2>1, TerminalEach DEF TypeOK, ResolveSucceeded
  <2>3. OneActive'
    BY <2>2 DEF OneActive
  <2>4. OwnersHoldRows'
    BY <1>0, <1>11, <2>1, <2>2, GotoEach, ReturnEach
       DEF ResolveSucceeded, OwnersHoldRows, Owning, RequestsFollowRows, CallsKnow,
           Recording
  <2>5. RequestsFollowRows'
    BY <1>11, <2>2 DEF ResolveSucceeded, RequestsFollowRows
  <2>6. OutcomeIsTrue'
    BY <1>11, <2>2 DEF ResolveSucceeded, OutcomeIsTrue, CallsKnow
  <2>7. CallsKnow'
    BY <1>0, <1>11, <2>2, GotoEach, ReturnEach
       DEF ResolveSucceeded, CallsKnow, Recording
  <2>8. RecordsAreConfirmed'
    BY <1>11, <2>2 DEF TypeOK, ResolveSucceeded, RecordsAreConfirmed
  <2>9. LedgerIsLocked'
    BY <1>0, <1>11, GotoEach, ReturnEach
       DEF ResolveSucceeded, LedgerIsLocked, InLedger, Fits
  <2>10. QED
    BY <1>11, <2>3, <2>4, <2>5, <2>6, <2>7, <2>8, <2>9
       DEF ResolveSucceeded, LedgerWithinPayment
<1>12. ASSUME NEW c \in Callers, ResolveFailed(c) PROVE IInv'
  <2>1. call[c].pc # "idle" /\ call[c].id \in RefundIds
    BY <1>12, RunningCall DEF TypeOK, ResolveFailed
  <2>2. \A s \in RefundIds :
          IF s = call[c].id /\ IsQuarantined(s)
          THEN Status(s)' = "failed" /\ ~operations'[s].reconciliationRequired
          ELSE operations'[s] = operations[s]
    BY <1>12, <2>1, TerminalEach DEF TypeOK, ResolveFailed
  <2>3. OneActive'
    BY <2>2 DEF OneActive
  <2>4. OwnersHoldRows'
    BY <1>0, <1>12, <2>2, ReturnEach DEF ResolveFailed, OwnersHoldRows, Owning
  <2>5. RequestsFollowRows'
    BY <1>12, <2>2 DEF ResolveFailed, RequestsFollowRows
  <2>6. OutcomeIsTrue'
    BY <1>0, <1>12, <2>1, <2>2
       DEF TypeOK, ResolveFailed, OutcomeIsTrue, OwnersHoldRows, Owning,
           RequestsFollowRows, CallsKnow, Recording
  <2>7. CallsKnow'
    BY <1>0, <1>12, <2>2, ReturnEach DEF ResolveFailed, CallsKnow, Recording
  <2>8. RecordsAreConfirmed'
    BY <1>12, <2>2 DEF TypeOK, ResolveFailed, RecordsAreConfirmed
  <2>9. LedgerIsLocked'
    BY <1>12, ReturnEach DEF ResolveFailed, LedgerIsLocked, InLedger, Fits
  <2>10. QED
    BY <1>12, <2>3, <2>4, <2>5, <2>6, <2>7, <2>8, <2>9
       DEF ResolveFailed, LedgerWithinPayment
<1>13. ASSUME NEW c \in Callers, SettlePartial(c) PROVE IInv'
  <2>1. call[c].pc # "idle" /\ call[c].id \in RefundIds
    BY <1>13, RunningCall DEF TypeOK, SettlePartial
  <2>2. OwnersHoldRows'
    BY <1>0, <1>13, GotoEach DEF SettlePartial, OwnersHoldRows, Owning
  <2>3. CallsKnow'
    BY <1>0, <1>13, GotoEach, GroupShares DEF SettlePartial, CallsKnow, Recording
  <2>4. LedgerIsLocked'
    BY <1>0, <1>13, GotoEach, GroupShares
       DEF SettlePartial, LedgerIsLocked, InLedger, Fits
  <2>5. QED
    BY <1>13, <2>2, <2>3, <2>4
       DEF SettlePartial, OneActive, RequestsFollowRows, OutcomeIsTrue,
           RecordsAreConfirmed, LedgerWithinPayment
<1>14. ASSUME NEW c \in Callers, SettleFull(c) PROVE IInv'
  <2>1. call[c].pc # "idle" /\ call[c].id \in RefundIds
    BY <1>14, RunningCall DEF TypeOK, SettleFull
  <2>2. OwnersHoldRows'
    BY <1>0, <1>14, GotoEach DEF SettleFull, OwnersHoldRows, Owning
  <2>3. CallsKnow'
    BY <1>0, <1>14, GotoEach, GroupShares DEF SettleFull, CallsKnow, Recording
  <2>4. LedgerIsLocked'
    BY <1>0, <1>14, GotoEach, GroupShares
       DEF SettleFull, LedgerIsLocked, InLedger, Fits
  <2>5. RecordsAreConfirmed'
    BY <1>0, <1>14 DEF TypeOK, SettleFull, RecordsAreConfirmed, CallsKnow, Recording
  <2>6. QED
    BY <1>14, <2>2, <2>3, <2>4, <2>5
       DEF SettleFull, OneActive, RequestsFollowRows, OutcomeIsTrue,
           LedgerWithinPayment
<1>15. ASSUME NEW c \in Callers, AppendStateEvent(c) PROVE IInv'
  <2>1. call[c].pc # "idle" /\ call[c].id \in RefundIds
    BY <1>15, RunningCall DEF TypeOK, AppendStateEvent
  <2>2. OwnersHoldRows'
    BY <1>0, <1>15, GotoEach DEF AppendStateEvent, OwnersHoldRows, Owning
  <2>3. CallsKnow'
    BY <1>0, <1>15, GotoEach, GroupShares DEF AppendStateEvent, CallsKnow, Recording
  <2>4. LedgerIsLocked'
    BY <1>0, <1>15, GotoEach, GroupShares
       DEF AppendStateEvent, LedgerIsLocked, InLedger, Fits
  <2>5. QED
    BY <1>15, <2>2, <2>3, <2>4
       DEF AppendStateEvent, OneActive, RequestsFollowRows, OutcomeIsTrue,
           RecordsAreConfirmed, LedgerWithinPayment
<1>16. ASSUME NEW c \in Callers, EnterLedger(c) PROVE IInv'
  <2>1. call[c].pc # "idle" /\ call[c].id \in RefundIds
    BY <1>16, RunningCall DEF TypeOK, EnterLedger
  <2>2. OwnersHoldRows'
    BY <1>0, <1>16, GotoEach DEF EnterLedger, OwnersHoldRows, Owning
  <2>3. CallsKnow'
    BY <1>0, <1>16, GotoEach DEF EnterLedger, CallsKnow, Recording
  <2>4. LedgerIsLocked'
    BY <1>0, <1>16, GotoEach, NoneAssumption
       DEF EnterLedger, LedgerIsLocked, InLedger
  <2>5. QED
    BY <1>16, <2>2, <2>3, <2>4
       DEF EnterLedger, OneActive, RequestsFollowRows, OutcomeIsTrue,
           RecordsAreConfirmed, LedgerWithinPayment
<1>17. ASSUME NEW c \in Callers, CheckLedger(c) PROVE IInv'
  <2>1. call[c].pc # "idle" /\ call[c].id \in RefundIds
    BY <1>17, RunningCall DEF TypeOK, CheckLedger
  <2>2. OwnersHoldRows'
    BY <1>0, <1>17, GotoEach, ReturnEach DEF CheckLedger, OwnersHoldRows, Owning
  <2>3. CallsKnow'
    BY <1>0, <1>17, GotoEach, ReturnEach DEF CheckLedger, CallsKnow, Recording
  <2>4. LedgerIsLocked'
    BY <1>0, <1>17, <2>1, GotoEach, ReturnEach, NoneAssumption
       DEF CheckLedger, LedgerIsLocked, InLedger, Fits
  <2>5. QED
    BY <1>17, <2>2, <2>3, <2>4
       DEF CheckLedger, OneActive, RequestsFollowRows, OutcomeIsTrue,
           RecordsAreConfirmed, LedgerWithinPayment
<1>18. ASSUME NEW c \in Callers, AppendTransaction(c) PROVE IInv'
  <2>1. call[c].pc # "idle" /\ call[c].id \in RefundIds
    BY <1>18, RunningCall DEF TypeOK, AppendTransaction
  <2>2. OwnersHoldRows'
    BY <1>0, <1>18, GotoEach DEF AppendTransaction, OwnersHoldRows, Owning
  <2>3. CallsKnow'
    BY <1>0, <1>18, GotoEach DEF AppendTransaction, CallsKnow, Recording
  <2>4. LedgerIsLocked'
    BY <1>0, <1>18, GotoEach, NoneAssumption
       DEF AppendTransaction, LedgerIsLocked, InLedger
  <2>5. RecordsAreConfirmed'
    BY <1>18 DEF AppendTransaction, RecordsAreConfirmed, CallsKnow, Recording
  <2>6. LedgerWithinPayment'
    BY <1>18 DEF AppendTransaction, LedgerWithinPayment, LedgerIsLocked, Fits
  <2>7. QED
    BY <1>18, <2>2, <2>3, <2>4, <2>5, <2>6
       DEF AppendTransaction, OneActive, RequestsFollowRows, OutcomeIsTrue
<1>19. ASSUME NEW c \in Callers, RecordRefunded(c) PROVE IInv'
  <2>1. call[c].pc # "idle" /\ call[c].id \in RefundIds
    BY <1>19, RunningCall DEF TypeOK, RecordRefunded
  <2>2. OwnersHoldRows'
    BY <1>19, ReturnEach DEF RecordRefunded, OwnersHoldRows, Owning
  <2>3. CallsKnow'
    BY <1>19, ReturnEach DEF RecordRefunded, CallsKnow, Recording
  <2>4. LedgerIsLocked'
    BY <1>19, ReturnEach DEF RecordRefunded, LedgerIsLocked, InLedger, Fits
  <2>5. RecordsAreConfirmed'
    BY <1>19 DEF RecordRefunded, RecordsAreConfirmed, CallsKnow
  <2>6. QED
    BY <1>19, <2>2, <2>3, <2>4, <2>5
       DEF RecordRefunded, OneActive, RequestsFollowRows, OutcomeIsTrue,
           LedgerWithinPayment
<1>20. ASSUME NEW c \in Callers, Throw(c) PROVE IInv'
  <2>1. call[c].pc # "idle" /\ call[c].id \in RefundIds
    BY <1>20, RunningCall DEF TypeOK, Throw, CanThrow
  <2>2. OwnersHoldRows'
    BY <1>20, ReturnEach DEF Throw, OwnersHoldRows, Owning
  <2>3. CallsKnow'
    BY <1>20, ReturnEach DEF Throw, CallsKnow, Recording
  <2>4. LedgerIsLocked'
    BY <1>20, ReturnEach, GroupShares, NoneAssumption
       DEF Throw, LedgerIsLocked, InLedger, Fits
  <2>5. QED
    BY <1>20, <2>2, <2>3, <2>4
       DEF Throw, OneActive, RequestsFollowRows, OutcomeIsTrue, RecordsAreConfirmed,
           LedgerWithinPayment
<1>21. ASSUME NEW c \in Callers, NEW kind \in Kinds, NEW r \in RefundIds, Start(c, kind, r)
       PROVE  IInv'
  <2>1. call'[c].pc \in {"requested", "reserve"}
    BY <1>21 DEF Start, TypeOK, CallTypeOK
  <2>2. \A d \in Callers : d # c => call'[d] = call[d]
    BY <1>21 DEF Start
  <2>3. OwnersHoldRows' /\ CallsKnow' /\ LedgerIsLocked'
    BY <1>21, <2>1, <2>2 DEF Start, OwnersHoldRows, CallsKnow, LedgerIsLocked,
         Owning, Recording, InLedger, Fits
  <2>4. QED
    BY <1>21, <2>3 DEF Start, OneActive, RequestsFollowRows, OutcomeIsTrue,
         RecordsAreConfirmed, LedgerWithinPayment
<1>22. ASSUME NEW r \in RefundIds, ProviderDecides(r) PROVE IInv'
  BY <1>22
     DEF ProviderDecides, TypeOK, CallTypeOK, OneActive, OwnersHoldRows,
         RequestsFollowRows, OutcomeIsTrue, CallsKnow, RecordsAreConfirmed,
         LedgerIsLocked, LedgerWithinPayment, Owning, Recording, InLedger, Fits
<1>23. ASSUME Crash PROVE IInv'
  BY <1>23, NoneAssumption
     DEF Crash, Idle, OneActive, OwnersHoldRows, RequestsFollowRows, OutcomeIsTrue,
         CallsKnow, RecordsAreConfirmed, LedgerIsLocked, LedgerWithinPayment,
         Owning, Recording, InLedger
<1>24. ASSUME UNCHANGED vars PROVE IInv'
  BY <1>24
     DEF vars, OneActive, OwnersHoldRows, RequestsFollowRows, OutcomeIsTrue,
         CallsKnow, RecordsAreConfirmed, LedgerIsLocked, LedgerWithinPayment,
         Recording, Fits
<1> QED
  BY <1>1, <1>2, <1>3, <1>4, <1>5, <1>6, <1>7, <1>8, <1>9, <1>10, <1>11, <1>12,
     <1>13, <1>14, <1>15, <1>16, <1>17, <1>18, <1>19, <1>20, <1>21, <1>22, <1>23,
     <1>24 DEF Next, Step

-----------------------------------------------------------------------------
(* Safety. *)

\* Nothing is reserved, asked for or recorded at first.
LEMMA InductiveInit == Init => IInv
BY NoneAssumption, PaymentAmountAssumption, RefundIdType
   DEF Init, IInv, OneActive, OwnersHoldRows, RequestsFollowRows, OutcomeIsTrue,
       CallsKnow, RecordsAreConfirmed, LedgerIsLocked, LedgerWithinPayment, Owning,
       Recording, InLedger, Idle, NoRow, Status, IsProcessing, IsQuarantined, At

\* The inductive invariant holds of every reachable state.
THEOREM Invariance == Spec => []IInv
BY TypeCorrect, InductiveInit, InductiveStep, PTL DEF Spec

\* No two calls of one payment are between a reservation and its confirmation.
THEOREM SingleFlightHolds == Spec => []SingleFlight
<1>1. TypeOK /\ IInv => SingleFlight
  <2> SUFFICES ASSUME TypeOK, IInv, NEW c \in Callers, NEW d \in Callers,
                      call[c].pc \in Owning, call[d].pc \in Owning,
                      call[c].id.pay = call[d].id.pay
               PROVE  c = d
    BY DEF SingleFlight
  <2>1. call[c].id \in RefundIds /\ call[d].id \in RefundIds
    BY RunningCall DEF TypeOK, Owning
  <2>2. IsProcessing(call[c].id) /\ IsProcessing(call[d].id)
    BY DEF IInv, OwnersHoldRows
  <2>3. call[c].id = call[d].id
    BY <2>1, <2>2 DEF IInv, OneActive
  <2>4. QED
    BY <2>3 DEF IInv, OwnersHoldRows
<1> QED
  BY <1>1, TypeCorrect, Invariance, PTL

\* The provider is asked at most once for a refund ID.
THEOREM AtMostOneRequestHolds == Spec => []AtMostOneRequest
<1>1. IInv => AtMostOneRequest
  BY DEF IInv, RequestsFollowRows, AtMostOneRequest
<1> QED
  BY <1>1, Invariance, PTL

\* A terminal operation is what the provider did.
THEOREM OutcomeIsTrueHolds == Spec => []OutcomeIsTrue
<1>1. IInv => OutcomeIsTrue
  BY DEF IInv
<1> QED
  BY <1>1, Invariance, PTL

\* Journal, payment status and events record confirmed refunds only.
THEOREM RecordsAreConfirmedHolds == Spec => []RecordsAreConfirmed
<1>1. IInv => RecordsAreConfirmed
  BY DEF IInv
<1> QED
  BY <1>1, Invariance, PTL

\* The journal never refunds more than the payment.
THEOREM LedgerWithinPaymentHolds == Spec => []LedgerWithinPayment
<1>1. IInv => LedgerWithinPayment
  BY DEF IInv
<1> QED
  BY <1>1, Invariance, PTL

\* No step of the calls asks for a refund of a payment that has one in quarantine, or ends
\* a quarantine without an outcome.
LEMMA QuarantineKept == TypeOK /\ IInv /\ Next => QuarantineStep
<1> SUFFICES ASSUME TypeOK, IInv, Next,
                    NEW r \in RefundIds, IsQuarantined(r)
             PROVE  /\ \A s \in RefundIds : s.pay = r.pay => requests'[s] = requests[s]
                    /\ IsQuarantined(r)' \/ Status(r)' \in {"succeeded", "failed"}
  BY DEF QuarantineStep
<1> USE DEF TypeOK, IsQuarantined, IsProcessing, Status, At
<1>1. \A c \in Callers : call[c].pc # "idle" => call[c].id \in RefundIds
  BY RunningCall
<1>2. ASSUME NEW c \in Callers, ReserveInsert(c)
      PROVE  UNCHANGED requests /\ operations'[r] = operations[r]
  BY <1>1, <1>2, InsertEach DEF ReserveInsert, CanInsert
<1>3. ASSUME NEW c \in Callers, SendRequest(c)
      PROVE  /\ \A s \in RefundIds : s.pay = r.pay => requests'[s] = requests[s]
             /\ operations'[r] = operations[r]
  <2>1. call[c].id \in RefundIds /\ IsProcessing(call[c].id) /\ ~IsQuarantined(call[c].id)
    BY <1>1, <1>3 DEF SendRequest, IInv, OwnersHoldRows, Owning
  <2>2. call[c].id.pay # r.pay
    BY <2>1 DEF IInv, OneActive
  <2>3. QED
    BY <1>3, <2>1, <2>2 DEF SendRequest
<1>4. ASSUME NEW c \in Callers, MarkReconciliationRequired(c)
      PROVE  UNCHANGED requests /\ IsQuarantined(r)'
  BY <1>1, <1>4, QuarantineEach DEF MarkReconciliationRequired
<1>5. ASSUME NEW c \in Callers,
             MarkSucceeded(c) \/ ResolveSucceeded(c) \/ ResolveFailed(c)
      PROVE  /\ UNCHANGED requests
             /\ IsQuarantined(r)' \/ Status(r)' \in {"succeeded", "failed"}
  BY <1>1, <1>5, TerminalEach DEF MarkSucceeded, ResolveSucceeded, ResolveFailed
<1>6. CASE UNCHANGED <<operations, requests>>
  BY <1>6
<1>7. ASSUME NEW c \in Callers, Step(c)
      PROVE  \/ UNCHANGED <<operations, requests>>
             \/ ReserveInsert(c) \/ SendRequest(c) \/ MarkReconciliationRequired(c)
             \/ MarkSucceeded(c) \/ ResolveSucceeded(c) \/ ResolveFailed(c)
  BY <1>7
     DEF Step, RecordRequested, ReserveConflict, ReserveReread, ProviderConfirms,
       RequestFails, Lookup, SettlePartial, SettleFull, AppendStateEvent, EnterLedger,
       CheckLedger, AppendTransaction, RecordRefunded
<1>8. \/ UNCHANGED <<operations, requests>>
      \/ \E c \in Callers : Step(c)
  BY DEF Next, Start, Throw, ProviderDecides, Crash
<1>9. QED
  BY <1>2, <1>3, <1>4, <1>5, <1>6, <1>7, <1>8

\* A quarantined refund blocks requests for its payment until it is resolved.
THEOREM QuarantineIsKept == Spec => QuarantineHolds
<1>1. TypeOK /\ IInv /\ [Next]_vars => [QuarantineStep]_vars
  BY QuarantineKept
<1> QED
  BY <1>1, TypeCorrect, Invariance, PTL DEF Spec, QuarantineHolds

-----------------------------------------------------------------------------
(* The audit trail of a store with the compare-and-set update. *)

\* A call reaches the append of the state event through SettleFull alone.
LEMMA AuditOnlyAfterSettling ==
  ASSUME TypeOK, NEW c \in Callers, Step(c), ~SettleFull(c), ~AppendStateEvent(c)
  PROVE  \A d \in Callers :
           call'[d].pc = "audit" => call[d].pc = "audit" /\ call'[d].id = call[d].id
<1>1. CallTypeOK
  BY DEF TypeOK
<1>2. ASSUME NEW S, NEW pc, pc # "audit", Goto(S, pc)
      PROVE  \A d \in Callers :
               call'[d].pc = "audit" => call[d].pc = "audit" /\ call'[d].id = call[d].id
  BY <1>1, <1>2, GotoEach
<1>3. ASSUME NEW S, Return(S)
      PROVE  \A d \in Callers :
               call'[d].pc = "audit" => call[d].pc = "audit" /\ call'[d].id = call[d].id
  BY <1>3, ReturnEach
<1>4. CASE RecordRequested(c) \/ ReserveInsert(c) \/ ReserveConflict(c) \/ ReserveReread(c)
  BY <1>2, <1>3, <1>4 DEF RecordRequested, ReserveInsert, ReserveConflict, ReserveReread
<1>5. CASE \/ SendRequest(c) \/ ProviderConfirms(c) \/ RequestFails(c)
           \/ MarkReconciliationRequired(c) \/ MarkSucceeded(c)
  BY <1>2, <1>3, <1>5
     DEF SendRequest, ProviderConfirms, RequestFails, MarkReconciliationRequired,
         MarkSucceeded
<1>6. CASE Lookup(c) \/ ResolveSucceeded(c) \/ ResolveFailed(c)
  BY <1>2, <1>3, <1>6 DEF Lookup, ResolveSucceeded, ResolveFailed
<1>7. CASE \/ SettlePartial(c) \/ EnterLedger(c) \/ CheckLedger(c)
           \/ AppendTransaction(c) \/ RecordRefunded(c)
  BY <1>2, <1>3, <1>7
     DEF SettlePartial, EnterLedger, CheckLedger, AppendTransaction, RecordRefunded
<1> QED
  BY <1>4, <1>5, <1>6, <1>7 DEF Step

\* So no other step of a call writes the intent or its audit trail.
LEMMA TrailUnchanged ==
  ASSUME NEW c \in Callers, Step(c), ~SettleFull(c), ~AppendStateEvent(c)
  PROVE  UNCHANGED <<paymentStatus, auditTrail>>
  BY DEF Step, RecordRequested, ReserveInsert, ReserveConflict, ReserveReread,
     SendRequest, ProviderConfirms, RequestFails, MarkReconciliationRequired,
     MarkSucceeded, Lookup, ResolveSucceeded, ResolveFailed, SettlePartial, EnterLedger,
     CheckLedger, AppendTransaction, RecordRefunded

\* With the compare-and-set every step keeps OneTransition.
LEMMA OneTransitionStep ==
  ASSUME HasUpdateIfStatus, TypeOK, OneTransition, [Next]_vars
  PROVE  OneTransition'
<1>1. /\ CallTypeOK
      /\ \A d \in Callers : call[d].pc # "idle" =>
           call[d].id \in RefundIds /\ call[d].id.pay \in Payments
      /\ auditTrail \in [Payments -> Nat]
      /\ paymentStatus \in [Payments -> {"paid", "refunded"}]
  BY RunningCall, RefundIdType DEF TypeOK
<1>2. ASSUME UNCHANGED <<paymentStatus, auditTrail>>,
             \A d \in Callers :
               call'[d].pc = "audit" => call[d].pc = "audit" /\ call'[d].id = call[d].id
      PROVE  OneTransition'
  BY <1>2 DEF OneTransition, OneRefundedEvent, At
<1>3. ASSUME NEW c \in Callers, SettleFull(c) PROVE OneTransition'
  <2> DEFINE p == call[c].id.pay
  <2>1. call[c].pc = "settle" /\ p \in Payments
    BY <1>1, <1>3 DEF SettleFull, At
  <2>2. CASE StatusUpdateWins(p)
    <3>1. paymentStatus[p] = "paid"
      BY <2>2 DEF StatusUpdateWins
    <3>2. \A d \in Callers : call[d].pc = "audit" => call[d].id.pay # p
      BY <3>1 DEF OneTransition, At
    <3>3. /\ paymentStatus' = [paymentStatus EXCEPT ![p] = "refunded"]
          /\ auditTrail' = auditTrail
          /\ auditTrail[p] = 0
      BY <1>3, <2>1, <2>2, <3>1 DEF SettleFull, OneTransition
    <3>4. \A d \in Callers : /\ call'[d].id = call[d].id
                             /\ call'[d].pc = "audit" => d = c \/ call[d].pc = "audit"
      BY <1>1, <1>3, <2>2, GotoEach DEF SettleFull
    <3>5. QED
      BY <1>1, <2>1, <3>2, <3>3, <3>4 DEF OneTransition, OneRefundedEvent, At
  <2>3. CASE ~StatusUpdateWins(p)
    BY <1>1, <1>2, <1>3, <2>3, GotoEach DEF SettleFull
  <2>4. QED
    BY <2>2, <2>3
<1>4. ASSUME NEW c \in Callers, AppendStateEvent(c) PROVE OneTransition'
  <2> DEFINE p == call[c].id.pay
  <2>1. call[c].pc = "audit" /\ p \in Payments
    BY <1>1, <1>4 DEF AppendStateEvent, At
  <2>2. paymentStatus[p] # "paid" /\ auditTrail[p] = 0
    BY <2>1 DEF OneTransition, At
  <2>3. /\ auditTrail' = [auditTrail EXCEPT ![p] = @ + 1]
        /\ paymentStatus' = paymentStatus
    BY <1>4 DEF AppendStateEvent
  <2>4. \A d \in Callers : call'[d].pc = "audit" =>
          call[d].pc = "audit" /\ call'[d].id = call[d].id /\ d # c
    BY <1>1, <1>4, GotoEach, GroupShares DEF AppendStateEvent
  <2>5. \A d \in Callers : call'[d].pc = "audit" => call[d].id.pay # p
    BY <2>1, <2>4 DEF OneTransition, At
  <2>6. QED
    BY <1>1, <2>1, <2>2, <2>3, <2>4, <2>5 DEF OneTransition, OneRefundedEvent, At
<1>5. ASSUME NEW c \in Callers, Step(c) PROVE OneTransition'
  BY <1>2, <1>3, <1>4, <1>5, AuditOnlyAfterSettling, TrailUnchanged
<1>6. ASSUME NEW c \in Callers, NEW kind \in Kinds, NEW r \in RefundIds, Start(c, kind, r)
      PROVE  OneTransition'
  BY <1>1, <1>2, <1>6 DEF Start, CallTypeOK
<1>7. ASSUME NEW c \in Callers, Throw(c) PROVE OneTransition'
  BY <1>2, <1>7, ReturnEach DEF Throw
<1>8. ASSUME NEW r \in RefundIds, ProviderDecides(r) PROVE OneTransition'
  BY <1>2, <1>8 DEF ProviderDecides
<1>9. CASE Crash
  BY <1>2, <1>9 DEF Crash, Idle
<1>10. CASE UNCHANGED vars
  BY <1>2, <1>10 DEF vars
<1> QED
  BY <1>5, <1>6, <1>7, <1>8, <1>9, <1>10 DEF Next

\* On a store with the compare-and-set the audit trail never shows two transitions
\* of one payment to `refunded', for any calls, retries, crashes and reconciliations.
THEOREM OneRefundedEventHolds == HasUpdateIfStatus => (Spec => []OneRefundedEvent)
<1> SUFFICES ASSUME HasUpdateIfStatus PROVE Spec => []OneRefundedEvent
  OBVIOUS
<1>1. Init => OneTransition
  BY DEF Init, OneTransition, OneRefundedEvent, At, Idle
<1>2. TypeOK /\ OneTransition /\ [Next]_vars => OneTransition'
  BY OneTransitionStep
<1>3. OneTransition => OneRefundedEvent
  BY DEF OneTransition
<1> QED
  BY <1>1, <1>2, <1>3, TypeCorrect, PTL DEF Spec

-----------------------------------------------------------------------------
(* Refinement. *)

\* A step that leaves table, provider and journal alone stutters in the contract.
LEMMA BooksUnchanged ==
  ASSUME UNCHANGED <<operations, provider, ledger>>
  PROVE  UNCHANGED Contract!contractVars
  BY DEF Contract!contractVars, Books, Status

\* Every step of the fabric is a step of the contract, or a stutter.
LEMMA StepImplements ==
  TypeOK /\ IInv /\ [Next]_vars => [Contract!ContractNext]_(Contract!contractVars)
<1> SUFFICES ASSUME TypeOK, IInv, [Next]_vars
             PROVE  [Contract!ContractNext]_(Contract!contractVars)
  OBVIOUS
<1>1. /\ \A c \in Callers : call[c].pc # "idle" => call[c].id \in RefundIds
      /\ operations \in [RefundIds -> Row]
      /\ provider \in [RefundIds -> {"none", "inTransit", "executed", "rejected"}]
  BY RunningCall DEF TypeOK
<1> DEFINE books == [r \in RefundIds |-> Books(r)]
<1>2. ASSUME NEW c \in Callers, ReserveInsert(c) PROVE Contract!Open(call[c].id)
  <2>1. call[c].id \in RefundIds
    BY <1>1, <1>2 DEF ReserveInsert, At
  <2>2. \A s \in RefundIds :
          Books(s)' = IF s = call[c].id THEN "undecided" ELSE Books(s)
    BY <1>1, <1>2, <2>1, InsertEach DEF ReserveInsert, Books, Status
  <2>3. books' = [books EXCEPT ![call[c].id] = "undecided"]
    BY <2>1, <2>2
  <2>4. QED
    BY <1>2, <2>1, <2>3
       DEF Contract!Open, ReserveInsert, CanInsert, Books, Status, IsProcessing
<1>3. ASSUME NEW c \in Callers, SendRequest(c) PROVE Contract!Ask(call[c].id)
  <2>1. call[c].id \in RefundIds /\ Status(call[c].id) = "processing"
        /\ provider[call[c].id] = "none"
    BY <1>1, <1>3
       DEF SendRequest, At, IInv, OwnersHoldRows, Owning, CallsKnow, IsProcessing
  <2>2. UNCHANGED books
    BY <1>3 DEF SendRequest, Books, Status
  <2>3. QED
    BY <1>3, <2>1, <2>2 DEF Contract!Ask, SendRequest, Books
<1>4. ASSUME NEW r \in RefundIds, ProviderDecides(r) PROVE Contract!Decide(r)
  <2>1. UNCHANGED books
    BY <1>4 DEF ProviderDecides, Books, Status
  <2>2. QED
    BY <1>4, <2>1 DEF Contract!Decide, ProviderDecides
<1>5. ASSUME NEW r \in RefundIds, NEW status \in {"succeeded", "failed"},
             IsProcessing(r), SetTerminal(r, status),
             provider[r] = IF status = "succeeded" THEN "executed" ELSE "rejected",
             UNCHANGED <<provider, ledger>>
      PROVE  Contract!Conclude(r)
  <2>1. \A s \in RefundIds :
          Books(s)' = IF s = r THEN IF status = "succeeded" THEN "paidOut" ELSE "void"
                               ELSE Books(s)
    BY <1>1, <1>5, TerminalEach DEF Books, Status
  <2>2. books' = [books EXCEPT ![r] = IF status = "succeeded" THEN "paidOut" ELSE "void"]
    BY <2>1
  <2>3. books[r] = "undecided"
    BY <1>5 DEF Books, IsProcessing, Status
  <2>4. QED
    BY <1>5, <2>2, <2>3 DEF Contract!Conclude
<1>6. ASSUME NEW c \in Callers, AppendTransaction(c)
      PROVE  Contract!Post(call[c].id) \/ UNCHANGED Contract!contractVars
  <2>1. call[c].id \in RefundIds /\ Status(call[c].id) = "succeeded"
    BY <1>1, <1>6 DEF AppendTransaction, At, IInv, CallsKnow, Recording
  <2>2. UNCHANGED books
    BY <1>6 DEF AppendTransaction, Books, Status
  <2>3. books[call[c].id] = "paidOut"
    BY <2>1 DEF Books
  <2>4. CASE call[c].id \in ledger
    BY <1>6, <2>4, BooksUnchanged DEF AppendTransaction
  <2>5. CASE call[c].id \notin ledger
    BY <1>6, <2>1, <2>2, <2>3, <2>5 DEF Contract!Post, AppendTransaction
  <2>6. QED
    BY <2>4, <2>5
<1>7. ASSUME NEW c \in Callers, MarkSucceeded(c)
      PROVE  Contract!Conclude(call[c].id) \/ UNCHANGED <<operations, provider, ledger>>
  BY <1>1, <1>5, <1>7 DEF MarkSucceeded, At, IInv, CallsKnow
<1>8. ASSUME NEW c \in Callers, ResolveSucceeded(c)
      PROVE  Contract!Conclude(call[c].id) \/ UNCHANGED <<operations, provider, ledger>>
  BY <1>1, <1>5, <1>8 DEF ResolveSucceeded, At, IInv, CallsKnow, IsQuarantined
<1>9. ASSUME NEW c \in Callers, ResolveFailed(c)
      PROVE  Contract!Conclude(call[c].id) \/ UNCHANGED <<operations, provider, ledger>>
  BY <1>1, <1>5, <1>9 DEF ResolveFailed, At, IInv, CallsKnow, IsQuarantined
<1>10. ASSUME NEW c \in Callers, MarkReconciliationRequired(c)
       PROVE  UNCHANGED Contract!contractVars
  <2>1. call[c].id \in RefundIds
    BY <1>1, <1>10 DEF MarkReconciliationRequired, At
  <2>2. \A s \in RefundIds : Status(s)' = Status(s)
    BY <1>1, <1>10, <2>1, QuarantineEach DEF MarkReconciliationRequired, Status
  <2>3. UNCHANGED books
    BY <2>2 DEF Books
  <2>4. QED
    BY <1>10, <2>3 DEF Contract!contractVars, MarkReconciliationRequired
<1>11. ASSUME NEW c \in Callers, Step(c)
       PROVE  \/ UNCHANGED <<operations, provider, ledger>>
              \/ ReserveInsert(c) \/ SendRequest(c) \/ AppendTransaction(c)
              \/ MarkReconciliationRequired(c) \/ MarkSucceeded(c)
              \/ ResolveSucceeded(c) \/ ResolveFailed(c)
  BY <1>11
     DEF Step, RecordRequested, ReserveConflict, ReserveReread, ProviderConfirms,
       RequestFails, Lookup, SettlePartial, SettleFull, AppendStateEvent, EnterLedger,
       CheckLedger, RecordRefunded
<1>12. \/ UNCHANGED <<operations, provider, ledger>>
       \/ \E c \in Callers : Step(c)
       \/ \E r \in RefundIds : ProviderDecides(r)
  BY DEF Next, Start, Throw, Crash, vars
<1>13. ASSUME NEW c \in Callers, Step(c)
       PROVE  \/ UNCHANGED Contract!contractVars
              \/ \E r \in RefundIds :
                   \/ Contract!Open(r) \/ Contract!Ask(r)
                   \/ Contract!Conclude(r) \/ Contract!Post(r)
  <2>1. call[c].id \in RefundIds \/ UNCHANGED <<operations, provider, ledger>>
    BY <1>1, <1>11, <1>13 DEF ReserveInsert, SendRequest, AppendTransaction,
         MarkReconciliationRequired, MarkSucceeded, ResolveSucceeded, ResolveFailed, At
  <2>2. QED
    BY <1>2, <1>3, <1>6, <1>7, <1>8, <1>9, <1>10, <1>11, <1>13, <2>1, BooksUnchanged
<1> QED
  BY <1>4, <1>12, <1>13, BooksUnchanged DEF Contract!ContractNext

\* The fabric implements the contract, whatever the callers, crashes and errors.
THEOREM Refinement == Spec => ImplementsContract
<1>1. Init => Contract!ContractInit
  BY DEF Init, Contract!ContractInit, Books, Status, NoRow
<1> QED
  BY <1>1, StepImplements, TypeCorrect, Invariance, PTL
     DEF Spec, ImplementsContract, Contract!ContractSpec
=============================================================================
