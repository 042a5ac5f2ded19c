---------------------------- MODULE RefundFabric ----------------------------
(***************************************************************************)
(* Calls of PaymentOrchestrator.refund and .reconcileRefund, concurrent    *)
(* and interrupted at any await, against the durable table of refund       *)
(* operations, the payment intents, the provider and the refund journal.   *)
(*                                                                         *)
(* One action is the code between two awaits.  A call holds the intent it  *)
(* was given, whose status was `paid' when the call began and is not read  *)
(* again; its refund ID is the record call[c].id.                          *)
(***************************************************************************)
EXTENDS RefundOperations

CONSTANTS Callers,            \* concurrent calls of the orchestrators
          Home,               \* the orchestrator object each call is made on
          HasUpdateIfStatus,  \* the payment store has the compare-and-set update
          None

ASSUME HasUpdateIfStatusAssumption == HasUpdateIfStatus \in BOOLEAN

ASSUME NoneAssumption == None \notin Callers /\ None \notin RefundIds

VARIABLES
  call,           \* what each caller is doing
  paymentStatus,  \* status of each payment intent
  auditTrail,     \* number of `refunded' state events appended per payment
  provider,       \* what became of the provider's refund (external)
  requests,       \* number of requestRefund calls made per refund ID
  ledger,         \* refunds posted to the journal
  refunded,       \* getRefundedAmount of each payment: the sum of its postings
  lock,           \* the caller inside withRefundLock, or None
  events          \* fingerprints in the payment event store

vars == <<operations, call, paymentStatus, auditTrail, provider, requests,
          ledger, refunded, lock, events>>

-----------------------------------------------------------------------------
(* Calls. *)

\* Awaits of executeRefund while it alone is responsible for its row.
Owning == {"send", "await", "mark", "quarantine"}

\* Awaits of executeRefund: the operation sits in the inFlight map.
Executing == Owning \union {"reserve", "reread", "settle", "audit"}

\* The refund is known to have been paid out; it remains to record it.
Recording == {"settle", "audit", "ledger", "check", "append", "event"}

\* Inside the promise chain of withRefundLock.
InLedger == {"check", "append"}

Pcs == {"idle", "requested", "joined", "lookup", "resolveSucceeded", "resolveFailed"}
         \union Executing \union Recording

Kinds == {"refund", "reconcile"}

Idle == [kind |-> "refund", pc |-> "idle", id |-> None]

IsLeader(c) == call[c].kind = "refund" /\ call[c].pc \in Executing

\* Mutant: the promise of the call in flight resolves its own caller only.
GroupOfLeaderOnly(c) == {c}

\* The calls that await the promise of c's executeRefund, c included.
Group(c) ==
  {c} \union {d \in Callers : /\ IsLeader(c)
                              /\ call[d].pc = "joined"
                              /\ call[d].id = call[c].id
                              /\ Home[d] = Home[c]}

At(c, pc) == call[c].pc = pc

Goto(S, pc) ==
  call' = [d \in Callers |-> IF d \in S THEN [call[d] EXCEPT !.pc = pc] ELSE call[d]]

\* Mutant: a call that has returned still holds its refund.
ReturnKeepingId(S) == Goto(S, "idle")

\* The calls of S return or throw.
Return(S) == call' = [d \in Callers |-> IF d \in S THEN Idle ELSE call[d]]

Fingerprints == [kind : {"refund.requested", "payment.refunded"}, id : RefundIds]

Init ==
  /\ operations = [r \in RefundIds |-> NoRow]
  /\ call = [c \in Callers |-> Idle]
  /\ paymentStatus = [p \in Payments |-> "paid"]
  /\ auditTrail = [p \in Payments |-> 0]
  /\ provider = [r \in RefundIds |-> "none"]
  /\ requests = [r \in RefundIds |-> 0]
  /\ ledger = {}
  /\ refunded = [p \in Payments |-> 0]
  /\ lock = None
  /\ events = {}

-----------------------------------------------------------------------------
(* Entry: the checks on the intent, before the first await. *)

Start(c, kind, r) ==
  /\ At(c, "idle")
  /\ paymentStatus[r.pay] = "paid"
  /\ call' = [call EXCEPT ![c] =
       [kind |-> kind, pc |-> IF kind = "refund" THEN "requested" ELSE "reserve", id |-> r]]
  /\ UNCHANGED <<operations, paymentStatus, auditTrail, provider, requests,
                 ledger, refunded, lock, events>>

\* The same refund is already being executed by this orchestrator object.
InFlight(c) ==
  \E d \in Callers : IsLeader(d) /\ call[d].id = call[c].id /\ Home[d] = Home[c]

\* The refund.requested event, then IzakhonoRefunds.refund up to its first await.
RecordRequested(c) ==
  /\ At(c, "requested")
  /\ events' = events \union {[kind |-> "refund.requested", id |-> call[c].id]}
  /\ Goto({c}, IF InFlight(c) THEN "joined" ELSE "reserve")
  /\ UNCHANGED <<operations, paymentStatus, auditTrail, provider, requests,
                 ledger, refunded, lock>>

-----------------------------------------------------------------------------
(* RefundOperationStore.reserve: an INSERT and, after a conflict, a SELECT. *)

\* A reconciliation that finds no row inserts one and then throws: the row stays.
ReserveInsert(c) ==
  /\ At(c, "reserve")
  /\ CanInsert(call[c].id)
  /\ InsertProcessing(call[c].id)
  /\ IF call[c].kind = "refund" THEN Goto({c}, "send") ELSE Return({c})
  /\ UNCHANGED <<paymentStatus, auditTrail, provider, requests, ledger, refunded,
                 lock, events>>

ReserveConflict(c) ==
  /\ At(c, "reserve")
  /\ ~CanInsert(call[c].id)
  /\ Goto({c}, "reread")
  /\ UNCHANGED <<operations, paymentStatus, auditTrail, provider, requests, ledger,
                 refunded, lock, events>>

\* A succeeded row is returned; a quarantined one may only be looked up at the
\* provider; every other answer makes the call throw.
ReserveReread(c) ==
  /\ At(c, "reread")
  /\ LET answer == ReservationKind(call[c].id) IN
       IF answer = "succeeded" THEN Goto({c}, "settle")
       ELSE IF answer = "reconciliation-required" /\ call[c].kind = "reconcile"
            THEN Goto({c}, "lookup")
       ELSE Return(Group(c))
  /\ UNCHANGED <<operations, paymentStatus, auditTrail, provider, requests, ledger,
                 refunded, lock, events>>

-----------------------------------------------------------------------------
(* The provider, and the two ways executeRefund hears from it. *)

SendRequest(c) ==
  /\ At(c, "send")
  /\ provider' = [provider EXCEPT ![call[c].id] = "inTransit"]
  /\ requests' = [requests EXCEPT ![call[c].id] = @ + 1]
  /\ Goto({c}, "await")
  /\ UNCHANGED <<operations, paymentStatus, auditTrail, ledger, refunded, lock, events>>

ProviderDecides(r) ==
  /\ provider[r] = "inTransit"
  /\ \E outcome \in {"executed", "rejected"} :
       provider' = [provider EXCEPT ![r] = outcome]
  /\ UNCHANGED <<operations, call, paymentStatus, auditTrail, requests, ledger,
                 refunded, lock, events>>

\* Mutant: the confirmation is not stored before the refund is recorded.
ProviderConfirmsUnmarked(c) ==
  /\ At(c, "await")
  /\ provider[call[c].id] = "executed"
  /\ Goto({c}, "settle")
  /\ UNCHANGED <<operations, paymentStatus, auditTrail, provider, requests, ledger,
                 refunded, lock, events>>

ProviderConfirms(c) ==
  /\ At(c, "await")
  /\ provider[call[c].id] = "executed"
  /\ Goto({c}, "mark")
  /\ UNCHANGED <<operations, paymentStatus, auditTrail, provider, requests, ledger,
                 refunded, lock, events>>

\* requestRefund throws.  The answer may be a refusal, or a transport error or a
\* timeout that says nothing about what the provider did or will do.
RequestFails(c) ==
  /\ At(c, "await")
  /\ Goto({c}, "quarantine")
  /\ UNCHANGED <<operations, paymentStatus, auditTrail, provider, requests, ledger,
                 refunded, lock, events>>

\* Mutant: a transport error is taken for a refusal of the provider.
MarkFailedOnError(c) ==
  /\ At(c, "quarantine")
  /\ IF IsProcessing(call[c].id) THEN SetTerminal(call[c].id, "failed")
                                 ELSE UNCHANGED operations
  /\ Return(Group(c))
  /\ UNCHANGED <<paymentStatus, auditTrail, provider, requests, ledger, refunded,
                 lock, events>>

MarkReconciliationRequired(c) ==
  /\ At(c, "quarantine")
  /\ IF IsProcessing(call[c].id) THEN SetQuarantined(call[c].id)
                                 ELSE UNCHANGED operations
  /\ Return(Group(c))
  /\ UNCHANGED <<paymentStatus, auditTrail, provider, requests, ledger, refunded,
                 lock, events>>

MarkSucceeded(c) ==
  LET r == call[c].id IN
  /\ At(c, "mark")
  /\ IF IsProcessing(r) THEN SetTerminal(r, "succeeded") ELSE UNCHANGED operations
  /\ IF Status(r) \in {"processing", "succeeded"} THEN Goto({c}, "settle")
                                                  ELSE Return(Group(c))
  /\ UNCHANGED <<paymentStatus, auditTrail, provider, requests, ledger, refunded,
                 lock, events>>

-----------------------------------------------------------------------------
(* IzakhonoRefundRecovery.reconcile: the lookup and the resolution. *)

\* Mutant: a refund the provider has not executed yet is reported as failed.
LookupUndecidedAsFailed(c) ==
  /\ At(c, "lookup")
  /\ Goto({c}, IF provider[call[c].id] = "executed" THEN "resolveSucceeded"
                                                    ELSE "resolveFailed")
  /\ UNCHANGED <<operations, paymentStatus, auditTrail, provider, requests, ledger,
                 refunded, lock, events>>

\* reconcileRefund reports an outcome only when there is one, and throws while
\* the request may still take effect.
Lookup(c) ==
  /\ At(c, "lookup")
  /\ CASE provider[call[c].id] = "executed" -> Goto({c}, "resolveSucceeded")
       [] provider[call[c].id] = "inTransit" -> Return({c})
       [] OTHER -> Goto({c}, "resolveFailed")
  /\ UNCHANGED <<operations, paymentStatus, auditTrail, provider, requests, ledger,
                 refunded, lock, events>>

ResolveSucceeded(c) ==
  LET r == call[c].id IN
  /\ At(c, "resolveSucceeded")
  /\ IF IsQuarantined(r) THEN SetTerminal(r, "succeeded") ELSE UNCHANGED operations
  /\ IF IsQuarantined(r) \/ Status(r) = "succeeded" THEN Goto({c}, "settle")
                                                    ELSE Return({c})
  /\ UNCHANGED <<paymentStatus, auditTrail, provider, requests, ledger, refunded,
                 lock, events>>

\* reconcileRefund throws whether or not the row could be resolved.
ResolveFailed(c) ==
  LET r == call[c].id IN
  /\ At(c, "resolveFailed")
  /\ IF IsQuarantined(r) THEN SetTerminal(r, "failed") ELSE UNCHANGED operations
  /\ Return({c})
  /\ UNCHANGED <<paymentStatus, auditTrail, provider, requests, ledger, refunded,
                 lock, events>>

-----------------------------------------------------------------------------
(* PaymentLifecycle.refund, on an intent whose status was `paid' when read. *)

SettlePartial(c) ==
  /\ At(c, "settle")
  /\ ~IsFull(call[c].id)
  /\ Goto(Group(c), "ledger")
  /\ UNCHANGED <<operations, paymentStatus, auditTrail, provider, requests, ledger,
                 refunded, lock, events>>

\* Mutant: the expected status is missing from the update.
StatusUpdateAlwaysWins(p) == TRUE

\* A store without updateIfStatus writes unconditionally.
StatusUpdateWins(p) == ~HasUpdateIfStatus \/ paymentStatus[p] = "paid"

\* A lost compare-and-set finds the intent refunded already and returns it.
SettleFull(c) ==
  LET p == call[c].id.pay IN
  /\ At(c, "settle")
  /\ IsFull(call[c].id)
  /\ IF StatusUpdateWins(p)
     THEN /\ paymentStatus' = [paymentStatus EXCEPT ![p] = "refunded"]
          /\ Goto({c}, "audit")
     ELSE /\ Goto(Group(c), "ledger")
          /\ UNCHANGED paymentStatus
  /\ UNCHANGED <<operations, auditTrail, provider, requests, ledger, refunded, lock,
                 events>>

AppendStateEvent(c) ==
  /\ At(c, "audit")
  /\ auditTrail' = [auditTrail EXCEPT ![call[c].id.pay] = @ + 1]
  /\ Goto(Group(c), "ledger")
  /\ UNCHANGED <<operations, paymentStatus, provider, requests, ledger, refunded,
                 lock, events>>

-----------------------------------------------------------------------------
(* IzakhonoPaymentLedger.recordRefund, under withRefundLock. *)

\* Mutant: recordRefund runs outside withRefundLock.
EnterLedgerUnlocked(c) ==
  /\ At(c, "ledger")
  /\ lock' = lock
  /\ Goto({c}, "check")
  /\ UNCHANGED <<operations, paymentStatus, auditTrail, provider, requests, ledger,
                 refunded, events>>

EnterLedger(c) ==
  /\ At(c, "ledger")
  /\ lock = None
  /\ lock' = c
  /\ Goto({c}, "check")
  /\ UNCHANGED <<operations, paymentStatus, auditTrail, provider, requests, ledger,
                 refunded, events>>

\* The sum of the journal's refunds leaves room for this one.
Fits(r) == refunded[r.pay] + r.amt <= PaymentAmount[r.pay]

\* hasTransaction and getRefundedAmount; an entry already there is returned.
CheckLedger(c) ==
  LET r == call[c].id IN
  /\ At(c, "check")
  /\ \/ /\ r \in ledger
        /\ lock' = None
        /\ Goto({c}, "event")
     \/ /\ r \notin ledger /\ ~Fits(r)
        /\ lock' = None
        /\ Return({c})
     \/ /\ r \notin ledger /\ Fits(r)
        /\ lock' = lock
        /\ Goto({c}, "append")
  /\ UNCHANGED <<operations, paymentStatus, auditTrail, provider, requests, ledger,
                 refunded, events>>

AppendTransaction(c) ==
  LET r == call[c].id IN
  /\ At(c, "append")
  /\ ledger' = ledger \union {r}
  /\ refunded' = [refunded EXCEPT ![r.pay] = @ + r.amt]
  /\ lock' = None
  /\ Goto({c}, "event")
  /\ UNCHANGED <<operations, paymentStatus, auditTrail, provider, requests, events>>

RecordRefunded(c) ==
  /\ At(c, "event")
  /\ events' = events \union {[kind |-> "payment.refunded", id |-> call[c].id]}
  /\ Return({c})
  /\ UNCHANGED <<operations, paymentStatus, auditTrail, provider, requests, ledger,
                 refunded, lock>>

-----------------------------------------------------------------------------
(* Failures. *)

\* Awaits of a store or, for lookup, of the provider: the promise may reject, and
\* the call ends there.  The statement may have taken effect all the same, and the
\* call then ends where it would have gone on: at "send" after its INSERT.
CanThrow == {"requested", "reserve", "reread", "send", "mark", "quarantine", "lookup",
             "resolveSucceeded", "resolveFailed", "settle", "audit", "ledger",
             "check", "append", "event"}

\* The lock is released in a finally block.
Throw(c) ==
  /\ call[c].pc \in CanThrow
  /\ Return(Group(c))
  /\ lock' = IF lock = c THEN None ELSE lock
  /\ UNCHANGED <<operations, paymentStatus, auditTrail, provider, requests, ledger,
                 refunded, events>>

\* The process dies: its calls, the inFlight map and the lock with it.
Crash ==
  /\ \E c \in Callers : ~At(c, "idle")
  /\ call' = [c \in Callers |-> Idle]
  /\ lock' = None
  /\ UNCHANGED <<operations, paymentStatus, auditTrail, provider, requests, ledger,
                 refunded, events>>

-----------------------------------------------------------------------------
\* The steps a call takes by itself once it has begun.
Step(c) ==
  \/ RecordRequested(c)
  \/ ReserveInsert(c) \/ ReserveConflict(c) \/ ReserveReread(c)
  \/ SendRequest(c) \/ ProviderConfirms(c) \/ RequestFails(c)
  \/ MarkReconciliationRequired(c) \/ MarkSucceeded(c)
  \/ Lookup(c) \/ ResolveSucceeded(c) \/ ResolveFailed(c)
  \/ SettlePartial(c) \/ SettleFull(c) \/ AppendStateEvent(c)
  \/ EnterLedger(c) \/ CheckLedger(c) \/ AppendTransaction(c)
  \/ RecordRefunded(c)

Next ==
  \/ \E c \in Callers, kind \in Kinds, r \in RefundIds : Start(c, kind, r)
  \/ \E c \in Callers : Step(c) \/ Throw(c)
  \/ \E r \in RefundIds : ProviderDecides(r)
  \/ Crash

Spec == Init /\ [][Next]_vars

-----------------------------------------------------------------------------
(* Properties. *)

CallTypeOK ==
  /\ call \in [Callers -> [kind : Kinds, pc : Pcs, id : RefundIds \union {None}]]
  /\ \A c \in Callers : call[c].id = None <=> At(c, "idle")

\* Shapes of the state; a call holds a refund exactly while it runs.
TypeOK ==
  /\ operations \in [RefundIds -> Row]
  /\ CallTypeOK
  /\ paymentStatus \in [Payments -> {"paid", "refunded"}]
  /\ auditTrail \in [Payments -> Nat]
  /\ provider \in [RefundIds -> {"none", "inTransit", "executed", "rejected"}]
  /\ requests \in [RefundIds -> Nat]
  /\ ledger \subseteq RefundIds
  /\ refunded \in [Payments -> Nat]
  /\ lock \in Callers \union {None}
  /\ events \subseteq Fingerprints

\* Two calls are never both between their reservation and its confirmation for
\* one payment, whatever amounts they refund and wherever others crashed: the
\* provider is asked for one refund of a payment at a time.
SingleFlight ==
  \A c, d \in Callers :
    /\ call[c].pc \in Owning
    /\ call[d].pc \in Owning
    /\ call[c].id.pay = call[d].id.pay
    => c = d

\* The provider is asked once for a refund ID over the whole history: no retry,
\* crash, lost answer or reconciliation makes the fabric ask again.
AtMostOneRequest == \A r \in RefundIds : requests[r] <= 1

\* A terminal operation tells the truth about the provider: `succeeded' only if
\* the refund was executed, `failed' only if it was not and never will be.
OutcomeIsTrue ==
  \A r \in RefundIds :
    /\ Status(r) = "succeeded" => provider[r] = "executed"
    /\ Status(r) = "failed" => provider[r] = "rejected"

\* A journal entry, a refunded intent and a payment.refunded event all stem from
\* a refund that the table holds as succeeded, across every path that writes them.
RecordsAreConfirmed ==
  /\ \A r \in ledger : Status(r) = "succeeded"
  /\ \A e \in events : e.kind = "payment.refunded" => e.id \in ledger
  /\ \A p \in Payments : paymentStatus[p] = "refunded" =>
       \E r \in RefundIds : r.pay = p /\ IsFull(r) /\ Status(r) = "succeeded"

\* The journal never gives back more than the payment, although the sum is read
\* in one await and the entry appended in another.
LedgerWithinPayment == \A p \in Payments : refunded[p] <= PaymentAmount[p]

\* With the compare-and-set store the audit trail shows one transition to
\* `refunded' however many calls, retries and reconciliations settle the payment.
OneRefundedEvent == \A p \in Payments : auditTrail[p] <= 1

\* While an outcome of a payment is in quarantine nothing is sent to the
\* provider for that payment, and the quarantine ends only in a terminal status.
QuarantineStep ==
  \A r \in RefundIds : IsQuarantined(r) =>
    /\ \A s \in RefundIds : s.pay = r.pay => requests'[s] = requests[s]
    /\ IsQuarantined(r)' \/ Status(r)' \in {"succeeded", "failed"}

QuarantineHolds == [][QuarantineStep]_vars

\* Every call returns or throws: joining another call, a conflict or the ledger
\* lock never leaves it waiting for ever.
CallsReturn == \A c \in Callers : []<>At(c, "idle")

\* What the table of operations says of a refund, in the contract's words.
Books(r) ==
  CASE Status(r) = "absent" -> "open"
    [] Status(r) = "processing" -> "undecided"
    [] Status(r) = "succeeded" -> "paidOut"
    [] OTHER -> "void"

\* What the fabric implements of the contract: the table, the provider and the
\* journal, with quarantine and callers hidden.
Contract == INSTANCE RefundContract WITH
  outcome <- [r \in RefundIds |-> Books(r)],
  money <- provider,
  journal <- ledger

\* The fabric implements the contract: at most one request, true and final
\* outcomes, one undecided refund per payment, a journal of confirmed refunds.
ImplementsContract == Contract!ContractSpec

-----------------------------------------------------------------------------
(* The inductive strengthening of the safety properties. *)

OneActive ==
  \A r, s \in RefundIds : r.pay = s.pay /\ IsProcessing(r) /\ IsProcessing(s) => r = s

\* A row that a refund call is working on is its own, and not in quarantine.
OwnersHoldRows ==
  /\ \A c \in Callers : call[c].pc \in Owning =>
       /\ call[c].kind = "refund"
       /\ IsProcessing(call[c].id)
       /\ ~IsQuarantined(call[c].id)
  /\ \A c, d \in Callers :
       call[c].pc \in Owning /\ call[d].pc \in Owning /\ call[c].id = call[d].id => c = d

\* The provider has been asked, once, exactly for the rows past their reservation.
RequestsFollowRows ==
  \A r \in RefundIds :
    /\ requests[r] = IF provider[r] = "none" THEN 0 ELSE 1
    /\ Status(r) = "absent" => provider[r] = "none"
    /\ operations[r].reconciliationRequired => IsProcessing(r) /\ provider[r] # "none"

\* What a call has learned about its refund is still so.
CallsKnow ==
  \A c \in Callers :
    /\ At(c, "send") => provider[call[c].id] = "none"
    /\ call[c].pc \in {"await", "quarantine", "lookup"} => provider[call[c].id] # "none"
    /\ call[c].pc \in {"mark", "resolveSucceeded"} => provider[call[c].id] = "executed"
    /\ At(c, "resolveFailed") => provider[call[c].id] = "rejected"
    /\ call[c].pc \in Recording => Status(call[c].id) = "succeeded"
    /\ At(c, "event") => call[c].id \in ledger

\* The lock is held by the one call inside the ledger, and a call about to append
\* has made room for its entry.
LedgerIsLocked ==
  /\ \A c \in Callers : call[c].pc \in InLedger <=> lock = c
  /\ \A c \in Callers : At(c, "append") => Fits(call[c].id)

IInv ==
  /\ OneActive
  /\ OwnersHoldRows
  /\ RequestsFollowRows
  /\ OutcomeIsTrue
  /\ CallsKnow
  /\ RecordsAreConfirmed
  /\ LedgerIsLocked
  /\ LedgerWithinPayment

\* The strengthening of OneRefundedEvent, for a store with the compare-and-set: the
\* one call that moved the intent out of `paid' is the only one that may append the
\* state event, and it has not done so yet.
OneTransition ==
  /\ OneRefundedEvent
  /\ \A p \in Payments : paymentStatus[p] = "paid" => auditTrail[p] = 0
  /\ \A c \in Callers : At(c, "audit") =>
       paymentStatus[call[c].id.pay] # "paid" /\ auditTrail[call[c].id.pay] = 0
  /\ \A c, d \in Callers :
       At(c, "audit") /\ At(d, "audit") /\ call[c].id.pay = call[d].id.pay => c = d
=============================================================================
