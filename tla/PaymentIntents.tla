--------------------------- MODULE PaymentIntents ---------------------------
(***************************************************************************)
(* The rows of iz_payment_intents and everything that writes their status: *)
(* IzakhonoPay.createPayment, PaymentWebhookGuard.process, and cancel and  *)
(* refund of PaymentLifecycle, in concurrent workers over shared stores.   *)
(*                                                                         *)
(* One action is the code between two awaits.  A worker keeps the order it *)
(* handles, the outcome of the webhook it was given, and the status of the *)
(* intent it was given.  Webhooks are those that pass verifyWebhook; the   *)
(* provider delivers them at least once, in any order, and may report      *)
(* several outcomes for one order.                                         *)
(***************************************************************************)
EXTENDS Sequences, Naturals

CONSTANTS Workers,
          Orders,             \* external transaction IDs
          Outcomes,           \* status, response code and provider payment ID reported
          Successes,          \* the outcomes that mean the customer paid
          UseClaims,          \* the guard has a durable claim store
          HasUpdateIfStatus,  \* the payment store has the compare-and-set update
          None

ASSUME SuccessesAssumption == Successes \subseteq Outcomes

ASSUME FlagsAssumption == UseClaims \in BOOLEAN /\ HasUpdateIfStatus \in BOOLEAN

ASSUME NoneAssumption == None \notin Outcomes /\ None \notin Orders

VARIABLES
  status,     \* status of each order's intent, "absent" before it is saved
  links,      \* number of createPaymentLink calls made for each order
  delivered,  \* orders whose payment link was returned to the caller
  claimed,    \* the outcome whose handler claimed the order, or None
  outcomes,   \* outcome fingerprints in the event store
  applied,    \* outcomes the guard wrote to each order, in order
  answers,    \* what webhook deliveries were answered
  trail,      \* state events appended for each order
  worker      \* what each worker is doing

intentVars == <<status, links, delivered, claimed, outcomes, applied, answers, trail, worker>>

Statuses == {"absent", "created", "pending", "paid", "failed", "cancelled", "refunded"}

Pcs == {"idle", "find", "save", "link", "pending", "deliver", "markFailed",
        "claim", "compare", "outcome", "apply", "reply", "transition", "append"}

\* A worker's job: `msg' is the outcome it was given, `from' the status it read,
\* `to' the status a lifecycle call asks for.
Job == [pc : Pcs, order : Orders \union {None}, msg : Outcomes \union {None},
        from : Statuses, to : Statuses]

Idle == [pc |-> "idle", order |-> None, msg |-> None, from |-> "absent", to |-> "absent"]

Answers == [order : Orders, msg : Outcomes, verdict : {"accepted", "contradictory"}]

At(w, pc) == worker[w].pc = pc

Goto(w, pc) == worker' = [worker EXCEPT ![w].pc = pc]

Begin(w, job) == At(w, "idle") /\ worker' = [worker EXCEPT ![w] = job]

\* Mutant: a worker that has returned still holds its order.
ReturnKeepingOrder(w) == Goto(w, "idle")

Return(w) == worker' = [worker EXCEPT ![w] = Idle]

SetStatus(o, s) == status' = [status EXCEPT ![o] = s]

Init ==
  /\ status = [o \in Orders |-> "absent"]
  /\ links = [o \in Orders |-> 0]
  /\ delivered = {}
  /\ claimed = [o \in Orders |-> None]
  /\ outcomes = [o \in Orders |-> {}]
  /\ applied = [o \in Orders |-> <<>>]
  /\ answers = {}
  /\ trail = [o \in Orders |-> {}]
  /\ worker = [w \in Workers |-> Idle]

-----------------------------------------------------------------------------
(* IzakhonoPay.createPayment. *)

StartCreate(w, o) ==
  /\ Begin(w, [Idle EXCEPT !.pc = "find", !.order = o])
  /\ UNCHANGED <<status, links, delivered, claimed, outcomes, applied, answers, trail>>

FindExisting(w) ==
  /\ At(w, "find")
  /\ IF status[worker[w].order] = "absent" THEN Goto(w, "save") ELSE Return(w)
  /\ UNCHANGED <<status, links, delivered, claimed, outcomes, applied, answers, trail>>

\* Mutant: external_transaction_id is not unique.
SaveIntentTwice(w) ==
  /\ At(w, "save")
  /\ SetStatus(worker[w].order, "created")
  /\ Goto(w, "link")
  /\ UNCHANGED <<links, delivered, claimed, outcomes, applied, answers, trail>>

\* external_transaction_id is unique: the second of two racing INSERTs throws.
SaveIntent(w) ==
  /\ At(w, "save")
  /\ IF status[worker[w].order] = "absent"
     THEN SetStatus(worker[w].order, "created") /\ Goto(w, "link")
     ELSE UNCHANGED status /\ Return(w)
  /\ UNCHANGED <<links, delivered, claimed, outcomes, applied, answers, trail>>

RequestLink(w) ==
  /\ At(w, "link")
  /\ links' = [links EXCEPT ![worker[w].order] = @ + 1]
  /\ \E pc \in {"pending", "markFailed"} : Goto(w, pc)
  /\ UNCHANGED <<status, delivered, claimed, outcomes, applied, answers, trail>>

MarkPending(w) ==
  /\ At(w, "pending")
  /\ SetStatus(worker[w].order, "pending")
  /\ Goto(w, "deliver")
  /\ UNCHANGED <<links, delivered, claimed, outcomes, applied, answers, trail>>

\* The update throws, whether or not it took effect, into the catch block.
PendingFails(w) ==
  /\ worker[w].pc \in {"pending", "deliver"}
  /\ Goto(w, "markFailed")
  /\ UNCHANGED <<status, links, delivered, claimed, outcomes, applied, answers, trail>>

Deliver(w) ==
  /\ At(w, "deliver")
  /\ delivered' = delivered \union {worker[w].order}
  /\ Return(w)
  /\ UNCHANGED <<status, links, claimed, outcomes, applied, answers, trail>>

MarkFailed(w) ==
  /\ At(w, "markFailed")
  /\ SetStatus(worker[w].order, "failed")
  /\ Return(w)
  /\ UNCHANGED <<links, delivered, claimed, outcomes, applied, answers, trail>>

-----------------------------------------------------------------------------
(* PaymentWebhookGuard.process. *)

\* A customer can only act on a link that createPayment returned.
StartWebhook(w, o, m) ==
  /\ o \in delivered
  /\ Begin(w, [Idle EXCEPT !.pc = "claim", !.order = o, !.msg = m])
  /\ UNCHANGED <<status, links, delivered, claimed, outcomes, applied, answers, trail>>

\* Mutant: the claim is not serialized by a primary key.
ClaimAlways(w) ==
  LET o == worker[w].order IN
  /\ At(w, "claim")
  /\ claimed' = [claimed EXCEPT ![o] = worker[w].msg]
  /\ Goto(w, IF UseClaims THEN "apply" ELSE "outcome")
  /\ UNCHANGED <<status, links, delivered, outcomes, applied, answers, trail>>

\* The INSERT into the claim store or, without one, of the webhook.received
\* event, unique per provider and order.  The event does not hold the outcome:
\* there `claimed' only remembers whose it was.
Claim(w) ==
  LET o == worker[w].order IN
  /\ At(w, "claim")
  /\ IF claimed[o] = None
     THEN /\ claimed' = [claimed EXCEPT ![o] = worker[w].msg]
          /\ Goto(w, IF UseClaims THEN "apply" ELSE "outcome")
     ELSE /\ UNCHANGED claimed
          /\ Goto(w, "compare")
  /\ UNCHANGED <<status, links, delivered, outcomes, applied, answers, trail>>

RecordOutcome(w) ==
  LET o == worker[w].order IN
  /\ At(w, "outcome")
  /\ outcomes' = [outcomes EXCEPT ![o] = @ \union {worker[w].msg}]
  /\ Goto(w, "apply")
  /\ UNCHANGED <<status, links, delivered, claimed, applied, answers, trail>>

\* Mutant: the duplicate is looked for in the event store although claims are used.
KnownInEvents(o, m) == m \in outcomes[o]

\* The SELECT that tells a duplicate from a contradiction.
KnownOutcome(o, m) == IF UseClaims THEN claimed[o] = m ELSE m \in outcomes[o]

\* Mutant: a contradictory outcome is applied instead of rejected.
CompareLeniently(w) ==
  /\ At(w, "compare")
  /\ Goto(w, IF KnownOutcome(worker[w].order, worker[w].msg) THEN "reply" ELSE "apply")
  /\ UNCHANGED <<status, links, delivered, claimed, outcomes, applied, answers, trail>>

Compare(w) ==
  LET job == worker[w] IN
  /\ At(w, "compare")
  /\ IF KnownOutcome(job.order, job.msg)
     THEN Goto(w, "reply") /\ UNCHANGED answers
     ELSE /\ answers' = answers \union
               {[order |-> job.order, msg |-> job.msg, verdict |-> "contradictory"]}
          /\ Return(w)
  /\ UNCHANGED <<status, links, delivered, claimed, outcomes, applied, trail>>

\* The update is unconditional, whatever happened to the intent meanwhile.
ApplyOutcome(w) ==
  LET job == worker[w] IN
  /\ At(w, "apply")
  /\ SetStatus(job.order, IF job.msg \in Successes THEN "paid" ELSE "failed")
  /\ applied' = [applied EXCEPT ![job.order] = Append(@, job.msg)]
  /\ Goto(w, "reply")
  /\ UNCHANGED <<links, delivered, claimed, outcomes, answers, trail>>

\* process returns, and the provider stops delivering this webhook.
Reply(w) ==
  LET job == worker[w] IN
  /\ At(w, "reply")
  /\ answers' = answers \union
       {[order |-> job.order, msg |-> job.msg, verdict |-> "accepted"]}
  /\ Return(w)
  /\ UNCHANGED <<status, links, delivered, claimed, outcomes, applied, trail>>

-----------------------------------------------------------------------------
(* PaymentLifecycle.cancel and .refund, called with an intent read earlier.  *)

Cancellable == {"created", "pending", "failed"}

StartLifecycle(w, o) ==
  /\ \E to \in {"cancelled", "refunded"} :
       /\ IF to = "cancelled" THEN status[o] \in Cancellable ELSE status[o] = "paid"
       /\ Begin(w, [Idle EXCEPT !.pc = "transition", !.order = o,
                                !.from = status[o], !.to = to])
  /\ UNCHANGED <<status, links, delivered, claimed, outcomes, applied, answers, trail>>

\* Mutant: the expected status is missing from the update.
UpdateAlwaysWins(w) == TRUE

\* A store without updateIfStatus writes unconditionally.
UpdateWins(w) == HasUpdateIfStatus => status[worker[w].order] = worker[w].from

\* Having lost, transition returns the current intent or throws, and writes nothing.
Transition(w) ==
  /\ At(w, "transition")
  /\ IF UpdateWins(w)
     THEN SetStatus(worker[w].order, worker[w].to) /\ Goto(w, "append")
     ELSE UNCHANGED status /\ Return(w)
  /\ UNCHANGED <<links, delivered, claimed, outcomes, applied, answers, trail>>

AppendEvent(w) ==
  LET job == worker[w] IN
  /\ At(w, "append")
  /\ trail' = [trail EXCEPT ![job.order] = @ \union {<<job.from, job.to>>}]
  /\ Return(w)
  /\ UNCHANGED <<status, links, delivered, claimed, outcomes, applied, answers>>

-----------------------------------------------------------------------------
\* A store rejects a call, its answer is lost, or the worker dies.
Throw(w) ==
  /\ ~At(w, "idle")
  /\ Return(w)
  /\ UNCHANGED <<status, links, delivered, claimed, outcomes, applied, answers, trail>>

Create(w) ==
  \/ FindExisting(w) \/ SaveIntent(w) \/ RequestLink(w) \/ MarkPending(w)
  \/ PendingFails(w) \/ Deliver(w) \/ MarkFailed(w)

Guard(w) ==
  Claim(w) \/ RecordOutcome(w) \/ Compare(w) \/ ApplyOutcome(w) \/ Reply(w)

Next ==
  \E w \in Workers :
    \/ \E o \in Orders : StartCreate(w, o) \/ StartLifecycle(w, o)
    \/ \E o \in Orders, m \in Outcomes : StartWebhook(w, o, m)
    \/ Create(w) \/ Guard(w) \/ Transition(w) \/ AppendEvent(w) \/ Throw(w)

Spec == Init /\ [][Next]_intentVars

-----------------------------------------------------------------------------
(* Properties. *)

\* Shapes of the state; a worker holds an order exactly while it runs.
TypeOK ==
  /\ status \in [Orders -> Statuses]
  /\ links \in [Orders -> Nat]
  /\ delivered \subseteq Orders
  /\ claimed \in [Orders -> Outcomes \union {None}]
  /\ outcomes \in [Orders -> SUBSET Outcomes]
  /\ applied \in [Orders -> Seq(Outcomes)]
  /\ answers \subseteq Answers
  /\ trail \in [Orders -> SUBSET (Statuses \X Statuses)]
  /\ worker \in [Workers -> Job]
  /\ \A w \in Workers : worker[w].order = None <=> At(w, "idle")

\* However many calls of createPayment race for one external transaction ID, the
\* provider is asked for one link: the check that precedes the INSERT is not what
\* prevents the second.
OneLink == \A o \in Orders : links[o] <= 1

\* An order is paid, or refunded, only by the outcome that claimed it, and that
\* outcome means the customer paid; contradictory deliveries cannot pay it.
PaidIsClaimed ==
  \A o \in Orders :
    status[o] \in {"paid", "refunded"} => claimed[o] \in Successes

\* A delivery is rejected as contradictory only if another outcome claimed the
\* order, never because it raced or repeated its own.
RejectedIsContradictory ==
  \A a \in answers : a.verdict = "contradictory" => a.msg # claimed[a.order]

\* The guard's answer to a successful payment means that the payment is on record,
\* or that a handler which claimed it is still at work.
AcknowledgedIsPaid ==
  \A a \in answers :
    a.verdict = "accepted" /\ a.msg \in Successes =>
      \/ status[a.order] \in {"paid", "refunded"}
      \/ \E w \in Workers : worker[w].order = a.order /\ worker[w].pc \in {"outcome", "apply"}

\* Nothing takes a payment back but a refund, and nothing changes a refunded one:
\* not a stale cancel, a late webhook or a createPayment still running.
PaidStep ==
  \A o \in Orders :
    /\ status[o] = "paid" => status'[o] \in {"paid", "refunded"}
    /\ status[o] = "refunded" => status'[o] = "refunded"

PaidIsFinal == [][PaidStep]_intentVars

\* The outcome an order settled on, as a later delivery can find it.
Decided(o) ==
  IF UseClaims THEN claimed[o]
  ELSE IF \E m \in Outcomes : outcomes[o] = {m}
       THEN CHOOSE m \in Outcomes : outcomes[o] = {m}
       ELSE None

Register == INSTANCE OutcomeRegister WITH decided <- [o \in Orders |-> Decided(o)]

\* The guard implements the register on either store: one outcome of each order is
\* decided, and it alone is applied, once.
ImplementsRegister == Register!RegisterSpec
=============================================================================
