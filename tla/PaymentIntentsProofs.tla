------------------------- MODULE PaymentIntentsProofs -------------------------
(***************************************************************************)
(* Proofs about PaymentIntents, for any number of workers, orders and      *)
(* outcomes, on either claim store and either payment store.               *)
(***************************************************************************)
EXTENDS PaymentIntents, TLAPS

JobsOK ==
  /\ worker \in [Workers -> Job]
  /\ \A w \in Workers : worker[w].order = None <=> At(w, "idle")

\* An idle worker has a job of the right shape and no order.
LEMMA IdleJob ==
  /\ Idle \in Job
  /\ Idle.pc = "idle" /\ Idle.order = None
BY DEF Idle, Job, Pcs, Statuses

\* A running worker has an order.
LEMMA RunningOrder ==
  ASSUME JobsOK, NEW w \in Workers, ~At(w, "idle")
  PROVE  worker[w].order \in Orders
BY DEF JobsOK, Job

\* Goto moves one worker, and only its phase.
LEMMA GotoMoves ==
  ASSUME JobsOK, NEW w \in Workers, NEW pc \in Pcs \ {"idle"}, ~At(w, "idle"), Goto(w, pc)
  PROVE  /\ JobsOK'
         /\ worker'[w] = [worker[w] EXCEPT !.pc = pc]
         /\ worker'[w].pc = pc
         /\ worker'[w].order = worker[w].order
         /\ worker'[w].msg = worker[w].msg
         /\ worker'[w].from = worker[w].from
         /\ worker'[w].to = worker[w].to
         /\ \A v \in Workers \ {w} : worker'[v] = worker[v]
<1>1. worker'[w] = [worker[w] EXCEPT !.pc = pc] /\ worker[w] \in Job
  BY DEF JobsOK, Goto
<1>2. /\ worker'[w] \in Job
      /\ worker'[w].pc = pc
      /\ worker'[w].order = worker[w].order
      /\ worker'[w].msg = worker[w].msg
      /\ worker'[w].from = worker[w].from
      /\ worker'[w].to = worker[w].to
  BY <1>1 DEF Job
<1>3. worker' \in [Workers -> Job] /\ \A v \in Workers \ {w} : worker'[v] = worker[v]
  BY <1>2 DEF JobsOK, Goto
<1> QED
  BY <1>1, <1>2, <1>3 DEF JobsOK, At

\* Return ends the call of one worker.
LEMMA ReturnMoves ==
  ASSUME JobsOK, NEW w \in Workers, Return(w)
  PROVE  /\ JobsOK'
         /\ worker'[w].pc = "idle"
         /\ \A v \in Workers \ {w} : worker'[v] = worker[v]
BY IdleJob DEF JobsOK, Return, At

\* Begin gives one idle worker a job.
LEMMA BeginMoves ==
  ASSUME JobsOK, NEW w \in Workers, NEW job \in Job, job.pc # "idle", job.order \in Orders,
         Begin(w, job)
  PROVE  /\ JobsOK'
         /\ worker[w].pc = "idle"
         /\ worker'[w] = job
         /\ \A v \in Workers \ {w} : worker'[v] = worker[v]
BY NoneAssumption DEF JobsOK, Begin, At

-----------------------------------------------------------------------------
TablesOK ==
  /\ status \in [Orders -> Statuses]
  /\ links \in [Orders -> Nat]
  /\ delivered \subseteq Orders
  /\ claimed \in [Orders -> Outcomes \union {None}]
  /\ outcomes \in [Orders -> SUBSET Outcomes]
  /\ applied \in [Orders -> Seq(Outcomes)]
  /\ answers \subseteq Answers
  /\ trail \in [Orders -> SUBSET (Statuses \X Statuses)]

\* The phases of a webhook delivery, which has an outcome.
Delivery == {"claim", "compare", "outcome", "apply", "reply"}

HasOutcome == \A w \in Workers : worker[w].pc \in Delivery => worker[w].msg \in Outcomes

Types == TablesOK /\ JobsOK /\ HasOutcome

\* Types is TypeOK with the jobs spelled out.
LEMMA TypesSplit == Types => TypeOK
BY DEF Types, TablesOK, JobsOK, TypeOK

\* No intents, no claims and idle workers.
LEMMA TypesInit == Init => Types
BY IdleJob, NoneAssumption
   DEF Init, Types, TablesOK, JobsOK, HasOutcome, Statuses, Answers, At, Delivery

\* The jobs a worker begins.
LEMMA Jobs ==
  ASSUME NEW o \in Orders
  PROVE  /\ [Idle EXCEPT !.pc = "find", !.order = o] \in Job
         /\ \A m \in Outcomes : [Idle EXCEPT !.pc = "claim", !.order = o, !.msg = m] \in Job
         /\ \A f, t \in Statuses :
              [Idle EXCEPT !.pc = "transition", !.order = o, !.from = f, !.to = t] \in Job
BY DEF Idle, Job, Pcs, Statuses

\* Every step keeps the types: one case per action.
LEMMA TypesStep == Types /\ [Next]_intentVars => Types'
<1> SUFFICES ASSUME Types, [Next]_intentVars PROVE Types'
  OBVIOUS
<1>0. TablesOK /\ JobsOK /\ HasOutcome
  BY DEF Types
<1>1. ASSUME NEW w \in Workers, NEW o \in Orders, StartCreate(w, o)
      PROVE  Types'
  <2>1. /\ JobsOK' /\ worker'[w].pc = "find"
        /\ \A v \in Workers \ {w} : worker'[v] = worker[v]
    BY <1>0, <1>1, Jobs, BeginMoves DEF StartCreate, Idle
  <2> QED
    BY <1>0, <1>1, <2>1 DEF StartCreate, Types, TablesOK, HasOutcome, Delivery
<1>2. ASSUME NEW w \in Workers, NEW o \in Orders, NEW m \in Outcomes, StartWebhook(w, o, m)
      PROVE  Types'
  <2> DEFINE job == [Idle EXCEPT !.pc = "claim", !.order = o, !.msg = m]
  <2>0. job \in Job /\ job.pc = "claim" /\ job.order = o /\ job.msg = m
    BY Jobs DEF Idle
  <2>a. Begin(w, job)
    BY <1>2 DEF StartWebhook
  <2>1. /\ JobsOK' /\ worker'[w].msg = m
        /\ \A v \in Workers \ {w} : worker'[v] = worker[v]
    <3> HIDE DEF job
    <3> QED
      BY <1>0, <2>0, <2>a, BeginMoves
  <2> QED
    BY <1>0, <1>2, <2>1 DEF StartWebhook, Types, TablesOK, HasOutcome, Delivery
<1>3. ASSUME NEW w \in Workers, NEW o \in Orders, StartLifecycle(w, o)
      PROVE  Types'
  <2>1. PICK to \in {"cancelled", "refunded"} :
          Begin(w, [Idle EXCEPT !.pc = "transition", !.order = o, !.from = status[o], !.to = to])
    BY <1>3 DEF StartLifecycle
  <2>2. status[o] \in Statuses /\ to \in Statuses
    BY <1>0 DEF TablesOK, Statuses
  <2>3. /\ JobsOK' /\ worker'[w].pc = "transition"
        /\ \A v \in Workers \ {w} : worker'[v] = worker[v]
    BY <1>0, <2>1, <2>2, Jobs, BeginMoves DEF Idle
  <2> QED
    BY <1>0, <1>3, <2>3 DEF StartLifecycle, Types, TablesOK, HasOutcome, Delivery
<1>4. ASSUME NEW w \in Workers,
             Create(w) \/ Guard(w) \/ Transition(w) \/ AppendEvent(w) \/ Throw(w)
      PROVE  Types'
  <2>1. worker[w].order \in Orders /\ worker[w].to \in Statuses /\ worker[w].from \in Statuses
    BY <1>0, <1>4, RunningOrder
       DEF Create, FindExisting, SaveIntent, RequestLink, MarkPending, PendingFails, Deliver,
           MarkFailed, Guard, Claim, RecordOutcome, Compare, ApplyOutcome, Reply, Transition,
           AppendEvent, Throw, At, JobsOK, Job
  <2>2. \/ Return(w)
        \/ \E pc \in Pcs \ {"idle"} :
             /\ ~At(w, "idle") /\ Goto(w, pc)
             /\ pc \in Delivery => worker[w].pc \in Delivery
    BY <1>4
       DEF Create, FindExisting, SaveIntent, RequestLink, MarkPending, PendingFails, Deliver,
           MarkFailed, Guard, Claim, RecordOutcome, Compare, ApplyOutcome, Reply, Transition,
           AppendEvent, Throw, At, Pcs, Delivery
  <2>3. JobsOK' /\ HasOutcome'
    <3>1. CASE Return(w)
      BY <1>0, <3>1, ReturnMoves DEF HasOutcome, Delivery
    <3>2. CASE \E pc \in Pcs \ {"idle"} :
             /\ ~At(w, "idle") /\ Goto(w, pc)
             /\ pc \in Delivery => worker[w].pc \in Delivery
      <4>1. PICK pc \in Pcs \ {"idle"} :
              /\ ~At(w, "idle") /\ Goto(w, pc)
              /\ pc \in Delivery => worker[w].pc \in Delivery
        BY <3>2
      <4>2. /\ JobsOK' /\ worker'[w].pc = pc /\ worker'[w].msg = worker[w].msg
            /\ \A v \in Workers \ {w} : worker'[v] = worker[v]
        BY <1>0, <4>1, GotoMoves
      <4> QED
        BY <1>0, <4>1, <4>2 DEF HasOutcome
    <3> QED
      BY <2>2, <3>1, <3>2
  <2>4. ASSUME NEW s \in Statuses, SetStatus(worker[w].order, s)
        PROVE  status' \in [Orders -> Statuses]
    BY <1>0, <2>1, <2>4 DEF SetStatus, TablesOK
  <2>5. TablesOK'
    <3>1. CASE Create(w)
      BY <1>0, <2>1, <2>4, <3>1
         DEF Create, FindExisting, SaveIntent, RequestLink, MarkPending, PendingFails, Deliver,
             MarkFailed, TablesOK, Statuses
    <3>2. CASE Claim(w)
      BY <1>0, <2>1, <3>2 DEF Claim, TablesOK, HasOutcome, Delivery, At
    <3>3. CASE RecordOutcome(w)
      BY <1>0, <2>1, <3>3 DEF RecordOutcome, TablesOK, HasOutcome, Delivery, At
    <3>4. CASE Compare(w) \/ Reply(w)
      BY <1>0, <2>1, <3>4 DEF Compare, Reply, TablesOK, HasOutcome, Delivery, At, Answers
    <3>5. CASE ApplyOutcome(w)
      <4>1. applied' \in [Orders -> Seq(Outcomes)]
        BY <1>0, <2>1, <3>5 DEF ApplyOutcome, TablesOK, HasOutcome, Delivery, At
      <4>2. status' \in [Orders -> Statuses]
        BY <2>4, <3>5 DEF ApplyOutcome, Statuses
      <4> QED
        BY <1>0, <3>5, <4>1, <4>2 DEF ApplyOutcome, TablesOK
    <3>6. CASE Transition(w) \/ Throw(w)
      BY <1>0, <2>1, <2>4, <3>6 DEF Transition, Throw, TablesOK
    <3>7. CASE AppendEvent(w)
      BY <1>0, <2>1, <3>7 DEF AppendEvent, TablesOK
    <3> QED
      BY <1>4, <3>1, <3>2, <3>3, <3>4, <3>5, <3>6, <3>7 DEF Guard
  <2> QED
    BY <2>3, <2>5 DEF Types
<1>5. CASE UNCHANGED intentVars
  BY <1>0, <1>5 DEF intentVars, Types, TablesOK, JobsOK, HasOutcome, At
<1> QED
  BY <1>1, <1>2, <1>3, <1>4, <1>5 DEF Next

\* Types, and a worker has an order exactly while it runs.
THEOREM TypeCorrect == Spec => []TypeOK
BY TypesInit, TypesStep, TypesSplit, PTL DEF Spec
-----------------------------------------------------------------------------
(* How the actions move the workers. *)

Others(w) == \A v \in Workers \ {w} : worker'[v] = worker[v]

Phase(w, pc) == worker'[w].pc = pc

\* Goto moves one worker on and leaves its job and the other workers alone.
LEMMA GotoPhase ==
  ASSUME Types, NEW w \in Workers, NEW pc, Goto(w, pc)
  PROVE  /\ Phase(w, pc) /\ Others(w)
         /\ worker'[w].order = worker[w].order
         /\ worker'[w].msg = worker[w].msg
         /\ worker'[w].from = worker[w].from
         /\ worker'[w].to = worker[w].to
<1>1. worker \in [Workers -> Job]
  BY DEF Types, JobsOK
<1>2. worker'[w] = [worker[w] EXCEPT !.pc = pc] /\ worker[w] \in Job /\ Others(w)
  BY <1>1 DEF Goto, Others
<1> QED
  BY <1>2 DEF Job, Phase

\* Return makes one worker idle and leaves the others alone.
LEMMA ReturnPhase ==
  ASSUME Types, NEW w \in Workers, Return(w)
  PROVE  Phase(w, "idle") /\ Others(w)
BY ReturnMoves DEF Types, Phase, Others

\* Begin gives one idle worker a job and leaves the others alone.
LEMMA BeginPhase ==
  ASSUME Types, NEW w \in Workers, NEW job, Begin(w, job)
  PROVE  worker'[w] = job /\ Others(w) /\ worker[w].pc = "idle"
BY DEF Types, JobsOK, Begin, At, Others

\* What the three calls a worker may begin are.
LEMMA StartPhase ==
  ASSUME Types, NEW w \in Workers, NEW o \in Orders
  PROVE  /\ StartCreate(w, o) =>
              Phase(w, "find") /\ Others(w) /\ worker'[w].order = o
         /\ \A m \in Outcomes : StartWebhook(w, o, m) =>
              /\ Phase(w, "claim") /\ Others(w)
              /\ worker'[w].order = o /\ worker'[w].msg = m
         /\ StartLifecycle(w, o) =>
              /\ Phase(w, "transition") /\ Others(w)
              /\ worker'[w].order = o /\ worker'[w].from = status[o]
              /\ \/ worker'[w].to = "cancelled" /\ status[o] \in Cancellable
                 \/ worker'[w].to = "refunded" /\ status[o] = "paid"
<1>1. ASSUME StartCreate(w, o)
      PROVE  Phase(w, "find") /\ Others(w) /\ worker'[w].order = o
  <2> DEFINE job == [Idle EXCEPT !.pc = "find", !.order = o]
  <2>1. job.pc = "find" /\ job.order = o
    BY DEF Idle
  <2>2. Begin(w, job)
    BY <1>1 DEF StartCreate
  <2> HIDE DEF job
  <2> QED
    BY <2>1, <2>2, BeginPhase DEF Phase
<1>2. ASSUME NEW m \in Outcomes, StartWebhook(w, o, m)
      PROVE  /\ Phase(w, "claim") /\ Others(w)
             /\ worker'[w].order = o /\ worker'[w].msg = m
  <2> DEFINE job == [Idle EXCEPT !.pc = "claim", !.order = o, !.msg = m]
  <2>1. job.pc = "claim" /\ job.order = o /\ job.msg = m
    BY DEF Idle
  <2>2. Begin(w, job)
    BY <1>2 DEF StartWebhook
  <2> HIDE DEF job
  <2> QED
    BY <2>1, <2>2, BeginPhase DEF Phase
<1>3. ASSUME StartLifecycle(w, o)
      PROVE  /\ Phase(w, "transition") /\ Others(w)
             /\ worker'[w].order = o /\ worker'[w].from = status[o]
             /\ \/ worker'[w].to = "cancelled" /\ status[o] \in Cancellable
                \/ worker'[w].to = "refunded" /\ status[o] = "paid"
  <2>1. PICK to \in {"cancelled", "refunded"} :
          /\ IF to = "cancelled" THEN status[o] \in Cancellable ELSE status[o] = "paid"
          /\ Begin(w, [Idle EXCEPT !.pc = "transition", !.order = o,
                                   !.from = status[o], !.to = to])
    BY <1>3 DEF StartLifecycle
  <2> DEFINE job == [Idle EXCEPT !.pc = "transition", !.order = o,
                                 !.from = status[o], !.to = to]
  <2>2. job.pc = "transition" /\ job.order = o /\ job.from = status[o] /\ job.to = to
    BY DEF Idle
  <2>3. Begin(w, job)
    BY <2>1
  <2> HIDE DEF job
  <2> QED
    BY <2>1, <2>2, <2>3, BeginPhase DEF Phase
<1> QED
  BY <1>1, <1>2, <1>3

\* A running worker has an order, and the status of an order is a status.
LEMMA CallOrder ==
  ASSUME Types, NEW w \in Workers, ~At(w, "idle")
  PROVE  worker[w].order \in Orders
BY RunningOrder DEF Types

-----------------------------------------------------------------------------
(* A lifecycle call asks only for what the status it was given allows.     *)

LifecycleOK ==
  \A w \in Workers : At(w, "transition") =>
    \/ worker[w].to = "cancelled" /\ worker[w].from \in Cancellable
    \/ worker[w].to = "refunded" /\ worker[w].from = "paid"

\* Only cancel and refund enter the transition, and their early returns see to its guard.
LEMMA LifecycleStep == Types /\ LifecycleOK /\ [Next]_intentVars => LifecycleOK'
<1> SUFFICES ASSUME Types, LifecycleOK, [Next]_intentVars PROVE LifecycleOK'
  OBVIOUS
<1>1. ASSUME NEW w \in Workers, Others(w), worker'[w].pc # "transition"
      PROVE  LifecycleOK'
  BY <1>1 DEF LifecycleOK, Others, At
<1>2. ASSUME NEW w \in Workers, NEW o \in Orders, StartLifecycle(w, o)
      PROVE  LifecycleOK'
  BY <1>2, StartPhase DEF LifecycleOK, Others, At
<1>3. ASSUME NEW w \in Workers, NEW o \in Orders,
             StartCreate(w, o) \/ \E m \in Outcomes : StartWebhook(w, o, m)
      PROVE  LifecycleOK'
  BY <1>1, <1>3, StartPhase DEF Phase
<1>4. ASSUME NEW w \in Workers,
             Create(w) \/ Guard(w) \/ Transition(w) \/ AppendEvent(w) \/ Throw(w)
      PROVE  LifecycleOK'
  <2>1. Others(w) /\ worker'[w].pc # "transition"
    BY <1>4, GotoPhase, ReturnPhase
       DEF Create, FindExisting, SaveIntent, RequestLink, MarkPending, PendingFails, Deliver,
           MarkFailed, Guard, Claim, RecordOutcome, Compare, ApplyOutcome, Reply, Transition,
           AppendEvent, Throw, Phase
  <2> QED
    BY <1>1, <2>1
<1>5. CASE UNCHANGED intentVars
  BY <1>5 DEF intentVars, LifecycleOK, At
<1> QED
  BY <1>2, <1>3, <1>4, <1>5 DEF Next

-----------------------------------------------------------------------------
(* One creator per order: the unique key decides, and until the link is    *)
(* returned nobody else can act on the order.                              *)

Creating == {"link", "pending", "deliver", "markFailed"}

CreatorsOK ==
  /\ \A w \in Workers : worker[w].pc \in Creating =>
       status[worker[w].order] # "absent" /\ worker[w].order \notin delivered
  /\ \A v, w \in Workers :
       worker[v].pc \in Creating /\ worker[w].pc \in Creating
         /\ worker[v].order = worker[w].order => v = w
  /\ \A w \in Workers : At(w, "link") => links[worker[w].order] = 0
  /\ \A o \in Orders : status[o] = "absent" => links[o] = 0 /\ o \notin delivered
  /\ OneLink

\* A step that creates nothing and makes no status absent.
LEMMA NoCreation ==
  ASSUME Types, CreatorsOK, NEW w \in Workers, Others(w), worker'[w].pc \notin Creating,
         UNCHANGED <<links, delivered>>,
         \A o \in Orders : status'[o] = "absent" => status[o] = "absent"
  PROVE  CreatorsOK'
<1>1. \A v \in Workers : worker'[v].pc \in Creating =>
        v # w /\ worker'[v] = worker[v] /\ worker[v].order \in Orders
  BY CallOrder DEF Others, At, Creating
<1> QED
  BY <1>1 DEF CreatorsOK, OneLink, At, Creating

\* The intent of an order is inserted once, so one worker at most asks for its link.
LEMMA CreatorsStep == Types /\ LifecycleOK /\ CreatorsOK /\ [Next]_intentVars => CreatorsOK'
<1> SUFFICES ASSUME Types, LifecycleOK, CreatorsOK, [Next]_intentVars PROVE CreatorsOK'
  OBVIOUS
<1>0. status \in [Orders -> Statuses] /\ links \in [Orders -> Nat]
  BY DEF Types, TablesOK
<1>1. ASSUME NEW w \in Workers, NEW o \in Orders, StartCreate(w, o) \/ StartLifecycle(w, o)
      PROVE  CreatorsOK'
  BY <1>1, StartPhase, NoCreation DEF StartCreate, StartLifecycle, Creating, Phase
<1>2. ASSUME NEW w \in Workers, NEW o \in Orders, NEW m \in Outcomes, StartWebhook(w, o, m)
      PROVE  CreatorsOK'
  BY <1>2, StartPhase, NoCreation DEF StartWebhook, Creating, Phase
<1>3. ASSUME NEW w \in Workers,
             FindExisting(w) \/ Claim(w) \/ RecordOutcome(w) \/ Compare(w) \/ Reply(w)
               \/ AppendEvent(w) \/ Throw(w)
      PROVE  CreatorsOK'
  <2>1. Others(w) /\ worker'[w].pc \notin Creating
    BY <1>3, GotoPhase, ReturnPhase
       DEF FindExisting, Claim, RecordOutcome, Compare, Reply, AppendEvent, Throw, Creating, Phase
  <2> QED
    BY <1>3, <2>1, NoCreation
       DEF FindExisting, Claim, RecordOutcome, Compare, Reply, AppendEvent, Throw
<1>4. ASSUME NEW w \in Workers, ApplyOutcome(w) \/ Transition(w) PROVE CreatorsOK'
  <2>1. Others(w) /\ worker'[w].pc \notin Creating
    BY <1>4, GotoPhase, ReturnPhase DEF ApplyOutcome, Transition, Creating, Phase
  <2>2. worker[w].order \in Orders
    BY <1>4, CallOrder DEF ApplyOutcome, Transition, At
  <2>3. \A o \in Orders : status'[o] = "absent" => status[o] = "absent"
    BY <1>0, <1>4, <2>2 DEF ApplyOutcome, Transition, SetStatus, LifecycleOK
  <2> QED
    BY <1>4, <2>1, <2>3, NoCreation DEF ApplyOutcome, Transition
<1>5. ASSUME NEW w \in Workers, SaveIntent(w) PROVE CreatorsOK'
  <2>0. worker[w].order \in Orders
    BY <1>5, CallOrder DEF SaveIntent, At
  <2>1. CASE Return(w)
    BY <1>5, <2>1, ReturnPhase, NoCreation, <1>0 DEF SaveIntent, Creating, Phase, SetStatus
  <2>2. CASE status[worker[w].order] = "absent" /\ SetStatus(worker[w].order, "created")
             /\ Goto(w, "link")
    <3>1. Phase(w, "link") /\ Others(w) /\ worker'[w].order = worker[w].order
      BY <2>2, GotoPhase
    <3>2. \A v \in Workers \ {w} : worker[v].pc \in Creating =>
            worker[v].order # worker[w].order /\ worker[v].order \in Orders
      BY <2>2, CallOrder DEF CreatorsOK, At, Creating
    <3> QED
      BY <1>0, <1>5, <2>0, <2>2, <3>1, <3>2
         DEF SaveIntent, CreatorsOK, OneLink, SetStatus, Others, Phase, Creating, At
  <2> QED
    BY <1>5, <2>1, <2>2 DEF SaveIntent
<1>6. ASSUME NEW w \in Workers, RequestLink(w) PROVE CreatorsOK'
  <2>0. worker[w].order \in Orders /\ worker[w].pc = "link"
    BY <1>6, CallOrder DEF RequestLink, At
  <2>1. worker'[w].pc \in {"pending", "markFailed"} /\ Others(w)
        /\ worker'[w].order = worker[w].order
    BY <1>6, GotoPhase DEF RequestLink, Phase
  <2>2. \A v \in Workers \ {w} : worker[v].pc \in Creating =>
          worker[v].order # worker[w].order /\ worker[v].order \in Orders
    BY <2>0, CallOrder DEF CreatorsOK, At, Creating
  <2>3. /\ links[worker[w].order] = 0 /\ status[worker[w].order] # "absent"
        /\ worker[w].order \notin delivered
    BY <2>0 DEF CreatorsOK, At, Creating
  <2> QED
    BY <1>0, <1>6, <2>0, <2>1, <2>2, <2>3
       DEF RequestLink, CreatorsOK, OneLink, Others, Creating, At
<1>7. ASSUME NEW w \in Workers, MarkPending(w) \/ PendingFails(w) PROVE CreatorsOK'
  <2>0. worker[w].order \in Orders /\ worker[w].pc \in {"pending", "deliver"}
    BY <1>7, CallOrder DEF MarkPending, PendingFails, At
  <2>1. worker'[w].pc \in {"deliver", "markFailed"} /\ Others(w)
        /\ worker'[w].order = worker[w].order
    BY <1>7, GotoPhase DEF MarkPending, PendingFails, Phase
  <2>2. \A v \in Workers \ {w} : worker[v].pc \in Creating =>
          worker[v].order # worker[w].order /\ worker[v].order \in Orders
    BY <2>0, CallOrder DEF CreatorsOK, At, Creating
  <2>3. status[worker[w].order] # "absent" /\ worker[w].order \notin delivered
    BY <2>0 DEF CreatorsOK, Creating
  <2>4. \A o \in Orders : status'[o] = status[o] \/ (o = worker[w].order /\ status'[o] = "pending")
    BY <1>0, <1>7, <2>0 DEF MarkPending, PendingFails, SetStatus
  <2> QED
    BY <1>7, <2>0, <2>1, <2>2, <2>3, <2>4
       DEF MarkPending, PendingFails, CreatorsOK, OneLink, Others, Creating, At
<1>8. ASSUME NEW w \in Workers, Deliver(w) PROVE CreatorsOK'
  <2>0. worker[w].order \in Orders /\ worker[w].pc = "deliver"
    BY <1>8, CallOrder DEF Deliver, At
  <2>1. Phase(w, "idle") /\ Others(w)
    BY <1>8, ReturnPhase DEF Deliver
  <2>2. \A v \in Workers \ {w} : worker[v].pc \in Creating =>
          worker[v].order # worker[w].order /\ worker[v].order \in Orders
    BY <2>0, CallOrder DEF CreatorsOK, At, Creating
  <2>3. status[worker[w].order] # "absent"
    BY <2>0 DEF CreatorsOK, Creating
  <2> QED
    BY <1>8, <2>0, <2>1, <2>2, <2>3
       DEF Deliver, CreatorsOK, OneLink, Others, Phase, Creating, At
<1>9. ASSUME NEW w \in Workers, MarkFailed(w) PROVE CreatorsOK'
  <2>1. worker[w].order \in Orders /\ Phase(w, "idle") /\ Others(w)
    BY <1>9, CallOrder, ReturnPhase DEF MarkFailed, At
  <2> QED
    BY <1>0, <1>9, <2>1, NoCreation DEF MarkFailed, SetStatus, Phase, Creating
<1>10. CASE UNCHANGED intentVars
  BY <1>10 DEF intentVars, CreatorsOK, OneLink, At
<1> QED
  BY <1>1, <1>2, <1>3, <1>4, <1>5, <1>6, <1>7, <1>8, <1>9, <1>10 DEF Next, Create, Guard
-----------------------------------------------------------------------------
(* One handler per order: whoever claims it, and nothing is applied to it  *)
(* before.                                                                 *)

Handling == {"outcome", "apply"}

Quiet(o) == claimed[o] = None /\ applied[o] = <<>> /\ outcomes[o] = {}

DeliveriesOK ==
  /\ \A w \in Workers : worker[w].pc \in Delivery => worker[w].order \in delivered
  /\ \A o \in Orders : claimed[o] = None \/ o \notin delivered => Quiet(o)
  /\ \A w \in Workers : worker[w].pc \in Handling =>
       claimed[worker[w].order] = worker[w].msg /\ applied[worker[w].order] = <<>>
  /\ \A v, w \in Workers :
       worker[v].pc \in Handling /\ worker[w].pc \in Handling
         /\ worker[v].order = worker[w].order => v = w

\* A step that leaves the guard's tables alone and does not become a handler.
LEMMA NoHandler ==
  ASSUME Types, DeliveriesOK, NEW w \in Workers, Others(w), worker'[w].pc \notin Handling,
         worker'[w].pc \in Delivery => worker'[w].order \in delivered,
         delivered \subseteq delivered',
         UNCHANGED <<claimed, outcomes, applied>>
  PROVE  DeliveriesOK'
<1>1. \A v \in Workers : worker'[v].pc \in Handling => v # w /\ worker'[v] = worker[v]
  BY DEF Others
<1> QED
  BY <1>1 DEF DeliveriesOK, Quiet, Others

\* A webhook is handled by the worker that inserted its claim, and by no other.
LEMMA DeliveriesStep == Types /\ DeliveriesOK /\ [Next]_intentVars => DeliveriesOK'
<1> SUFFICES ASSUME Types, DeliveriesOK, [Next]_intentVars PROVE DeliveriesOK'
  OBVIOUS
<1>0. /\ claimed \in [Orders -> Outcomes \union {None}]
      /\ outcomes \in [Orders -> SUBSET Outcomes] /\ applied \in [Orders -> Seq(Outcomes)]
  BY DEF Types, TablesOK
<1>1. ASSUME NEW w \in Workers, NEW o \in Orders, StartCreate(w, o) \/ StartLifecycle(w, o)
      PROVE  DeliveriesOK'
  BY <1>1, StartPhase, NoHandler DEF StartCreate, StartLifecycle, Handling, Delivery, Phase
<1>2. ASSUME NEW w \in Workers, NEW o \in Orders, NEW m \in Outcomes, StartWebhook(w, o, m)
      PROVE  DeliveriesOK'
  BY <1>2, StartPhase, NoHandler DEF StartWebhook, Handling, Phase
<1>3. ASSUME NEW w \in Workers, Create(w) \/ Transition(w) \/ AppendEvent(w) \/ Throw(w)
      PROVE  DeliveriesOK'
  <2>1. Others(w) /\ worker'[w].pc \notin Delivery
    BY <1>3, GotoPhase, ReturnPhase
       DEF Create, FindExisting, SaveIntent, RequestLink, MarkPending, PendingFails, Deliver,
           MarkFailed, Transition, AppendEvent, Throw, Delivery, Phase
  <2>2. /\ UNCHANGED <<claimed, outcomes, applied>>
        /\ delivered \subseteq delivered'
    BY <1>3
       DEF Create, FindExisting, SaveIntent, RequestLink, MarkPending, PendingFails, Deliver,
           MarkFailed, Transition, AppendEvent, Throw
  <2> QED
    BY <2>1, <2>2, NoHandler DEF Delivery, Handling
<1>4. ASSUME NEW w \in Workers, Compare(w) \/ Reply(w) PROVE DeliveriesOK'
  <2>1. /\ Others(w) /\ worker'[w].pc \in {"reply", "idle"}
        /\ worker'[w].pc = "reply" => worker'[w].order = worker[w].order
    BY <1>4, GotoPhase, ReturnPhase DEF Compare, Reply, Phase
  <2>2. worker[w].order \in delivered
    BY <1>4 DEF Compare, Reply, At, DeliveriesOK, Delivery
  <2> QED
    BY <1>4, <2>1, <2>2, NoHandler DEF Compare, Reply, Handling, Delivery
<1>5. ASSUME NEW w \in Workers, Claim(w) PROVE DeliveriesOK'
  <2>0. /\ worker[w].order \in Orders /\ worker[w].msg \in Outcomes
        /\ worker[w].order \in delivered
    BY <1>5, CallOrder DEF Claim, At, DeliveriesOK, Delivery, Types, HasOutcome
  <2>1. CASE claimed[worker[w].order] = None
    <3>1. /\ worker'[w].pc \in Handling /\ Others(w)
          /\ worker'[w].order = worker[w].order /\ worker'[w].msg = worker[w].msg
      BY <1>5, <2>1, GotoPhase DEF Claim, Phase, Handling
    <3>2. \A v \in Workers \ {w} : worker[v].pc \in Handling =>
            worker[v].order # worker[w].order
      BY <2>1, NoneAssumption DEF DeliveriesOK, Types, HasOutcome, Handling, Delivery
    <3>3. claimed' = [claimed EXCEPT ![worker[w].order] = worker[w].msg]
      BY <1>5, <2>1 DEF Claim
    <3>4. applied[worker[w].order] = <<>>
      BY <2>0, <2>1 DEF DeliveriesOK, Quiet
    <3>5. \A o \in Orders : claimed'[o] = IF o = worker[w].order THEN worker[w].msg ELSE claimed[o]
      BY <1>0, <3>3
    <3>6. UNCHANGED <<delivered, outcomes, applied>>
      BY <1>5 DEF Claim
    <3>7. \A v \in Workers : worker[v].pc \in Handling => worker[v].order \in Orders
      BY CallOrder DEF At, Handling
    <3> QED
      BY <2>0, <3>1, <3>2, <3>4, <3>5, <3>6, <3>7, NoneAssumption
         DEF DeliveriesOK, Quiet, Others, Handling, Delivery
  <2>2. CASE claimed[worker[w].order] # None
    <3>1. Phase(w, "compare") /\ Others(w) /\ worker'[w].order = worker[w].order
      BY <1>5, <2>2, GotoPhase DEF Claim
    <3> QED
      BY <1>5, <2>0, <2>2, <3>1, NoHandler DEF Claim, Phase, Handling
  <2> QED
    BY <2>1, <2>2
<1>6. ASSUME NEW w \in Workers, RecordOutcome(w) PROVE DeliveriesOK'
  <2>0. /\ worker[w].order \in Orders /\ worker[w].order \in delivered
        /\ worker[w].pc = "outcome"
    BY <1>6, CallOrder DEF RecordOutcome, At, DeliveriesOK, Delivery
  <2>1. /\ Phase(w, "apply") /\ Others(w)
        /\ worker'[w].order = worker[w].order /\ worker'[w].msg = worker[w].msg
    BY <1>6, GotoPhase DEF RecordOutcome
  <2>2. \A o \in Orders : outcomes'[o] = outcomes[o] \/ o = worker[w].order
    BY <1>0, <1>6 DEF RecordOutcome
  <2>3. claimed[worker[w].order] = worker[w].msg /\ worker[w].msg # None
    BY <2>0, NoneAssumption DEF DeliveriesOK, Handling, Types, HasOutcome, Delivery
  <2> QED
    BY <1>6, <2>0, <2>1, <2>2, <2>3
       DEF RecordOutcome, DeliveriesOK, Quiet, Others, Phase, Handling, Delivery
<1>7. ASSUME NEW w \in Workers, ApplyOutcome(w) PROVE DeliveriesOK'
  <2>0. /\ worker[w].order \in Orders /\ worker[w].order \in delivered
        /\ worker[w].pc = "apply"
    BY <1>7, CallOrder DEF ApplyOutcome, At, DeliveriesOK, Delivery
  <2>1. /\ Phase(w, "reply") /\ Others(w) /\ worker'[w].order = worker[w].order
    BY <1>7, GotoPhase DEF ApplyOutcome
  <2>2. \A o \in Orders : applied'[o] = applied[o] \/ o = worker[w].order
    BY <1>0, <1>7 DEF ApplyOutcome
  <2>3. claimed[worker[w].order] = worker[w].msg /\ worker[w].msg # None
    BY <2>0, NoneAssumption DEF DeliveriesOK, Handling, Types, HasOutcome, Delivery
  <2>4. \A v \in Workers \ {w} : worker[v].pc \in Handling =>
          worker[v].order # worker[w].order /\ worker[v].order \in Orders
    BY <2>0, CallOrder DEF DeliveriesOK, Handling, At
  <2> QED
    BY <1>7, <2>0, <2>1, <2>2, <2>3, <2>4
       DEF ApplyOutcome, DeliveriesOK, Quiet, Others, Phase, Handling, Delivery
<1>8. CASE UNCHANGED intentVars
  BY <1>8 DEF intentVars, DeliveriesOK, Quiet
<1> QED
  BY <1>1, <1>2, <1>3, <1>4, <1>5, <1>6, <1>7, <1>8 DEF Next, Guard
-----------------------------------------------------------------------------
(* Whatever is paid was claimed and applied.                               *)

Settled(o) == claimed[o] \in Successes /\ applied[o] # <<>>

PaidOK ==
  /\ \A o \in Orders : status[o] \in {"paid", "refunded"} => Settled(o)
  /\ \A w \in Workers : At(w, "transition") /\ worker[w].to = "refunded" =>
       Settled(worker[w].order)

\* What was settled stays settled: a claim is made once, and nothing unapplies.
LEMMA SettledStays ==
  ASSUME Types, DeliveriesOK, [Next]_intentVars, NEW o \in Orders, Settled(o)
  PROVE  Settled(o)'
<1>0. /\ claimed \in [Orders -> Outcomes \union {None}] /\ claimed[o] # None
      /\ applied \in [Orders -> Seq(Outcomes)]
  BY NoneAssumption, SuccessesAssumption DEF Types, TablesOK, Settled
<1>1. ASSUME NEW w \in Workers, Claim(w) PROVE Settled(o)'
  <2>1. claimed'[o] = claimed[o] /\ applied' = applied
    BY <1>0, <1>1 DEF Claim
  <2> QED
    BY <2>1 DEF Settled
<1>2. ASSUME NEW w \in Workers, ApplyOutcome(w) PROVE Settled(o)'
  <2>1. worker[w].pc \in Handling
    BY <1>2 DEF ApplyOutcome, At, Handling
  <2>2. applied[worker[w].order] = <<>>
    BY <2>1 DEF DeliveriesOK
  <2>3. applied'[o] = applied[o] /\ claimed' = claimed
    BY <1>0, <1>2, <2>2 DEF ApplyOutcome, Settled
  <2> QED
    BY <2>3 DEF Settled
<1>3. CASE UNCHANGED <<claimed, applied>>
  BY <1>3 DEF Settled
<1> QED
  BY <1>1, <1>2, <1>3
     DEF Next, intentVars, StartCreate, StartWebhook, StartLifecycle, Create, FindExisting,
         SaveIntent, RequestLink, MarkPending, PendingFails, Deliver, MarkFailed, Guard,
         RecordOutcome, Compare, Reply, Transition, AppendEvent, Throw

\* An intent becomes paid only in the handler of the claimed outcome.
LEMMA PaidStepOK ==
  Types /\ LifecycleOK /\ DeliveriesOK /\ PaidOK /\ [Next]_intentVars => PaidOK'
<1> SUFFICES ASSUME Types, LifecycleOK, DeliveriesOK, PaidOK, [Next]_intentVars PROVE PaidOK'
  OBVIOUS
<1>0. status \in [Orders -> Statuses]
  BY DEF Types, TablesOK
<1> DEFINE PaidIsSettled == \A o \in Orders : status[o] \in {"paid", "refunded"} => Settled(o)
           RefundIsSettled == \A w \in Workers :
             At(w, "transition") /\ worker[w].to = "refunded" => Settled(worker[w].order)
<1>1. PaidIsSettled'
  <2>1. ASSUME NEW w \in Workers, NEW s \in Statuses \ {"paid", "refunded"}, ~At(w, "idle"),
               SetStatus(worker[w].order, s)
        PROVE  PaidIsSettled'
    <3>1. \A o \in Orders : status'[o] \in {"paid", "refunded"} => status[o] \in {"paid", "refunded"}
      BY <1>0, <2>1, CallOrder DEF SetStatus
    <3> QED
      BY <3>1, SettledStays DEF PaidOK
  <2>2. CASE UNCHANGED status
    BY <2>2, SettledStays DEF PaidOK
  <2>3. ASSUME NEW w \in Workers, SaveIntent(w) \/ MarkPending(w) \/ MarkFailed(w)
        PROVE  PaidIsSettled'
    BY <2>1, <2>2, <2>3 DEF SaveIntent, MarkPending, MarkFailed, At, Statuses
  <2>4. ASSUME NEW w \in Workers, ApplyOutcome(w) PROVE PaidIsSettled'
    <3>1. CASE worker[w].msg \notin Successes
      BY <2>1, <2>4, <3>1 DEF ApplyOutcome, At, Statuses
    <3>2. CASE worker[w].msg \in Successes
      <4>0. worker[w].order \in Orders /\ worker[w].msg \in Outcomes
            /\ applied \in [Orders -> Seq(Outcomes)]
        BY <2>4, CallOrder DEF ApplyOutcome, At, Types, HasOutcome, Delivery, TablesOK
      <4>1. claimed[worker[w].order] = worker[w].msg
        BY <2>4 DEF ApplyOutcome, At, DeliveriesOK, Handling
      <4>2. applied'[worker[w].order] = Append(applied[worker[w].order], worker[w].msg)
        BY <2>4, <4>0 DEF ApplyOutcome
      <4>3. applied'[worker[w].order] # <<>>
        BY <4>0, <4>2
      <4>4. ASSUME NEW o \in Orders, o = worker[w].order PROVE Settled(o)'
        BY <2>4, <3>2, <4>1, <4>3, <4>4 DEF Settled, ApplyOutcome
      <4>5. \A o \in Orders \ {worker[w].order} : status'[o] = status[o]
        BY <1>0, <2>4 DEF ApplyOutcome, SetStatus
      <4> QED
        BY <4>4, <4>5, SettledStays DEF PaidOK
    <3> QED
      BY <3>1, <3>2
  <2>5. ASSUME NEW w \in Workers, Transition(w) PROVE PaidIsSettled'
    <3>1. CASE SetStatus(worker[w].order, worker[w].to) /\ worker[w].to = "cancelled"
      BY <2>1, <2>5, <3>1 DEF Transition, At, Statuses
    <3>2. CASE SetStatus(worker[w].order, worker[w].to) /\ worker[w].to = "refunded"
      <4>1. ASSUME NEW o \in Orders, o = worker[w].order PROVE Settled(o)
        BY <2>5, <3>2, <4>1 DEF Transition, At, PaidOK
      <4>2. \A o \in Orders \ {worker[w].order} : status'[o] = status[o]
        BY <1>0, <3>2 DEF SetStatus
      <4> QED
        BY <4>1, <4>2, SettledStays DEF PaidOK
    <3> QED
      BY <2>2, <2>5, <3>1, <3>2 DEF Transition, LifecycleOK
  <2> QED
    BY <2>2, <2>3, <2>4, <2>5
       DEF Next, intentVars, StartCreate, StartWebhook, StartLifecycle, Create, FindExisting,
           RequestLink, PendingFails, Deliver, Guard, Claim, RecordOutcome, Compare, Reply,
           AppendEvent, Throw
<1>2. RefundIsSettled'
  <2>1. ASSUME NEW w \in Workers, Others(w), worker'[w].pc # "transition"
        PROVE  RefundIsSettled'
    <3> SUFFICES ASSUME NEW v \in Workers, At(v, "transition")', worker'[v].to = "refunded"
                 PROVE  Settled(worker[v].order)'
      OBVIOUS
    <3>1. v # w /\ worker'[v] = worker[v]
      BY <2>1 DEF Others, At
    <3>2. At(v, "transition") /\ worker[v].to = "refunded" /\ worker[v].order \in Orders
      BY <3>1, CallOrder DEF At
    <3>3. Settled(worker[v].order)
      BY <3>2 DEF PaidOK
    <3>4. ASSUME NEW o \in Orders, Settled(o) PROVE Settled(o)'
      BY <3>4, SettledStays
    <3> QED
      BY <3>1, <3>2, <3>3, <3>4 DEF Settled
  <2>2. ASSUME NEW w \in Workers, NEW o \in Orders, StartLifecycle(w, o)
        PROVE  RefundIsSettled'
    <3> SUFFICES ASSUME NEW v \in Workers, At(v, "transition")', worker'[v].to = "refunded"
                 PROVE  Settled(worker[v].order)'
      OBVIOUS
    <3>0. UNCHANGED <<claimed, applied>>
      BY <2>2 DEF StartLifecycle
    <3>1. CASE v = w
      <4>1. worker'[w].order = o /\ status[o] = "paid"
        BY <2>2, <3>1, StartPhase
      <4> QED
        BY <3>0, <3>1, <4>1 DEF PaidOK, Settled
    <3>2. CASE v # w
      BY <2>2, <3>0, <3>2, StartPhase DEF PaidOK, Settled, Others, At
    <3> QED
      BY <3>1, <3>2
  <2>3. ASSUME NEW w \in Workers, NEW o \in Orders,
               StartCreate(w, o) \/ \E m \in Outcomes : StartWebhook(w, o, m)
        PROVE  RefundIsSettled'
    BY <2>1, <2>3, StartPhase DEF Phase
  <2>4. ASSUME NEW w \in Workers,
               Create(w) \/ Guard(w) \/ Transition(w) \/ AppendEvent(w) \/ Throw(w)
        PROVE  RefundIsSettled'
    <3>1. Others(w) /\ worker'[w].pc # "transition"
      BY <2>4, GotoPhase, ReturnPhase
         DEF Create, FindExisting, SaveIntent, RequestLink, MarkPending, PendingFails, Deliver,
             MarkFailed, Guard, Claim, RecordOutcome, Compare, ApplyOutcome, Reply, Transition,
             AppendEvent, Throw, Phase
    <3> QED
      BY <2>1, <3>1
  <2>5. CASE UNCHANGED intentVars
    BY <2>5 DEF intentVars, PaidOK, Settled, At
  <2> QED
    BY <2>2, <2>3, <2>4, <2>5 DEF Next
<1> QED
  BY <1>1, <1>2 DEF PaidOK
-----------------------------------------------------------------------------
(* What the guard answers, on the claim store.                             *)

VerdictsOK ==
  /\ \A w \in Workers : worker[w].pc \in {"compare", "reply"} => claimed[worker[w].order] # None
  /\ \A a \in answers : claimed[a.order] # None
  /\ RejectedIsContradictory

\* A claim is never replaced.
LEMMA ClaimStays ==
  ASSUME Types, [Next]_intentVars, NEW o \in Orders, claimed[o] # None
  PROVE  claimed'[o] = claimed[o]
<1>1. ASSUME NEW w \in Workers, Claim(w) PROVE claimed'[o] = claimed[o]
  BY <1>1 DEF Claim, Types, TablesOK
<1> QED
  BY <1>1
     DEF Next, intentVars, StartCreate, StartWebhook, StartLifecycle, Create, FindExisting,
         SaveIntent, RequestLink, MarkPending, PendingFails, Deliver, MarkFailed, Guard,
         RecordOutcome, Compare, ApplyOutcome, Reply, Transition, AppendEvent, Throw

\* With durable claims the guard rejects a webhook only after it has read a claim of
\* another outcome; claims are never changed.
LEMMA VerdictsStep ==
  ASSUME UseClaims
  PROVE  Types /\ DeliveriesOK /\ VerdictsOK /\ [Next]_intentVars => VerdictsOK'
<1> SUFFICES ASSUME Types, DeliveriesOK, VerdictsOK, [Next]_intentVars PROVE VerdictsOK'
  OBVIOUS
<1> DEFINE Waiting(w) == worker[w].pc \in {"compare", "reply"}
           WaitingIsClaimed == \A w \in Workers : Waiting(w) => claimed[worker[w].order] # None
           AnswersAreTrue == \A a \in answers : claimed[a.order] # None
                               /\ (a.verdict = "contradictory" => a.msg # claimed[a.order])
<1>0. claimed \in [Orders -> Outcomes \union {None}] /\ answers \subseteq Answers
  BY DEF Types, TablesOK
<1>1. WaitingIsClaimed'
  <2>1. ASSUME NEW w \in Workers, Others(w),
               Waiting(w)' => /\ worker'[w].order \in Orders
                              /\ claimed'[worker'[w].order] # None
        PROVE  WaitingIsClaimed'
    <3> SUFFICES ASSUME NEW v \in Workers, v # w, Waiting(v)'
                 PROVE  claimed'[worker'[v].order] # None
      BY <2>1
    <3>1. worker'[v] = worker[v]
      BY <2>1 DEF Others
    <3>2. worker[v].order \in Orders /\ claimed[worker[v].order] # None
      BY <3>1, CallOrder DEF VerdictsOK, At
    <3>3. ASSUME NEW o \in Orders, claimed[o] # None PROVE claimed'[o] # None
      BY <3>3, ClaimStays
    <3> QED
      BY <3>1, <3>2, <3>3
  <2>2. ASSUME NEW w \in Workers, NEW o \in Orders,
               StartCreate(w, o) \/ StartLifecycle(w, o)
                 \/ \E m \in Outcomes : StartWebhook(w, o, m)
        PROVE  WaitingIsClaimed'
    BY <2>1, <2>2, StartPhase DEF Phase
  <2>3. ASSUME NEW w \in Workers,
               Create(w) \/ Transition(w) \/ AppendEvent(w) \/ Throw(w)
                 \/ RecordOutcome(w) \/ Reply(w)
        PROVE  WaitingIsClaimed'
    <3>1. Others(w) /\ ~Waiting(w)'
      BY <2>3, GotoPhase, ReturnPhase
         DEF Create, FindExisting, SaveIntent, RequestLink, MarkPending, PendingFails, Deliver,
             MarkFailed, RecordOutcome, Reply, Transition, AppendEvent, Throw, Phase
    <3> QED
      BY <2>1, <3>1
  <2>4. ASSUME NEW w \in Workers, Claim(w) \/ Compare(w) \/ ApplyOutcome(w)
        PROVE  WaitingIsClaimed'
    <3>1. /\ worker[w].order \in Orders /\ Others(w)
          /\ Phase(w, "idle") \/ worker'[w].order = worker[w].order
      BY <2>4, CallOrder, GotoPhase, ReturnPhase DEF Claim, Compare, ApplyOutcome, At, Phase
    <3>2. Waiting(w)' => claimed'[worker[w].order] # None
      <4>1. CASE Claim(w)
        BY <1>0, <3>1, <4>1, GotoPhase, NoneAssumption
           DEF Claim, Phase, Types, HasOutcome, Delivery, At
      <4>2. CASE Compare(w) \/ ApplyOutcome(w)
        <5>1. claimed[worker[w].order] # None /\ UNCHANGED claimed
          BY <4>2, NoneAssumption
             DEF Compare, ApplyOutcome, At, VerdictsOK, DeliveriesOK, Handling, Types,
                 HasOutcome, Delivery
        <5> QED
          BY <5>1
      <4> QED
        BY <2>4, <4>1, <4>2
    <3> QED
      BY <2>1, <3>1, <3>2 DEF Phase
  <2>5. CASE UNCHANGED intentVars
    BY <2>5 DEF intentVars, VerdictsOK
  <2> QED
    BY <2>2, <2>3, <2>4, <2>5 DEF Next, Guard
<1>2. AnswersAreTrue'
  <2>1. ASSUME NEW a \in answers
        PROVE  claimed'[a.order] # None
                 /\ (a.verdict = "contradictory" => a.msg # claimed'[a.order])
    <3>1. a.order \in Orders /\ claimed[a.order] # None
      BY <1>0 DEF VerdictsOK, Answers
    <3>2. claimed'[a.order] = claimed[a.order]
      BY <3>1, ClaimStays
    <3> QED
      BY <3>1, <3>2 DEF VerdictsOK, RejectedIsContradictory
  <2>2. CASE UNCHANGED answers
    BY <2>1, <2>2
  <2>3. ASSUME NEW w \in Workers, Compare(w) \/ Reply(w) PROVE AnswersAreTrue'
    <3>1. claimed[worker[w].order] # None /\ UNCHANGED claimed
      BY <2>3 DEF Compare, Reply, At, VerdictsOK
    <3>2. CASE Compare(w)
      BY <2>1, <3>1, <3>2 DEF Compare, KnownOutcome
    <3>3. CASE Reply(w)
      BY <2>1, <3>1, <3>3 DEF Reply
    <3> QED
      BY <2>3, <3>2, <3>3
  <2> QED
    BY <2>2, <2>3
       DEF Next, intentVars, StartCreate, StartWebhook, StartLifecycle, Create, FindExisting,
           SaveIntent, RequestLink, MarkPending, PendingFails, Deliver, MarkFailed, Guard,
           Claim, RecordOutcome, ApplyOutcome, Transition, AppendEvent, Throw
<1> QED
  BY <1>1, <1>2 DEF VerdictsOK, RejectedIsContradictory

-----------------------------------------------------------------------------
(* What is decided, on either claim store.                                 *)

DecisionsOK ==
  /\ \A w \in Workers : At(w, "outcome") => ~UseClaims /\ outcomes[worker[w].order] = {}
  /\ \A w \in Workers : At(w, "apply") =>
       UseClaims \/ outcomes[worker[w].order] = {worker[w].msg}
  /\ \A o \in Orders : outcomes[o] \subseteq {claimed[o]}

\* A step that leaves the guard's tables alone and does not become a handler.
LEMMA NoDecision ==
  ASSUME DecisionsOK, NEW w \in Workers, Others(w), worker'[w].pc \notin Handling,
         UNCHANGED <<claimed, outcomes>>
  PROVE  DecisionsOK'
<1>1. \A v \in Workers : worker'[v].pc \in Handling => v # w /\ worker'[v] = worker[v]
  BY DEF Others
<1> QED
  BY <1>1 DEF DecisionsOK, Others, At, Handling

\* What was applied to an order is the outcome its claim decided.
LEMMA DecisionsStep ==
  Types /\ DeliveriesOK /\ DecisionsOK /\ [Next]_intentVars => DecisionsOK'
<1> SUFFICES ASSUME Types, DeliveriesOK, DecisionsOK, [Next]_intentVars PROVE DecisionsOK'
  OBVIOUS
<1>0. /\ claimed \in [Orders -> Outcomes \union {None}]
      /\ outcomes \in [Orders -> SUBSET Outcomes]
  BY DEF Types, TablesOK
<1>1. ASSUME NEW w \in Workers, NEW o \in Orders,
             StartCreate(w, o) \/ StartLifecycle(w, o)
               \/ \E m \in Outcomes : StartWebhook(w, o, m)
      PROVE  DecisionsOK'
  <2>1. Others(w) /\ worker'[w].pc \notin Handling
    BY <1>1, StartPhase DEF Phase, Handling
  <2> QED
    BY <1>1, <2>1, NoDecision DEF StartCreate, StartLifecycle, StartWebhook
<1>2. ASSUME NEW w \in Workers,
             Create(w) \/ Transition(w) \/ AppendEvent(w) \/ Throw(w) \/ Compare(w)
               \/ Reply(w) \/ ApplyOutcome(w)
      PROVE  DecisionsOK'
  <2>1. Others(w) /\ worker'[w].pc \notin Handling /\ UNCHANGED <<claimed, outcomes>>
    BY <1>2, GotoPhase, ReturnPhase
       DEF Create, FindExisting, SaveIntent, RequestLink, MarkPending, PendingFails, Deliver,
           MarkFailed, Compare, Reply, ApplyOutcome, Transition, AppendEvent, Throw, Phase,
           Handling
  <2> QED
    BY <2>1, NoDecision
<1>3. ASSUME NEW w \in Workers, Claim(w) PROVE DecisionsOK'
  <2>0. worker[w].order \in Orders /\ UNCHANGED outcomes
    BY <1>3, CallOrder DEF Claim, At
  <2>1. CASE claimed[worker[w].order] # None
    <3>1. Phase(w, "compare") /\ Others(w) /\ UNCHANGED claimed
      BY <1>3, <2>1, GotoPhase DEF Claim
    <3> QED
      BY <2>0, <3>1, NoDecision DEF Phase, Handling
  <2>2. CASE claimed[worker[w].order] = None
    <3>1. /\ Others(w) /\ worker'[w].order = worker[w].order
          /\ worker'[w].pc = IF UseClaims THEN "apply" ELSE "outcome"
      BY <1>3, <2>2, GotoPhase DEF Claim, Phase
    <3>2. outcomes[worker[w].order] = {}
      BY <2>0, <2>2 DEF DeliveriesOK, Quiet
    <3>3. \A o \in Orders \ {worker[w].order} : claimed'[o] = claimed[o]
      BY <1>0, <1>3, <2>2 DEF Claim
    <3> QED
      BY <2>0, <3>1, <3>2, <3>3 DEF DecisionsOK, Others, At
  <2> QED
    BY <2>1, <2>2
<1>4. ASSUME NEW w \in Workers, RecordOutcome(w) PROVE DecisionsOK'
  <2>0. /\ worker[w].order \in Orders /\ UNCHANGED claimed
        /\ worker[w].pc = "outcome" /\ ~UseClaims /\ outcomes[worker[w].order] = {}
    BY <1>4, CallOrder DEF RecordOutcome, At, DecisionsOK
  <2>1. /\ Phase(w, "apply") /\ Others(w)
        /\ worker'[w].order = worker[w].order /\ worker'[w].msg = worker[w].msg
    BY <1>4, GotoPhase DEF RecordOutcome
  <2>2. /\ outcomes'[worker[w].order] = {worker[w].msg}
        /\ \A o \in Orders \ {worker[w].order} : outcomes'[o] = outcomes[o]
    BY <1>0, <1>4, <2>0 DEF RecordOutcome
  <2>3. claimed[worker[w].order] = worker[w].msg
    BY <2>0 DEF DeliveriesOK, Handling
  <2>4. \A v \in Workers \ {w} : worker[v].pc \in Handling =>
          worker[v].order # worker[w].order /\ worker[v].order \in Orders
    BY <2>0, CallOrder DEF DeliveriesOK, Handling, At
  <2> QED
    BY <2>0, <2>1, <2>2, <2>3, <2>4 DEF DecisionsOK, Others, Phase, Handling, At
<1>5. CASE UNCHANGED intentVars
  BY <1>5 DEF intentVars, DecisionsOK, At
<1> QED
  BY <1>1, <1>2, <1>3, <1>4, <1>5 DEF Next, Guard
-----------------------------------------------------------------------------
(* The theorems. *)

Settlement == LifecycleOK /\ CreatorsOK /\ DeliveriesOK /\ PaidOK /\ DecisionsOK

\* Nothing is claimed, applied or answered yet.
LEMMA SettlementInit == Init => Settlement /\ VerdictsOK
BY IdleJob, NoneAssumption
   DEF Init, Settlement, LifecycleOK, CreatorsOK, DeliveriesOK, PaidOK, DecisionsOK, VerdictsOK,
       Quiet, OneLink, RejectedIsContradictory, At, Creating, Handling, Delivery

\* The five parts of the invariant together.
LEMMA SettlementStep == Types /\ Settlement /\ [Next]_intentVars => Settlement'
BY LifecycleStep, CreatorsStep, DeliveriesStep, PaidStepOK, DecisionsStep DEF Settlement

\* The inductive invariant: one creator and one handler of each order, what a
\* claim excludes, and that whatever is paid was claimed and applied.
THEOREM Invariance == Spec => [](Types /\ Settlement)
BY TypesInit, TypesStep, SettlementInit, SettlementStep, PTL DEF Spec

\* The provider is asked for one payment link per order, however many calls of
\* createPayment race, crash, or are repeated.
THEOREM OneLinkHolds == Spec => []OneLink
<1>1. Settlement => OneLink
  BY DEF Settlement, CreatorsOK
<1> QED
  BY <1>1, Invariance, PTL

\* Only the outcome that claimed an order can have paid it, on either claim store
\* and either payment store.
THEOREM PaidIsClaimedHolds == Spec => []PaidIsClaimed
<1>1. Settlement => PaidIsClaimed
  BY DEF Settlement, PaidOK, PaidIsClaimed, Settled
<1> QED
  BY <1>1, Invariance, PTL

\* With a claim store, a rejected delivery contradicts the claim.
THEOREM RejectedIsContradictoryHolds ==
  ASSUME UseClaims
  PROVE  Spec => []RejectedIsContradictory
<1>1. UseClaims
  OBVIOUS
<1>2. Types /\ Settlement /\ VerdictsOK /\ [Next]_intentVars => VerdictsOK'
  BY <1>1, VerdictsStep DEF Settlement
<1>3. VerdictsOK => RejectedIsContradictory
  BY DEF VerdictsOK
<1> QED
  BY <1>2, <1>3, SettlementInit, Invariance, PTL DEF Spec

\* With the compare-and-set store, only a refund follows a payment and nothing
\* follows a refund.
THEOREM PaidIsFinalHolds ==
  ASSUME HasUpdateIfStatus
  PROVE  Spec => PaidIsFinal
<1>1. Types /\ Settlement /\ [Next]_intentVars => PaidStep
  <2> SUFFICES ASSUME Types, Settlement, [Next]_intentVars, NEW o \in Orders
               PROVE  /\ status[o] = "paid" => status'[o] \in {"paid", "refunded"}
                      /\ status[o] = "refunded" => status'[o] = "refunded"
    BY DEF PaidStep
  <2>0. status \in [Orders -> Statuses]
    BY DEF Types, TablesOK
  <2>1. CASE UNCHANGED status
    BY <2>1
  <2>2. ASSUME NEW w \in Workers, SaveIntent(w) \/ MarkPending(w) \/ MarkFailed(w),
               worker[w].order = o
        PROVE  status[o] \notin {"paid", "refunded"} \/ UNCHANGED status
    <3>1. CASE SaveIntent(w)
      BY <2>2, <3>1 DEF SaveIntent
    <3>2. CASE MarkPending(w) \/ MarkFailed(w)
      <4>1. o \notin delivered
        BY <2>2, <3>2 DEF MarkPending, MarkFailed, At, Settlement, CreatorsOK, Creating
      <4>2. claimed[o] \notin Successes
        BY <4>1, NoneAssumption, SuccessesAssumption DEF Settlement, DeliveriesOK, Quiet
      <4> QED
        BY <4>2 DEF Settlement, PaidOK, Settled
    <3> QED
      BY <2>2, <3>1, <3>2
  <2>3. ASSUME NEW w \in Workers, SaveIntent(w) \/ MarkPending(w) \/ MarkFailed(w)
        PROVE  status'[o] = status[o] \/ status[o] \notin {"paid", "refunded"}
    BY <2>0, <2>2, <2>3, CallOrder DEF SaveIntent, MarkPending, MarkFailed, SetStatus, At
  <2>4. ASSUME NEW w \in Workers, ApplyOutcome(w)
        PROVE  status'[o] = status[o] \/ status[o] \notin {"paid", "refunded"}
    <3>1. applied[worker[w].order] = <<>>
      BY <2>4 DEF ApplyOutcome, At, Settlement, DeliveriesOK, Handling
    <3>2. CASE o = worker[w].order
      BY <3>1, <3>2 DEF Settlement, PaidOK, Settled
    <3>3. CASE o # worker[w].order
      BY <2>0, <2>4, <3>3 DEF ApplyOutcome, SetStatus
    <3> QED
      BY <3>2, <3>3
  <2>5. ASSUME NEW w \in Workers, Transition(w)
        PROVE  \/ status'[o] = status[o]
               \/ status[o] = "paid" /\ status'[o] = "refunded"
               \/ status[o] \notin {"paid", "refunded"}
    BY <2>0, <2>5, HasUpdateIfStatus
       DEF Transition, UpdateWins, SetStatus, Settlement, LifecycleOK, Cancellable
  <2> QED
    BY <2>1, <2>3, <2>4, <2>5
       DEF Next, intentVars, StartCreate, StartWebhook, StartLifecycle, Create, FindExisting,
           RequestLink, PendingFails, Deliver, Guard, Claim, RecordOutcome, Compare, Reply,
           AppendEvent, Throw
<1>2. Types /\ Settlement /\ [Next]_intentVars => [PaidStep]_intentVars
  BY <1>1
<1> QED
  BY <1>2, Invariance, PTL DEF Spec, PaidIsFinal
-----------------------------------------------------------------------------
(* Refinement. *)

\* What a later delivery finds is what the claim or the outcome event says.
LEMMA DecidedIs ==
  ASSUME NEW o \in Orders
  PROVE  /\ UseClaims => Decided(o) = claimed[o]
         /\ ~UseClaims /\ outcomes[o] = {} => Decided(o) = None
         /\ \A m \in Outcomes : ~UseClaims /\ outcomes[o] = {m} => Decided(o) = m
BY DEF Decided

\* A step that leaves the guard's tables alone stutters in the register.
LEMMA TablesUnchanged ==
  ASSUME UNCHANGED <<claimed, outcomes, applied>>
  PROVE  UNCHANGED Register!registerVars
BY DEF Register!registerVars, Decided

\* Deciding an order is a step of the register.
LEMMA Decides ==
  ASSUME NEW o \in Orders, NEW m \in Outcomes, UNCHANGED applied,
         Decided(o) = None, Decided(o)' = m,
         \A p \in Orders \ {o} : Decided(p)' = Decided(p)
  PROVE  Register!Decide(o, m)
<1> DEFINE decided == [p \in Orders |-> Decided(p)]
<1>1. decided' = [decided EXCEPT ![o] = m]
  OBVIOUS
<1> QED
  BY <1>1 DEF Register!Decide

\* Each step is a decision, an application or a stutter of OutcomeRegister.
LEMMA StepImplements ==
  Types /\ Settlement /\ [Next]_intentVars
    => [Register!RegisterNext]_(Register!registerVars)
<1> SUFFICES ASSUME Types, Settlement, [Next]_intentVars
             PROVE  [Register!RegisterNext]_(Register!registerVars)
  OBVIOUS
<1>0. /\ claimed \in [Orders -> Outcomes \union {None}]
      /\ outcomes \in [Orders -> SUBSET Outcomes] /\ applied \in [Orders -> Seq(Outcomes)]
  BY DEF Types, TablesOK
<1>1. ASSUME NEW w \in Workers, Claim(w)
      PROVE  [Register!RegisterNext]_(Register!registerVars)
  <2>0. PICK o \in Orders, m \in Outcomes : o = worker[w].order /\ m = worker[w].msg
    BY <1>1, CallOrder DEF Claim, At, Types, HasOutcome, Delivery
  <2>1. CASE UseClaims /\ claimed[o] = None
    <3>1. claimed' = [claimed EXCEPT ![o] = m] /\ UNCHANGED applied
      BY <1>1, <2>0, <2>1 DEF Claim
    <3>2. /\ Decided(o) = None /\ Decided(o)' = m
          /\ \A p \in Orders \ {o} : Decided(p)' = Decided(p)
      BY <1>0, <2>1, <3>1 DEF Decided
    <3>3. Register!Decide(o, m)
      BY <3>1, <3>2, Decides
    <3> QED
      BY <3>3 DEF Register!RegisterNext
  <2>2. CASE ~UseClaims \/ claimed[o] # None
    <3>1. UNCHANGED <<outcomes, applied>> /\ (UseClaims => UNCHANGED claimed)
      BY <1>1, <2>0, <2>2 DEF Claim
    <3>2. UNCHANGED Register!registerVars
      BY <3>1 DEF Register!registerVars, Decided
    <3> QED
      BY <3>2
  <2> QED
    BY <2>1, <2>2
<1>2. ASSUME NEW w \in Workers, RecordOutcome(w)
      PROVE  [Register!RegisterNext]_(Register!registerVars)
  <2>0. PICK o \in Orders, m \in Outcomes : o = worker[w].order /\ m = worker[w].msg
    BY <1>2, CallOrder DEF RecordOutcome, At, Types, HasOutcome, Delivery
  <2>1. ~UseClaims /\ outcomes[o] = {}
    BY <1>2, <2>0 DEF RecordOutcome, Settlement, DecisionsOK
  <2>2. outcomes' = [outcomes EXCEPT ![o] = {m}] /\ UNCHANGED applied
    BY <1>2, <2>0, <2>1 DEF RecordOutcome
  <2>3. outcomes'[o] = {m} /\ \A p \in Orders \ {o} : outcomes'[p] = outcomes[p]
    BY <1>0, <2>2
  <2>4. /\ Decided(o) = None /\ Decided(o)' = m
        /\ \A p \in Orders \ {o} : Decided(p)' = Decided(p)
    BY <2>1, <2>3 DEF Decided
  <2>5. Register!Decide(o, m)
    BY <2>2, <2>4, Decides
  <2> QED
    BY <2>5 DEF Register!RegisterNext
<1>3. ASSUME NEW w \in Workers, ApplyOutcome(w)
      PROVE  [Register!RegisterNext]_(Register!registerVars)
  <2>0. PICK o \in Orders, m \in Outcomes : o = worker[w].order /\ m = worker[w].msg
    BY <1>3, CallOrder DEF ApplyOutcome, At, Types, HasOutcome, Delivery
  <2>1. applied[o] = <<>> /\ claimed[o] = m
    BY <1>3, <2>0 DEF ApplyOutcome, At, Settlement, DeliveriesOK, Handling
  <2>2. Decided(o) = m
    BY <1>3, <2>0, <2>1, DecidedIs DEF ApplyOutcome, Settlement, DecisionsOK
  <2>3. applied' = [applied EXCEPT ![o] = <<m>>] /\ UNCHANGED <<claimed, outcomes>>
    BY <1>3, <2>0, <2>1 DEF ApplyOutcome
  <2>4. UNCHANGED [p \in Orders |-> Decided(p)]
    BY <2>3 DEF Decided
  <2>5. Register!Apply(o)
    BY <2>1, <2>2, <2>3, <2>4, NoneAssumption DEF Register!Apply
  <2> QED
    BY <2>5 DEF Register!RegisterNext
<1>4. CASE UNCHANGED <<claimed, outcomes, applied>>
  BY <1>4, TablesUnchanged
<1> QED
  BY <1>1, <1>2, <1>3, <1>4
     DEF Next, intentVars, StartCreate, StartWebhook, StartLifecycle, Create, FindExisting,
         SaveIntent, RequestLink, MarkPending, PendingFails, Deliver, MarkFailed, Guard,
         Compare, Reply, Transition, AppendEvent, Throw

\* On either claim store the guard decides one outcome of each order and applies
\* that one, once.
THEOREM Refinement == Spec => ImplementsRegister
<1>1. Init => Register!RegisterInit
  <2> SUFFICES ASSUME Init PROVE Register!RegisterInit
    OBVIOUS
  <2>1. \A o \in Orders : Decided(o) = None
    BY DecidedIs DEF Init
  <2> QED
    BY <2>1 DEF Init, Register!RegisterInit
<1> QED
  BY <1>1, StepImplements, Invariance, PTL
     DEF Spec, ImplementsRegister, Register!RegisterSpec
=============================================================================
