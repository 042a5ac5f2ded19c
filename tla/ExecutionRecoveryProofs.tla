----------------------- MODULE ExecutionRecoveryProofs -----------------------
(***************************************************************************)
(* Proofs about ExecutionRecovery, for any number of processes, keys,      *)
(* calls and attempts, and for a ledger of any length.                     *)
(***************************************************************************)
EXTENDS ExecutionRecovery, TLAPS

\* Receipts as createExecutionReceipt makes them: the last attempt is not retried.
Good == {r \in Receipts : r.next = "retry" => r.attempt < MaxAttempts}

Known == prepared \union committed

Executing(c) == call[c].pc = "executing"

CallRecords == [pc : {"executing"}, proc : Procs, key : Keys, attempt : 1..MaxAttempts]

BootType == boot \in [Procs -> [phase : Phases, step : Steps, fin : Finalizations \union {Idle}]]

-----------------------------------------------------------------------------
(* Facts about sequences and about the helpers of the module. *)

\* What appending to a sequence keeps and adds.
LEMMA AppendFacts ==
  ASSUME NEW S, NEW s \in Seq(S), NEW e \in S
  PROVE  /\ Append(s, e) \in Seq(S)
         /\ Len(s) \in Nat
         /\ Len(Append(s, e)) = Len(s) + 1
         /\ DOMAIN Append(s, e) = DOMAIN s \union {Len(s) + 1}
         /\ DOMAIN s = 1..Len(s)
         /\ \A i \in DOMAIN s : Append(s, e)[i] = s[i] /\ i < Len(s) + 1 /\ i \in Nat
         /\ Append(s, e)[Len(s) + 1] = e
  OBVIOUS

\* A sequence that starts with another one still does after an append.
LEMMA PrefixGrows ==
  ASSUME NEW S, NEW s \in Seq(S), NEW t \in Seq(S), NEW e \in S, IsPrefixOf(s, t)
  PROVE  IsPrefixOf(s, Append(t, e))
  BY AppendFacts DEF IsPrefixOf

\* A prefix of the same length is the whole sequence.
LEMMA WholePrefix ==
  ASSUME NEW S, NEW s \in Seq(S), NEW t \in Seq(S), IsPrefixOf(s, t), Len(s) = Len(t)
  PROVE  s = t
  BY DEF IsPrefixOf

\* A call that executes is a full record.
LEMMA CallType ==
  ASSUME TypeOK, NEW c \in Calls, Executing(c)
  PROVE  call[c] \in CallRecords
  BY DEF TypeOK, Executing, CallRecords, Idle

\* Goto moves one process.
LEMMA GotoMoves ==
  ASSUME BootType, NEW p \in Procs, NEW phase \in Phases, NEW step \in Steps,
         Goto(p, phase, step)
  PROVE  /\ BootType'
         /\ boot'[p].phase = phase /\ boot'[p].step = step
         /\ boot'[p].fin = boot[p].fin
         /\ \A q \in Procs \ {p} : boot'[q] = boot[q]
  BY DEF BootType, Goto

\* A failure ends the start or the finalization at hand, and leaves less to replay.
LEMMA FailsMoves ==
  ASSUME BootType, NEW p \in Procs, Fails(p),
         pending \in [Procs -> SUBSET Finalizations]
  PROVE  /\ BootType'
         /\ boot'[p].phase \in {"down", "scan"} /\ boot'[p].step = "pick"
         /\ \A q \in Procs \ {p} : boot'[q] = boot[q]
         /\ pending' \in [Procs -> SUBSET Finalizations]
         /\ \A q \in Procs : pending'[q] \subseteq pending[q]
         /\ startup' \in {startup, Free}
<1>1. {"down", "scan"} \subseteq Phases /\ "pick" \in Steps
  BY DEF Phases, Steps
<1> QED
  BY <1>1, GotoMoves DEF Fails

-----------------------------------------------------------------------------
(* Types, and where a starting process has its work from. *)

BootOK ==
  /\ BootType
  /\ startup \in Procs \union {Free, Dead}
  /\ pending \in [Procs -> SUBSET Finalizations]
  /\ todo \in [Procs -> SUBSET (1..MaxLedger)]
  /\ \A p \in Procs :
       /\ pending[p] \subseteq Known
       /\ todo[p] \subseteq DOMAIN ledger
       /\ boot[p].step # "pick" =>
            boot[p].phase \in {"replay", "scan"} /\ boot[p].fin \in Known

FilesOK ==
  /\ ledger \in Seq(Good) /\ Len(ledger) <= MaxLedger
  /\ journal \in [Keys -> NextActions \union {"none"}]
  /\ prepared \subseteq Finalizations /\ committed \subseteq Finalizations
  /\ \A f \in Known : f.target \in Good

CallsOK ==
  /\ lease \in [Keys -> Calls \union {Free, Dead}]
  /\ memory \in [Procs -> Seq(Good)]
  /\ call \in [Calls -> CallRecords \union {Idle}]

Types == BootOK /\ FilesOK /\ CallsOK

\* The two-step form of the types implies the TypeOK of the run.
LEMMA TypesSuffice == Types => TypeOK
<1>1. Good \subseteq Receipts
  BY DEF Good
<1>2. Seq(Good) \subseteq Seq(Receipts)
  BY <1>1
<1> QED
  BY <1>2 DEF Types, TypeOK, BootOK, FilesOK, CallsOK, BootType, CallRecords

\* Nothing runs and nothing is recorded yet.
LEMMA TypesInit == Init => Types
<1> SUFFICES ASSUME Init PROVE Types
  OBVIOUS
<1>1. <<>> \in Seq(Good) /\ Len(<<>>) = 0
  OBVIOUS
<1>2. BootOK
  BY DEF Init, BootOK, BootType, Phases, Steps
<1>3. FilesOK
  BY <1>1, RecoveryAssumption DEF Init, FilesOK, Known
<1>4. CallsOK
  BY <1>1 DEF Init, CallsOK
<1> QED
  BY <1>2, <1>3, <1>4 DEF Types

\* The records of a ledger have positions within the bound.
LEMMA LedgerPositions ==
  ASSUME FilesOK
  PROVE  DOMAIN ledger \subseteq 1..MaxLedger /\ DOMAIN ledger = 1..Len(ledger)
<1>1. ledger \in Seq(Good) /\ Len(ledger) <= MaxLedger /\ MaxLedger \in Nat
  BY RecoveryAssumption DEF FilesOK
<1> QED
  BY <1>1

\* Observing a retryable receipt gives a receipt of the same key and attempt.
LEMMA Observed ==
  ASSUME NEW r \in Good, r.next = "retry", NEW next \in NextActions
  PROVE  /\ [r EXCEPT !.next = next] \in Good
         /\ [r EXCEPT !.next = next].key = r.key
         /\ [r EXCEPT !.next = next].attempt = r.attempt
         /\ [r EXCEPT !.next = next].next = next
  BY DEF Good, Receipts

\* Types through the phases of StartupRecoveryController.run.
LEMMA BootTypes ==
  ASSUME Types, NEW p \in Procs,
         Boot(p) \/ ReplayFinalization(p) \/ Scan(p) \/ Recovered(p) \/ Restore(p)
  PROVE  Types'
<1>1. Phases = {"down", "replay", "scan", "starting", "up"}
      /\ Steps = {"pick", "append", "journal", "commit"}
  BY DEF Phases, Steps
<1>2. FilesOK' /\ Known' = Known /\ ledger' = ledger
  BY DEF Boot, ReplayFinalization, Scan, Recovered, Restore, files, Types, FilesOK, Known
<1>3. CallsOK'
  <2>1. CASE Restore(p)
    BY <2>1 DEF Restore, Types, CallsOK, FilesOK
  <2>2. CASE Boot(p) \/ ReplayFinalization(p) \/ Scan(p) \/ Recovered(p)
    BY <2>2 DEF Boot, ReplayFinalization, Scan, Recovered, Types, CallsOK
  <2> QED
    BY <2>1, <2>2
<1>4. BootOK'
  <2>1. CASE Boot(p)
    <3>1. pending' \in [Procs -> SUBSET Finalizations]
          /\ \A q \in Procs : pending'[q] \subseteq Known
      BY <2>1 DEF Boot, Types, BootOK, FilesOK, Known
    <3>2. startup' \in Procs \union {Free, Dead} /\ todo' = todo
      BY <2>1 DEF Boot, Types, BootOK
    <3>3. BootType' /\ boot'[p].step = "pick" /\ \A q \in Procs \ {p} : boot'[q] = boot[q]
      BY <1>1, <2>1, GotoMoves DEF Boot, Types, BootOK
    <3> QED
      BY <1>2, <3>1, <3>2, <3>3 DEF Types, BootOK
  <2>2. CASE ReplayFinalization(p)
    <3>1. PICK f \in pending[p] :
            \/ /\ boot' \in {[boot EXCEPT ![p].step = "journal", ![p].fin = f],
                             [boot EXCEPT ![p].step = "append", ![p].fin = f]}
               /\ pending' = [pending EXCEPT ![p] = @ \ {f}]
               /\ UNCHANGED startup
            \/ Fails(p)
      BY <2>2 DEF ReplayFinalization
    <3>2. f \in Known /\ f \in Finalizations /\ boot[p].phase = "replay" /\ todo' = todo
      BY <2>2 DEF ReplayFinalization, Types, BootOK, In
    <3>3. CASE Fails(p)
      BY <1>2, <3>2, <3>3, FailsMoves DEF Types, BootOK
    <3>4. CASE ~Fails(p)
      <4>1. /\ BootType'
            /\ boot'[p].phase = "replay" /\ boot'[p].fin = f
            /\ \A q \in Procs \ {p} : boot'[q] = boot[q]
        BY <1>1, <3>1, <3>2, <3>4 DEF Types, BootOK, BootType
      <4>2. /\ pending' \in [Procs -> SUBSET Finalizations]
            /\ \A q \in Procs : pending'[q] \subseteq Known
        BY <3>1, <3>4 DEF Types, BootOK
      <4> QED
        BY <1>2, <3>1, <3>2, <3>4, <4>1, <4>2 DEF Types, BootOK
    <3> QED
      BY <3>3, <3>4
  <2>3. CASE Scan(p)
    <3>1. /\ todo' \in [Procs -> SUBSET (1..MaxLedger)]
          /\ \A q \in Procs : todo'[q] \subseteq DOMAIN ledger
      BY <2>3, LedgerPositions DEF Scan, Types, BootOK
    <3>2. BootType' /\ boot'[p].step = "pick" /\ \A q \in Procs \ {p} : boot'[q] = boot[q]
      BY <1>1, <2>3, GotoMoves DEF Scan, Types, BootOK
    <3>3. UNCHANGED <<startup, pending>>
      BY <2>3 DEF Scan
    <3> QED
      BY <1>2, <3>1, <3>2, <3>3 DEF Types, BootOK
  <2>4. CASE Recovered(p) \/ Restore(p)
    <3>1. BootType' /\ boot'[p].step = "pick" /\ \A q \in Procs \ {p} : boot'[q] = boot[q]
      BY <1>1, <2>4, GotoMoves DEF Recovered, Restore, Types, BootOK
    <3>2. UNCHANGED <<pending, todo>> /\ startup' \in {startup, Free}
      BY <2>4 DEF Recovered, Restore, work
    <3> QED
      BY <1>2, <3>1, <3>2 DEF Types, BootOK
  <2> QED
    BY <2>1, <2>2, <2>3, <2>4
<1> QED
  BY <1>2, <1>3, <1>4 DEF Types

\* Types through the writes of one finalization and the repair of the journal.
LEMMA ReconcileTypes ==
  ASSUME Types, NEW p \in Procs,
         \/ RepairTerminalJournal(p) \/ Prepare(p) \/ AppendTarget(p)
         \/ RecordJournal(p) \/ Commit(p)
  PROVE  Types'
<1>1. Phases = {"down", "replay", "scan", "starting", "up"}
      /\ Steps = {"pick", "append", "journal", "commit"}
  BY DEF Phases, Steps
<1>2. CallsOK'
  BY DEF RepairTerminalJournal, Prepare, AppendTarget, RecordJournal, Commit, Types, CallsOK
<1>3. \A i \in DOMAIN ledger : ledger[i] \in Good /\ ledger[i].key \in Keys
                              /\ ledger[i].next \in NextActions
  BY DEF Types, FilesOK, Good, Receipts
<1>4. CASE RepairTerminalJournal(p)
  <2>1. PICK i \in todo[p] :
          /\ journal' \in {journal, [journal EXCEPT ![ledger[i].key] = ledger[i].next]}
          /\ todo' = [todo EXCEPT ![p] = @ \ {i}]
    BY <1>4 DEF RepairTerminalJournal
  <2>2. UNCHANGED <<ledger, prepared, committed, startup, boot, pending>>
    BY <1>4 DEF RepairTerminalJournal
  <2>3. FilesOK'
    BY <1>3, <2>1, <2>2 DEF Types, BootOK, FilesOK, Known
  <2>4. BootOK'
    BY <2>1, <2>2 DEF Types, BootOK, BootType, Known
  <2> QED
    BY <1>2, <2>3, <2>4 DEF Types
<1>5. CASE Prepare(p)
  <2>1. PICK i \in todo[p] :
          /\ ledger[i].next = "retry"
          /\ todo' = [todo EXCEPT ![p] = @ \ {i}]
          /\ \/ \E next \in NextActions :
                  LET f == [source |-> i, target |-> [ledger[i] EXCEPT !.next = next]]
                  IN /\ prepared' = prepared \union ({f} \ committed)
                     /\ boot' = [boot EXCEPT ![p].step = "append", ![p].fin = f]
             \/ UNCHANGED <<prepared, boot>>
    BY <1>5 DEF Prepare
  <2>2. UNCHANGED <<ledger, journal, committed, startup, pending>> /\ boot[p].phase = "scan"
    BY <1>5 DEF Prepare, In
  <2>3. i \in DOMAIN ledger /\ i \in 1..MaxLedger
    BY DEF Types, BootOK
  <2>4. /\ todo' \in [Procs -> SUBSET (1..MaxLedger)]
        /\ \A q \in Procs : todo'[q] \subseteq DOMAIN ledger
    BY <2>1 DEF Types, BootOK
  <2>5. CASE UNCHANGED <<prepared, boot>>
    BY <1>2, <2>2, <2>4, <2>5 DEF Types, BootOK, BootType, FilesOK, Known
  <2>6. CASE ~UNCHANGED <<prepared, boot>>
    <3>1. PICK f \in Finalizations :
            /\ f.target \in Good
            /\ prepared' = prepared \union ({f} \ committed)
            /\ boot' = [boot EXCEPT ![p].step = "append", ![p].fin = f]
      <4>1. \A next \in NextActions :
              [source |-> i, target |-> [ledger[i] EXCEPT !.next = next]] \in Finalizations
              /\ [ledger[i] EXCEPT !.next = next] \in Good
        BY <1>3, <2>1, <2>3, Observed DEF Finalizations, Good
      <4> QED
        BY <2>1, <2>6, <4>1
    <3>2. f.target \in Good /\ f \in Finalizations
      BY <3>1
    <3>3. Known' = Known \union {f} /\ prepared' \subseteq Finalizations
      BY <2>2, <3>1, <3>2 DEF Known, Types, FilesOK
    <3>4. FilesOK'
      BY <2>2, <3>2, <3>3 DEF Types, FilesOK
    <3>5. /\ BootType'
          /\ boot'[p].phase = "scan" /\ boot'[p].fin = f
          /\ \A q \in Procs \ {p} : boot'[q] = boot[q]
      <4>1. BootType
        BY DEF Types, BootOK
      <4> QED
        BY <1>1, <2>2, <3>1, <3>2, <4>1 DEF BootType
    <3>6. BootOK'
      BY <2>2, <2>4, <3>3, <3>5 DEF Types, BootOK
    <3> QED
      BY <1>2, <3>4, <3>6 DEF Types
  <2> QED
    BY <2>5, <2>6
<1>6. CASE AppendTarget(p) \/ RecordJournal(p) \/ Commit(p)
  <2>1. /\ boot[p].phase \in {"replay", "scan"} /\ boot[p].fin \in Known
        /\ boot[p].fin.target \in Good /\ boot[p].fin \in Finalizations
    BY <1>6 DEF AppendTarget, RecordJournal, Commit, Types, BootOK, FilesOK, Known
  <2>2. todo' = todo
    BY <1>6 DEF AppendTarget, RecordJournal, Commit
  <2>3. FilesOK' /\ Known' = Known /\ DOMAIN ledger \subseteq DOMAIN ledger'
    <3>1. CASE AppendTarget(p)
      <4>1. CASE UNCHANGED ledger
        BY <3>1, <4>1 DEF AppendTarget, Types, FilesOK, Known
      <4>2. CASE Len(ledger) < MaxLedger /\ ledger' = Append(ledger, boot[p].fin.target)
        <5>1. /\ ledger' \in Seq(Good) /\ DOMAIN ledger \subseteq DOMAIN ledger'
              /\ Len(ledger') = Len(ledger) + 1 /\ Len(ledger) \in Nat
          BY <2>1, <4>2, AppendFacts DEF Types, FilesOK
        <5>2. Len(ledger') <= MaxLedger
          BY <4>2, <5>1, RecoveryAssumption
        <5> QED
          BY <3>1, <5>1, <5>2 DEF AppendTarget, Types, FilesOK, Known
      <4> QED
        BY <3>1, <4>1, <4>2 DEF AppendTarget
    <3>2. CASE RecordJournal(p)
      BY <2>1, <3>2 DEF RecordJournal, Types, FilesOK, Known, Good, Receipts
    <3>3. CASE Commit(p)
      BY <2>1, <3>3 DEF Commit, Types, FilesOK, Known
    <3> QED
      BY <1>6, <3>1, <3>2, <3>3
  <2>4. \/ Fails(p)
        \/ /\ \E step \in Steps : Goto(p, boot[p].phase, step)
           /\ UNCHANGED <<startup, pending>>
    BY <1>1, <1>6 DEF AppendTarget, RecordJournal, Commit
  <2>5. CASE Fails(p)
    <3>1. BootOK'
      BY <2>2, <2>3, <2>5, FailsMoves DEF Types, BootOK
    <3> QED
      BY <1>2, <2>3, <3>1 DEF Types
  <2>6. CASE ~Fails(p)
    <3>1. /\ BootType'
          /\ boot'[p].phase = boot[p].phase /\ boot'[p].fin = boot[p].fin
          /\ \A q \in Procs \ {p} : boot'[q] = boot[q]
          /\ UNCHANGED <<startup, pending>>
      BY <1>1, <2>1, <2>4, <2>6, GotoMoves DEF Types, BootOK
    <3>2. BootOK'
      BY <2>1, <2>2, <2>3, <3>1 DEF Types, BootOK
    <3> QED
      BY <1>2, <2>3, <3>2 DEF Types
  <2> QED
    BY <2>5, <2>6
<1> QED
  BY <1>4, <1>5, <1>6

\* Types through run, replay, and the end of a call.
LEMMA RuntimeTypes ==
  ASSUME Types, NEW c \in Calls, Execute(c)
  PROVE  Types'
<1>1. CASE Lose(c)
  <2>1. call[c] \in CallRecords
    BY <1>1, TypesSuffice, CallType DEF Lose, Executing
  <2>2. CallsOK'
    BY <1>1, <2>1 DEF Lose, End, Types, CallsOK, CallRecords
  <2> QED
    BY <1>1, <2>2 DEF Lose, files, work, Types, BootOK, BootType, FilesOK, Known
<1>2. CASE Persist(c)
  <2>1. call[c] \in CallRecords
    BY <1>2, TypesSuffice, CallType DEF Persist, Executing
  <2>2. PICK r \in Good :
          /\ Len(ledger) < MaxLedger
          /\ ledger' = Append(ledger, r)
          /\ memory' \in {memory, [memory EXCEPT ![call[c].proc] = Append(@, r)]}
    <3>1. \A next \in Outcomes(call[c].attempt) :
            [key |-> call[c].key, attempt |-> call[c].attempt, next |-> next] \in Good
      BY <2>1 DEF CallRecords, Outcomes, Good, Receipts, NextActions, Terminal
    <3> QED
      BY <1>2, <3>1 DEF Persist
  <2>3. call[c].proc \in Procs /\ call[c].key \in Keys
    BY <2>1 DEF CallRecords
  <2>4. memory' \in [Procs -> Seq(Good)]
    <3>1. Append(memory[call[c].proc], r) \in Seq(Good)
      BY <2>3, AppendFacts DEF Types, CallsOK
    <3> QED
      BY <2>2, <3>1 DEF Types, CallsOK
  <2>5. CallsOK'
    BY <1>2, <2>3, <2>4 DEF Persist, End, Types, CallsOK
  <2>6. /\ ledger' \in Seq(Good) /\ DOMAIN ledger \subseteq DOMAIN ledger'
        /\ Len(ledger') = Len(ledger) + 1 /\ Len(ledger) \in Nat
    BY <2>2, AppendFacts DEF Types, FilesOK
  <2>7. Len(ledger') <= MaxLedger
    BY <2>2, <2>6, RecoveryAssumption
  <2>8. FilesOK' /\ BootOK'
    BY <1>2, <2>6, <2>7 DEF Persist, work, Types, FilesOK, BootOK, BootType, Known
  <2> QED
    BY <2>5, <2>8 DEF Types
<1>3. ASSUME NEW p \in Procs, NEW k \in Keys, Run(c, p, k) \/ Replay(c, p, k)
      PROVE  Types'
  <2>1. PICK attempt \in 1..MaxAttempts : Begin(c, p, k, attempt)
    <3>1. CASE Run(c, p, k)
      <4>1. 1 \in 1..MaxAttempts
        BY RecoveryAssumption
      <4> QED
        BY <3>1, <4>1 DEF Run
    <3>2. CASE Replay(c, p, k)
      <4>1. PICK i \in Of(memory[p], k) : /\ memory[p][i].next = "retry"
                                          /\ Begin(c, p, k, memory[p][i].attempt + 1)
        BY <3>2 DEF Replay
      <4>2. memory[p][i] \in Good
        BY DEF Of, Types, CallsOK
      <4>3. memory[p][i].attempt + 1 \in 1..MaxAttempts
        BY <4>1, <4>2, RecoveryAssumption DEF Good, Receipts
      <4> QED
        BY <4>1, <4>3
    <3> QED
      BY <1>3, <3>1, <3>2
  <2>2. CallsOK'
    BY <2>1 DEF Begin, Types, CallsOK, CallRecords
  <2> QED
    BY <2>1, <2>2 DEF Begin, files, work, Types, BootOK, BootType, FilesOK, Known
<1> QED
  BY <1>1, <1>2, <1>3 DEF Execute

\* Types through crashes and expiring leases.
LEMMA FaultTypes ==
  ASSUME Types,
         StartupExpires \/ (\E k \in Keys : LeaseExpires(k)) \/ \E p \in Procs : Crash(p)
  PROVE  Types'
<1>1. CASE StartupExpires
  BY <1>1 DEF StartupExpires, files, work, Types, BootOK, BootType, FilesOK, CallsOK, Known
<1>2. ASSUME NEW k \in Keys, LeaseExpires(k) PROVE Types'
  BY <1>2 DEF LeaseExpires, files, work, Types, BootOK, BootType, FilesOK, CallsOK, Known
<1>3. ASSUME NEW p \in Procs, Crash(p) PROVE Types'
  <2>1. FilesOK' /\ Known' = Known /\ ledger' = ledger
    BY <1>3 DEF Crash, files, Types, FilesOK, Known
  <2>2. "down" \in Phases /\ "pick" \in Steps /\ <<>> \in Seq(Good)
    BY DEF Phases, Steps
  <2>3. CallsOK'
    BY <1>3, <2>2 DEF Crash, Types, CallsOK
  <2>4. BootType' /\ boot'[p].step = "pick" /\ \A q \in Procs \ {p} : boot'[q] = boot[q]
    BY <1>3, <2>2 DEF Crash, Types, BootOK, BootType
  <2>5. /\ pending' \in [Procs -> SUBSET Finalizations] /\ pending'[p] = {}
        /\ todo' \in [Procs -> SUBSET (1..MaxLedger)] /\ todo'[p] = {}
        /\ \A q \in Procs \ {p} : pending'[q] = pending[q] /\ todo'[q] = todo[q]
        /\ startup' \in {startup, Dead}
    BY <1>3 DEF Crash, Types, BootOK
  <2>6. BootOK'
    BY <2>1, <2>4, <2>5 DEF Types, BootOK
  <2> QED
    BY <2>1, <2>3, <2>6 DEF Types
<1> QED
  BY <1>1, <1>2, <1>3

\* Every step keeps the types: one case per group of actions.
LEMMA TypesStep == Types /\ [Next]_vars => Types'
<1>1. ASSUME Types, UNCHANGED vars PROVE Types'
  BY <1>1 DEF vars, Types, BootOK, BootType, FilesOK, CallsOK, Known
<1> QED
  BY <1>1, BootTypes, ReconcileTypes, RuntimeTypes, FaultTypes DEF Next, Recover

\* Every variable keeps its type: in particular no attempt beyond maxAttempts is made.
THEOREM TypeCorrect == Spec => []TypeOK
  BY TypesInit, TypesStep, TypesSuffice, PTL DEF Spec

-----------------------------------------------------------------------------
(* Recovery. The source of a finalization is a retryable record of the same attempt, and a
   journal entry or a commit only follows its target into the ledger. *)

Durable(receipts, f) ==
  f.source + 1 \in DOMAIN receipts /\ receipts[f.source + 1] = f.target

Backed(receipts, f) ==
  /\ f.source \in DOMAIN receipts
  /\ receipts[f.source].next = "retry" /\ receipts[f.source].key = f.target.key
  /\ receipts[f.source].attempt = f.target.attempt

RecoveryOK ==
  /\ \A f \in Known : Backed(ledger, f)
  /\ \A p \in Procs : boot[p].step \in {"journal", "commit"} => Durable(ledger, boot[p].fin)
  /\ \A f \in committed : Durable(ledger, f)

\* The ledger is only ever appended to.
LEMMA LedgerGrows ==
  ASSUME Types, [Next]_vars
  PROVE  ledger' = ledger \/ \E r \in Good : ledger' = Append(ledger, r)
<1>1. ASSUME NEW p \in Procs, AppendTarget(p)
      PROVE  ledger' = ledger \/ \E r \in Good : ledger' = Append(ledger, r)
  <2>1. boot[p].fin.target \in Good
    BY <1>1 DEF AppendTarget, Types, BootOK, FilesOK
  <2> QED
    BY <1>1, <2>1 DEF AppendTarget
<1>2. ASSUME NEW c \in Calls, Persist(c)
      PROVE  ledger' = ledger \/ \E r \in Good : ledger' = Append(ledger, r)
  <2>1. call[c] \in CallRecords
    BY <1>2, TypesSuffice, CallType DEF Persist, Executing
  <2>2. \A next \in Outcomes(call[c].attempt) :
          [key |-> call[c].key, attempt |-> call[c].attempt, next |-> next] \in Good
    BY <2>1 DEF CallRecords, Outcomes, Good, Receipts, NextActions, Terminal
  <2> QED
    BY <1>2, <2>2 DEF Persist
<1>3. ASSUME NEW p \in Procs, Recover(p), ~AppendTarget(p)
      PROVE  ledger' = ledger
  BY <1>3 DEF Recover, Boot, ReplayFinalization, Scan, RepairTerminalJournal, Prepare,
              RecordJournal, Commit, Recovered, Restore, Crash, files
<1>4. ASSUME NEW c \in Calls, Execute(c), ~Persist(c)
      PROVE  ledger' = ledger
  BY <1>4 DEF Execute, Run, Replay, Begin, Lose, files
<1>5. CASE UNCHANGED vars \/ StartupExpires \/ \E k \in Keys : LeaseExpires(k)
  BY <1>5 DEF vars, StartupExpires, LeaseExpires, files
<1> QED
  BY <1>1, <1>2, <1>3, <1>4, <1>5 DEF Next

\* What is in the ledger stays where it is.
LEMMA LedgerKeeps ==
  ASSUME Types, [Next]_vars
  PROVE  /\ \A i \in DOMAIN ledger : i \in DOMAIN ledger' /\ ledger'[i] = ledger[i]
         /\ \A f : Durable(ledger, f) => Durable(ledger', f)
         /\ \A f : Backed(ledger, f) => Backed(ledger', f)
<1>1. ledger \in Seq(Good)
  BY DEF Types, FilesOK
<1>2. \A i \in DOMAIN ledger : i \in DOMAIN ledger' /\ ledger'[i] = ledger[i]
  BY <1>1, LedgerGrows, AppendFacts
<1> QED
  BY <1>2 DEF Durable, Backed

\* A finalization goes on to the journal and to `committed' only with its target in the
\* ledger, and nothing takes a record back out of it.
LEMMA RecoveryStep ==
  ASSUME Types, RecoveryOK, [Next]_vars
  PROVE  RecoveryOK'
<1>1. ASSUME UNCHANGED <<boot, Known, committed>> PROVE RecoveryOK'
  BY <1>1, LedgerKeeps DEF RecoveryOK
<1>2. CASE UNCHANGED vars \/ StartupExpires \/ \E k \in Keys : LeaseExpires(k)
  BY <1>1, <1>2 DEF vars, StartupExpires, LeaseExpires, files, Known
<1>3. ASSUME NEW c \in Calls, Execute(c) PROVE RecoveryOK'
  BY <1>1, <1>3 DEF Execute, Run, Replay, Begin, Persist, Lose, files, Known
<1>4. ASSUME NEW p \in Procs, Recover(p) PROVE RecoveryOK'
  <2>1. Phases = {"down", "replay", "scan", "starting", "up"}
        /\ Steps = {"pick", "append", "journal", "commit"} /\ BootType
    BY DEF Phases, Steps, Types, BootOK
  \* A step of p that leaves the finalizations alone and does not finish an append.
  <2>2. ASSUME UNCHANGED <<Known, committed>>,
               \A q \in Procs \ {p} : boot'[q] = boot[q],
               boot'[p].step \in {"journal", "commit"} => Durable(ledger', boot'[p].fin)
        PROVE  RecoveryOK'
    BY <2>2, LedgerKeeps DEF RecoveryOK
  <2>3. CASE Boot(p) \/ Scan(p) \/ Recovered(p) \/ Restore(p)
    <3>1. boot'[p].step = "pick" /\ \A q \in Procs \ {p} : boot'[q] = boot[q]
      BY <2>1, <2>3, GotoMoves DEF Boot, Scan, Recovered, Restore
    <3>2. UNCHANGED <<Known, committed>>
      BY <2>3 DEF Boot, Scan, Recovered, Restore, files, Known
    <3> QED
      BY <2>2, <3>1, <3>2
  <2>4. CASE RepairTerminalJournal(p)
    BY <1>1, <2>4 DEF RepairTerminalJournal, Known
  <2>5. CASE Crash(p)
    <3>1. boot'[p].step = "pick" /\ \A q \in Procs \ {p} : boot'[q] = boot[q]
      BY <2>1, <2>5 DEF Crash, BootType
    <3> QED
      BY <2>2, <2>5, <3>1 DEF Crash, files, Known
  <2>6. CASE ReplayFinalization(p)
    <3>1. PICK f \in pending[p] :
            \/ /\ Durable(ledger, f)
               /\ boot' = [boot EXCEPT ![p].step = "journal", ![p].fin = f]
            \/ boot' = [boot EXCEPT ![p].step = "append", ![p].fin = f]
            \/ Fails(p)
      BY <2>6 DEF ReplayFinalization, Durable
    <3>2. f \in Finalizations /\ pending \in [Procs -> SUBSET Finalizations]
      BY DEF Types, BootOK
    <3>3. UNCHANGED <<Known, committed>> /\ ledger' = ledger
      BY <2>6 DEF ReplayFinalization, files, Known
    <3>4. CASE Fails(p)
      BY <2>1, <2>2, <3>2, <3>3, <3>4, FailsMoves
    <3>5. CASE ~Fails(p)
      <4>1. /\ boot'[p].fin = f /\ boot'[p].step \in {"journal", "append"}
            /\ \A q \in Procs \ {p} : boot'[q] = boot[q]
            /\ boot'[p].step = "journal" => Durable(ledger, f)
        BY <2>1, <3>1, <3>2, <3>5 DEF BootType
      <4> QED
        BY <2>2, <3>3, <4>1
    <3> QED
      BY <3>4, <3>5
  <2>7. CASE Prepare(p)
    <3>1. UNCHANGED <<ledger, committed>>
      BY <2>7 DEF Prepare
    <3>2. PICK i \in todo[p] :
            /\ ledger[i].next = "retry"
            /\ \/ \E next \in NextActions :
                    LET f == [source |-> i, target |-> [ledger[i] EXCEPT !.next = next]]
                    IN /\ prepared' = prepared \union ({f} \ committed)
                       /\ boot' = [boot EXCEPT ![p].step = "append", ![p].fin = f]
               \/ UNCHANGED <<prepared, boot>>
      BY <2>7 DEF Prepare
    <3>3. i \in DOMAIN ledger /\ ledger[i] \in Good /\ i \in 1..MaxLedger
      BY DEF Types, BootOK, FilesOK
    <3>4. CASE UNCHANGED <<prepared, boot>>
      BY <1>1, <3>1, <3>4 DEF Known
    <3>5. CASE ~UNCHANGED <<prepared, boot>>
      <4>1. PICK f \in Finalizations :
              /\ Backed(ledger, f)
              /\ prepared' = prepared \union ({f} \ committed)
              /\ boot' = [boot EXCEPT ![p].step = "append", ![p].fin = f]
        <5>1. \A next \in NextActions :
                /\ [source |-> i, target |-> [ledger[i] EXCEPT !.next = next]] \in Finalizations
                /\ Backed(ledger, [source |-> i, target |-> [ledger[i] EXCEPT !.next = next]])
          BY <3>2, <3>3, Observed DEF Finalizations, Good, Backed
        <5> QED
          BY <3>2, <3>5, <5>1
      <4>2. Known' = Known \union {f}
        BY <3>1, <4>1 DEF Known
      <4>3. boot'[p].step = "append" /\ \A q \in Procs \ {p} : boot'[q] = boot[q]
        BY <2>1, <4>1 DEF BootType
      <4> QED
        BY <3>1, <4>1, <4>2, <4>3, LedgerKeeps DEF RecoveryOK
    <3> QED
      BY <3>4, <3>5
  <2>8. CASE AppendTarget(p) \/ RecordJournal(p) \/ Commit(p)
    <3>1. pending \in [Procs -> SUBSET Finalizations]
      BY DEF Types, BootOK
    <3>2. /\ boot[p].fin \in Known /\ boot[p].fin.target \in Good
          /\ boot[p].phase \in Phases /\ ledger \in Seq(Good)
      BY <2>1, <2>8 DEF AppendTarget, RecordJournal, Commit, Types, BootOK, FilesOK
    <3>3. CASE Fails(p) /\ UNCHANGED <<Known, committed>>
      BY <2>1, <2>2, <3>1, <3>3, FailsMoves
    <3>4. CASE AppendTarget(p) /\ ~Fails(p)
      <4>1. /\ boot[p].fin.source = Len(ledger)
            /\ ledger' = Append(ledger, boot[p].fin.target)
            /\ Goto(p, boot[p].phase, "journal")
        BY <3>4 DEF AppendTarget
      <4>2. /\ boot'[p].fin = boot[p].fin
            /\ \A q \in Procs \ {p} : boot'[q] = boot[q]
        BY <2>1, <3>2, <4>1, GotoMoves
      <4>3. Durable(ledger', boot'[p].fin)
        BY <3>2, <4>1, <4>2, AppendFacts DEF Durable
      <4> QED
        BY <2>2, <3>4, <4>2, <4>3 DEF AppendTarget, Known
    <3>5. CASE RecordJournal(p) /\ ~Fails(p)
      <4>1. /\ boot'[p].fin = boot[p].fin
            /\ \A q \in Procs \ {p} : boot'[q] = boot[q]
        BY <2>1, <3>2, <3>5, GotoMoves DEF RecordJournal
      <4>2. Durable(ledger', boot[p].fin)
        BY <3>5, LedgerKeeps DEF RecordJournal, RecoveryOK
      <4> QED
        BY <2>2, <3>5, <4>1, <4>2 DEF RecordJournal, Known
    <3>6. CASE /\ Commit(p) /\ Goto(p, boot[p].phase, "pick")
               /\ prepared' = prepared \ {boot[p].fin}
               /\ committed' = committed \union {boot[p].fin}
      <4>1. /\ boot'[p].step = "pick"
            /\ \A q \in Procs \ {p} : boot'[q] = boot[q]
        BY <2>1, <3>2, <3>6, GotoMoves
      <4>2. Durable(ledger, boot[p].fin)
        BY <3>6 DEF Commit, RecoveryOK
      <4>3. committed' = committed \union {boot[p].fin} /\ Known' = Known
        BY <3>2, <3>6 DEF Commit, Known
      <4> QED
        BY <4>1, <4>2, <4>3, LedgerKeeps DEF RecoveryOK
    <3> QED
      BY <2>8, <3>3, <3>4, <3>5, <3>6 DEF AppendTarget, RecordJournal, Commit, Known
  <2> QED
    BY <1>4, <2>3, <2>4, <2>5, <2>6, <2>7, <2>8 DEF Recover
<1> QED
  BY <1>2, <1>3, <1>4 DEF Next

\* There are no finalizations yet.
LEMMA RecoveryInit == Init => RecoveryOK
  BY DEF Init, RecoveryOK, Known

\* What the finalization at hand, the prepared and the committed ones say about the
\* ledger holds in every state: append, journal entry and commit are made in this order
\* (ReconciliationRuntime.finalize), whoever dies between them.
THEOREM RecoveryInvariant == Spec => [](Types /\ RecoveryOK)
  BY TypesInit, TypesStep, RecoveryInit, RecoveryStep, PTL DEF Spec

\* The target of every committed finalization is in the ledger, after any crash between
\* its append, its journal entry and its commit.
THEOREM CommittedIsDurableHolds == Spec => []CommittedIsDurable
<1>1. RecoveryOK => CommittedIsDurable
  BY DEF RecoveryOK, CommittedIsDurable, Durable
<1> QED
  BY <1>1, RecoveryInvariant, PTL

-----------------------------------------------------------------------------
(* Execution. A call holds the lease of its key, and its process remembers no terminal
   receipt of the key; since an append needs an up-to-date memory, the ledger has none. *)

Open(receipts, k) == \A i \in Of(receipts, k) : receipts[i].next = "retry"

CallOK(c) ==
  /\ boot[call[c].proc].phase = "up"
  /\ lease[call[c].key] = c
  /\ Open(memory[call[c].proc], call[c].key)

RuntimeOK ==
  /\ MemoryIsPrefix
  /\ TerminalIsFinal
  /\ \A c \in Calls : Executing(c) => CallOK(c)

\* A prefix of a ledger in which nothing follows a terminal receipt is open for a key as
\* soon as the latest of the key's records says `retry'.
LEMMA OpenIfLatestRetries ==
  ASSUME Types, RuntimeOK, NEW p \in Procs, NEW k \in Keys,
         NEW i \in Of(memory[p], k), IsLatest(memory[p], i), memory[p][i].next = "retry"
  PROVE  Open(memory[p], k)
<1>1. /\ memory[p] \in Seq(Good) /\ ledger \in Seq(Good)
      /\ Len(memory[p]) <= Len(ledger)
      /\ \A j \in DOMAIN memory[p] : memory[p][j] = ledger[j]
  BY DEF Types, CallsOK, FilesOK, RuntimeOK, MemoryIsPrefix, IsPrefixOf
<1>2. DOMAIN memory[p] \subseteq DOMAIN ledger
  BY <1>1
<1>3. ASSUME NEW j \in Of(memory[p], k)
      PROVE  memory[p][j].next = "retry"
  <2>1. j \in Nat /\ i \in Nat /\ j <= i
    BY <1>1 DEF Of, IsLatest
  <2>2. CASE j = i
    BY <2>2
  <2>3. CASE j < i
    BY <1>1, <1>2, <2>3 DEF Of, RuntimeOK, TerminalIsFinal
  <2> QED
    BY <2>1, <2>2, <2>3
<1> QED
  BY <1>3 DEF Open

\* Appending a receipt of an open key keeps terminal receipts last.
LEMMA FinalIfOpen ==
  ASSUME ledger \in Seq(Good), TerminalIsFinal, NEW r \in Good, Open(ledger, r.key),
         ledger' = Append(ledger, r)
  PROVE  TerminalIsFinal'
<1>1. ASSUME NEW i \in DOMAIN ledger', NEW j \in DOMAIN ledger',
             i < j, ledger'[i].key = ledger'[j].key
      PROVE  ledger'[i].next = "retry"
  <2>1. i \in DOMAIN ledger
    BY <1>1, AppendFacts
  <2>2. CASE j \in DOMAIN ledger
    BY <1>1, <2>1, <2>2, AppendFacts DEF TerminalIsFinal
  <2>3. CASE j = Len(ledger) + 1
    BY <1>1, <2>1, <2>3, AppendFacts DEF Open, Of
  <2> QED
    BY <2>2, <2>3, AppendFacts
<1> QED
  BY <1>1 DEF TerminalIsFinal

\* What a call that executes appends when it succeeds.
LEMMA PersistFacts ==
  ASSUME Types, RuntimeOK, NEW c \in Calls, Persist(c)
  PROVE  /\ call[c] \in CallRecords /\ CallOK(c)
         /\ memory[call[c].proc] = ledger
         /\ \E r \in Good :
              /\ r.key = call[c].key
              /\ ledger' = Append(ledger, r)
              /\ memory' \in {memory, [memory EXCEPT ![call[c].proc] = Append(@, r)]}
<1>1. call[c] \in CallRecords /\ CallOK(c)
  BY TypesSuffice, CallType DEF Persist, Executing, RuntimeOK
<1>2. \A next \in Outcomes(call[c].attempt) :
        LET r == [key |-> call[c].key, attempt |-> call[c].attempt, next |-> next]
        IN r \in Good /\ r.key = call[c].key
  BY <1>1 DEF CallRecords, Outcomes, Good, Receipts, NextActions, Terminal
<1>3. memory[call[c].proc] = ledger
  <2>1. /\ memory[call[c].proc] \in Seq(Good) /\ ledger \in Seq(Good)
        /\ IsPrefixOf(memory[call[c].proc], ledger)
    BY <1>1 DEF CallRecords, Types, CallsOK, FilesOK, RuntimeOK, MemoryIsPrefix
  <2>2. Len(memory[call[c].proc]) = Len(ledger)
    BY DEF Persist
  <2> QED
    BY <2>1, <2>2, WholePrefix
<1> QED
  BY <1>1, <1>2, <1>3 DEF Persist

\* Restore copies the whole ledger, Persist appends the same record to both, and every
\* other append only lengthens the ledger.
LEMMA PrefixStep ==
  ASSUME Types, RuntimeOK, [Next]_vars
  PROVE  MemoryIsPrefix'
<1>1. /\ ledger \in Seq(Good) /\ \A p \in Procs : memory[p] \in Seq(Good)
      /\ \A p \in Procs : IsPrefixOf(memory[p], ledger)
  BY DEF Types, FilesOK, CallsOK, RuntimeOK, MemoryIsPrefix
<1>2. \A p \in Procs : IsPrefixOf(memory[p], ledger')
  BY <1>1, LedgerGrows, PrefixGrows
<1>3. ASSUME UNCHANGED memory PROVE MemoryIsPrefix'
  BY <1>2, <1>3 DEF MemoryIsPrefix
<1>4. ASSUME NEW p \in Procs, Restore(p) PROVE MemoryIsPrefix'
  <2>1. IsPrefixOf(ledger, ledger')
    BY <1>1, <1>4 DEF Restore, files, IsPrefixOf
  <2>2. \A q \in Procs : memory'[q] \in {memory[q], ledger}
    BY <1>4 DEF Restore, Types, CallsOK
  <2> QED
    BY <1>2, <2>1, <2>2 DEF MemoryIsPrefix
<1>5. ASSUME NEW p \in Procs, Crash(p) PROVE MemoryIsPrefix'
  <2>1. IsPrefixOf(<<>>, ledger')
    BY <1>1, <1>5 DEF Crash, files, IsPrefixOf
  <2>2. \A q \in Procs : memory'[q] \in {memory[q], <<>>}
    BY <1>5 DEF Crash, Types, CallsOK
  <2> QED
    BY <1>2, <2>1, <2>2 DEF MemoryIsPrefix
<1>6. ASSUME NEW c \in Calls, Persist(c) PROVE MemoryIsPrefix'
  <2>1. PICK r \in Good :
          /\ ledger' = Append(ledger, r)
          /\ memory' \in {memory, [memory EXCEPT ![call[c].proc] = Append(@, r)]}
    BY <1>6, PersistFacts
  <2>2. \A q \in Procs : memory'[q] \in {memory[q], ledger'}
    BY <1>6, <2>1, PersistFacts DEF CallRecords, Types, CallsOK
  <2>3. ledger' \in Seq(Good)
    BY <1>1, <2>1, AppendFacts
  <2>4. IsPrefixOf(ledger', ledger')
    BY <2>3 DEF IsPrefixOf
  <2> QED
    BY <1>2, <2>2, <2>4 DEF MemoryIsPrefix
<1>7. CASE UNCHANGED vars \/ StartupExpires \/ \E k \in Keys : LeaseExpires(k)
  BY <1>3, <1>7 DEF vars, StartupExpires, LeaseExpires
<1>8. ASSUME NEW p \in Procs, Recover(p), ~Restore(p), ~Crash(p) PROVE MemoryIsPrefix'
  BY <1>3, <1>8 DEF Recover, Boot, ReplayFinalization, Scan, RepairTerminalJournal,
     Prepare, AppendTarget, RecordJournal, Commit, Recovered
<1>9. ASSUME NEW c \in Calls, Execute(c), ~Persist(c) PROVE MemoryIsPrefix'
  BY <1>3, <1>9 DEF Execute, Run, Replay, Begin, Lose
<1> QED
  BY <1>4, <1>5, <1>6, <1>7, <1>8, <1>9 DEF Next

\* An append follows the ledger's last record: a runtime that is up to date has seen the
\* latest receipt of its key, and a finalization's source is the last record itself.
LEMMA FinalStep ==
  ASSUME Types, RecoveryOK, RuntimeOK, [Next]_vars
  PROVE  TerminalIsFinal'
<1>1. ASSUME ledger' = ledger PROVE TerminalIsFinal'
  BY <1>1 DEF RuntimeOK, TerminalIsFinal
<1>2. ASSUME NEW p \in Procs, AppendTarget(p), ledger' # ledger PROVE TerminalIsFinal'
  <2>1. /\ boot[p].fin \in Known /\ boot[p].fin.target \in Good
        /\ boot[p].fin.source = Len(ledger)
        /\ ledger' = Append(ledger, boot[p].fin.target) /\ ledger \in Seq(Good)
    BY <1>2 DEF AppendTarget, Types, BootOK, FilesOK
  <2>2. /\ Len(ledger) \in DOMAIN ledger /\ ledger[Len(ledger)].next = "retry"
        /\ ledger[Len(ledger)].key = boot[p].fin.target.key
    BY <2>1 DEF RecoveryOK, Backed
  <2>3. Open(ledger, boot[p].fin.target.key)
    <3>1. \A i \in DOMAIN ledger : i = Len(ledger) \/ i < Len(ledger)
      BY <2>1
    <3> QED
      BY <2>2, <3>1 DEF Open, Of, RuntimeOK, TerminalIsFinal
  <2> QED
    BY <2>1, <2>3, FinalIfOpen DEF RuntimeOK
<1>3. ASSUME NEW c \in Calls, Persist(c) PROVE TerminalIsFinal'
  <2>1. PICK r \in Good : r.key = call[c].key /\ ledger' = Append(ledger, r)
    BY <1>3, PersistFacts
  <2>2. Open(ledger, r.key)
    BY <1>3, <2>1, PersistFacts DEF CallOK
  <2>3. ledger \in Seq(Good) /\ TerminalIsFinal
    BY DEF Types, FilesOK, RuntimeOK
  <2> QED
    BY <2>1, <2>2, <2>3, FinalIfOpen
<1>4. ASSUME NEW p \in Procs, Recover(p), ~AppendTarget(p) PROVE TerminalIsFinal'
  BY <1>1, <1>4 DEF Recover, Boot, ReplayFinalization, Scan, RepairTerminalJournal, Prepare,
                    RecordJournal, Commit, Recovered, Restore, Crash, files
<1>5. ASSUME NEW c \in Calls, Execute(c), ~Persist(c) PROVE TerminalIsFinal'
  BY <1>1, <1>5 DEF Execute, Run, Replay, Begin, Lose, files
<1>6. CASE UNCHANGED vars \/ StartupExpires \/ \E k \in Keys : LeaseExpires(k)
  BY <1>1, <1>6 DEF vars, StartupExpires, LeaseExpires, files
<1> QED
  BY <1>1, <1>2, <1>3, <1>4, <1>5, <1>6 DEF Next

\* Two calls under way are about two keys.
LEMMA KeysDiffer ==
  ASSUME RuntimeOK, NEW c \in Calls, NEW d \in Calls, c # d, Executing(c), Executing(d)
  PROVE  call[c].key # call[d].key
  BY DEF RuntimeOK, CallOK

\* A call keeps the lease of its key until it ends, and a runtime that is not behind still
\* finds the key open.
LEMMA CallsStep ==
  ASSUME Types, RuntimeOK, [Next]_vars
  PROVE  \A c \in Calls : Executing(c)' => CallOK(c)'
<1>1. \A c \in Calls : Executing(c) =>
        /\ call[c].proc \in Procs /\ call[c].key \in Keys
        /\ call[c] # Idle /\ CallOK(c)
  BY TypesSuffice, CallType DEF RuntimeOK, CallRecords, Executing, Idle
<1>2. \A c \in Calls : c # Free /\ c # Dead
  BY RecoveryAssumption
<1>3. BootType /\ Phases = {"down", "replay", "scan", "starting", "up"}
      /\ Steps = {"pick", "append", "journal", "commit"}
  BY DEF Types, BootOK, Phases, Steps
<1>4. ASSUME UNCHANGED <<call, lease, memory>>,
             \A q \in Procs : boot[q].phase = "up" => boot'[q].phase = "up"
      PROVE  \A c \in Calls : Executing(c)' => CallOK(c)'
  BY <1>1, <1>4 DEF Executing, CallOK
<1>5. CASE UNCHANGED vars \/ StartupExpires
  BY <1>4, <1>5 DEF vars, StartupExpires
<1>6. ASSUME NEW k \in Keys, LeaseExpires(k)
      PROVE  \A c \in Calls : Executing(c)' => CallOK(c)'
  <2>1. \A c \in Calls : lease[call[c].key] = c /\ call[c].key \in Keys =>
          lease'[call[c].key] = c
    BY <1>2, <1>6 DEF LeaseExpires, Types, CallsOK
  <2> QED
    BY <1>1, <1>6, <2>1 DEF LeaseExpires, Executing, CallOK
<1>7. ASSUME NEW p \in Procs, Recover(p), ~Restore(p), ~Crash(p)
      PROVE  \A c \in Calls : Executing(c)' => CallOK(c)'
  <2>1. UNCHANGED <<call, lease, memory>>
    BY <1>7 DEF Recover, Boot, ReplayFinalization, Scan, RepairTerminalJournal,
       Prepare, AppendTarget, RecordJournal, Commit, Recovered
  <2>2. boot[p].phase # "up" \/ UNCHANGED boot
    BY <1>7 DEF Recover, Boot, ReplayFinalization, Scan, RepairTerminalJournal, Prepare,
       AppendTarget, RecordJournal, Commit, Recovered, In, Types, BootOK
  <2>3. \A q \in Procs \ {p} : boot'[q] = boot[q]
    BY <1>3, <1>7 DEF Recover, Boot, ReplayFinalization, Scan, RepairTerminalJournal,
       Prepare, AppendTarget, RecordJournal, Commit, Recovered, Fails, Goto, BootType
  <2> QED
    BY <1>4, <2>1, <2>2, <2>3
<1>8. ASSUME NEW p \in Procs, Restore(p)
      PROVE  \A c \in Calls : Executing(c)' => CallOK(c)'
  <2>1. /\ boot[p].phase = "starting" /\ UNCHANGED <<call, lease>>
        /\ \A q \in Procs \ {p} : boot'[q] = boot[q] /\ memory'[q] = memory[q]
    BY <1>3, <1>8, GotoMoves DEF Restore, Types, CallsOK
  <2>2. \A c \in Calls : Executing(c) => call[c].proc # p
    BY <1>1, <2>1 DEF CallOK
  <2> QED
    BY <1>1, <2>1, <2>2 DEF Executing, CallOK
<1>9. ASSUME NEW p \in Procs, Crash(p)
      PROVE  \A c \in Calls : Executing(c)' => CallOK(c)'
  <2>1. \A c \in Calls : Executing(c)' =>
          Executing(c) /\ call[c].proc # p /\ call'[c] = call[c]
    BY <1>9 DEF Crash, Executing, Idle
  <2>2. \A q \in Procs \ {p} : boot'[q] = boot[q] /\ memory'[q] = memory[q]
    BY <1>3, <1>9 DEF Crash, Types, CallsOK, BootType
  <2>3. \A c \in Calls : Executing(c) /\ call[c].proc # p =>
          lease'[call[c].key] = lease[call[c].key]
    BY <1>1, <1>9 DEF Crash, CallOK
  <2> QED
    BY <1>1, <2>1, <2>2, <2>3 DEF CallOK
<1>10. ASSUME NEW c \in Calls, Lose(c) \/ Persist(c)
       PROVE  \A d \in Calls : Executing(d)' => CallOK(d)'
  <2>1. Executing(c) /\ End(c) /\ UNCHANGED boot
    BY <1>10 DEF Lose, Persist, Executing
  <2>2. \A d \in Calls : Executing(d)' => d # c /\ Executing(d) /\ call'[d] = call[d]
    BY <2>1 DEF End, Executing, Idle, Types, CallsOK
  <2>3. ASSUME NEW d \in Calls, Executing(d), d # c
        PROVE  lease'[call[d].key] = d
    BY <1>1, <2>1, <2>3, KeysDiffer DEF End, CallOK, Types, CallsOK
  <2>4. ASSUME NEW d \in Calls, Executing(d), d # c
        PROVE  Open(memory'[call[d].proc], call[d].key)
    <3>1. CASE Lose(c)
      BY <1>1, <2>4, <3>1 DEF Lose, CallOK
    <3>2. CASE Persist(c)
      <4>1. PICK r \in Good :
              /\ r.key = call[c].key
              /\ memory' \in {memory, [memory EXCEPT ![call[c].proc] = Append(@, r)]}
        BY <3>2, PersistFacts
      <4>2. /\ call[d].proc \in Procs /\ call[c].proc \in Procs
            /\ memory[call[d].proc] \in Seq(Good) /\ Open(memory[call[d].proc], call[d].key)
            /\ r.key # call[d].key
        BY <1>1, <2>1, <2>4, <4>1, KeysDiffer DEF CallOK, Types, CallsOK
      <4>3. Open(Append(memory[call[d].proc], r), call[d].key)
        BY <4>2, AppendFacts DEF Open, Of
      <4>4. memory'[call[d].proc] \in
              {memory[call[d].proc], Append(memory[call[d].proc], r)}
        BY <4>1, <4>2 DEF Types, CallsOK
      <4> QED
        BY <4>2, <4>3, <4>4
    <3> QED
      BY <1>10, <3>1, <3>2
  <2> QED
    BY <1>1, <2>1, <2>2, <2>3, <2>4 DEF CallOK
<1>11. ASSUME NEW c \in Calls, NEW p \in Procs, NEW k \in Keys, NEW attempt,
              Open(memory[p], k), Begin(c, p, k, attempt)
       PROVE  \A d \in Calls : Executing(d)' => CallOK(d)'
  <2>1. /\ boot[p].phase = "up" /\ lease[k] = Free /\ UNCHANGED <<boot, memory>>
        /\ lease'[k] = c /\ \A j \in Keys \ {k} : lease'[j] = lease[j]
        /\ call'[c].proc = p /\ call'[c].key = k
        /\ \A d \in Calls \ {c} : call'[d] = call[d]
    BY <1>11 DEF Begin, Types, CallsOK
  <2>2. \A d \in Calls : Executing(d) => call[d].key # k
    BY <1>1, <1>2, <2>1 DEF CallOK
  <2> QED
    BY <1>1, <1>11, <2>1, <2>2 DEF Executing, CallOK
<1>12. ASSUME NEW c \in Calls, NEW p \in Procs, NEW k \in Keys, Run(c, p, k)
       PROVE  \A d \in Calls : Executing(d)' => CallOK(d)'
  BY <1>11, <1>12 DEF Run, Open
<1>13. ASSUME NEW c \in Calls, NEW p \in Procs, NEW k \in Keys, Replay(c, p, k)
       PROVE  \A d \in Calls : Executing(d)' => CallOK(d)'
  BY <1>11, <1>13, OpenIfLatestRetries DEF Replay
<1> QED
  BY <1>5, <1>6, <1>7, <1>8, <1>9, <1>10, <1>12, <1>13 DEF Next, Execute

\* No runtime, no call and no record yet.
LEMMA RuntimeInit == Init => RuntimeOK
  BY DEF Init, RuntimeOK, MemoryIsPrefix, IsPrefixOf, TerminalIsFinal, Executing, Idle

\* The three parts of RuntimeOK together.
LEMMA RuntimeStep ==
  ASSUME Types, RecoveryOK, RuntimeOK, [Next]_vars
  PROVE  RuntimeOK'
  BY PrefixStep, FinalStep, CallsStep DEF RuntimeOK

\* The inductive invariant: what recovery has under way is backed by the ledger, memories
\* are prefixes of it, and calls under way are about keys their process takes for open.
THEOREM Invariance == Spec => [](Types /\ RecoveryOK /\ RuntimeOK)
  BY TypesInit, TypesStep, RecoveryInit, RecoveryStep, RuntimeInit, RuntimeStep, PTL DEF Spec

\* Every runtime works on a beginning of the durable ledger.
THEOREM MemoryIsPrefixHolds == Spec => []MemoryIsPrefix
<1>1. RuntimeOK => MemoryIsPrefix
  BY DEF RuntimeOK
<1> QED
  BY <1>1, Invariance, PTL

\* Nothing follows the terminal receipt of a key, whatever is replayed, observed, lost or
\* crashes meanwhile.
THEOREM TerminalIsFinalHolds == Spec => []TerminalIsFinal
<1>1. RuntimeOK => TerminalIsFinal
  BY DEF RuntimeOK
<1> QED
  BY <1>1, Invariance, PTL

-----------------------------------------------------------------------------
(* The attempts. A record follows the earlier ones of its key as AttemptsInOrder asks; a
   call under way is the next attempt in the memory of its process. *)

Follows(receipts, fins, j) ==
  /\ \A i \in Of(receipts, receipts[j].key) : i < j =>
       \/ receipts[i].attempt < receipts[j].attempt
       \/ /\ receipts[i].attempt = receipts[j].attempt
          /\ \E f \in fins : f.source + 1 = j /\ f.target = receipts[j]
  /\ receipts[j].attempt > 1 =>
       \E i \in Of(receipts, receipts[j].key) :
         i < j /\ receipts[i].attempt = receipts[j].attempt - 1

\* attempt comes next after the attempts of k among receipts.
IsNextAttempt(receipts, k, attempt) ==
  /\ \A i \in Of(receipts, k) : receipts[i].attempt < attempt
  /\ attempt > 1 => \E i \in Of(receipts, k) : receipts[i].attempt = attempt - 1

CallsAttempt ==
  \A c \in Calls : Executing(c) =>
    IsNextAttempt(memory[call[c].proc], call[c].key, call[c].attempt)

\* A finalization is never forgotten: it is prepared, then committed.
LEMMA KnownGrows ==
  ASSUME [Next]_vars
  PROVE  Known \subseteq Known'
<1>1. ASSUME NEW p \in Procs, Prepare(p) \/ Commit(p) PROVE Known \subseteq Known'
  BY <1>1 DEF Prepare, Commit, Known
<1>2. ASSUME NEW p \in Procs, Recover(p), ~Prepare(p), ~Commit(p)
      PROVE  UNCHANGED <<prepared, committed>>
  BY <1>2 DEF Recover, Boot, ReplayFinalization, Scan, RepairTerminalJournal,
     AppendTarget, RecordJournal, Recovered, Restore, Crash, files
<1>3. ASSUME NEW c \in Calls, Execute(c) PROVE UNCHANGED <<prepared, committed>>
  BY <1>3 DEF Execute, Run, Replay, Begin, Persist, Lose, files
<1>4. CASE UNCHANGED vars \/ StartupExpires \/ \E k \in Keys : LeaseExpires(k)
  BY <1>4 DEF vars, StartupExpires, LeaseExpires, files, Known
<1> QED
  BY <1>1, <1>2, <1>3, <1>4 DEF Next, Known

\* What a record follows does not change once it is in the ledger.
LEMMA FollowsStays ==
  ASSUME Types, [Next]_vars, NEW j \in DOMAIN ledger, Follows(ledger, Known, j)
  PROVE  Follows(ledger', Known', j)
<1>1. ledger \in Seq(Good) /\ Len(ledger) \in Nat /\ DOMAIN ledger = 1..Len(ledger)
  BY DEF Types, FilesOK
<1>2. /\ \A i \in DOMAIN ledger : i \in DOMAIN ledger' /\ ledger'[i] = ledger[i]
      /\ \A i \in DOMAIN ledger' : i < j => i \in DOMAIN ledger
  <2>1. CASE ledger' = ledger
    BY <2>1
  <2>2. ASSUME NEW r \in Good, ledger' = Append(ledger, r)
        PROVE  /\ \A i \in DOMAIN ledger : i \in DOMAIN ledger' /\ ledger'[i] = ledger[i]
               /\ \A i \in DOMAIN ledger' : i < j => i \in DOMAIN ledger
    BY <1>1, <2>2, AppendFacts
  <2> QED
    BY <2>1, <2>2, LedgerGrows
<1>3. Known \subseteq Known'
  BY KnownGrows
<1> QED
  BY <1>2, <1>3 DEF Follows, Of

\* The target of a finalization repeats the attempt of the ledger's last record; the
\* receipt of a call carries the next attempt of its key.
LEMMA OrderStep ==
  ASSUME Types, RecoveryOK, RuntimeOK, AttemptsInOrder, CallsAttempt, [Next]_vars
  PROVE  AttemptsInOrder'
<1>1. \A j \in DOMAIN ledger : Follows(ledger, Known, j)
  BY DEF AttemptsInOrder, Follows, Known
<1>2. \A j \in DOMAIN ledger : Follows(ledger', Known', j)
  BY <1>1, FollowsStays
<1>3. ASSUME NEW r \in Good, ledger' = Append(ledger, r),
             Follows(ledger', Known', Len(ledger) + 1)
      PROVE  AttemptsInOrder'
  <2>1. DOMAIN ledger' = DOMAIN ledger \union {Len(ledger) + 1}
    BY <1>3, AppendFacts DEF Types, FilesOK
  <2>2. \A j \in DOMAIN ledger' : Follows(ledger', Known', j)
    BY <1>2, <1>3, <2>1
  <2> QED
    BY <2>2 DEF AttemptsInOrder, Follows, Known
<1>4. ASSUME ledger' = ledger PROVE AttemptsInOrder'
  BY <1>2, <1>4 DEF AttemptsInOrder, Follows, Known
<1>5. ASSUME NEW p \in Procs, AppendTarget(p), ledger' # ledger PROVE AttemptsInOrder'
  <2> DEFINE f == boot[p].fin
             n == Len(ledger)
  <2>1. /\ f \in Known /\ f.target \in Good /\ f.source = n
        /\ ledger' = Append(ledger, f.target) /\ ledger \in Seq(Good)
    BY <1>5 DEF AppendTarget, Types, BootOK, FilesOK
  <2>2. /\ n \in DOMAIN ledger /\ ledger[n].key = f.target.key
        /\ ledger[n].attempt = f.target.attempt /\ f.target.attempt \in Nat
    BY <2>1 DEF RecoveryOK, Backed, Good, Receipts
  <2>3. /\ \A i \in DOMAIN ledger : ledger'[i] = ledger[i] /\ i < n + 1 /\ (i = n \/ i < n)
        /\ ledger'[n + 1] = f.target /\ DOMAIN ledger' = DOMAIN ledger \union {n + 1}
        /\ n \in Nat
    BY <2>1, AppendFacts
  <2>4. f \in Known'
    BY <2>1, KnownGrows
  <2>5. ASSUME NEW i \in Of(ledger', f.target.key), i < n + 1
        PROVE  \/ ledger'[i].attempt < f.target.attempt
               \/ ledger'[i].attempt = f.target.attempt
    <3>1. i \in Of(ledger, ledger[n].key) /\ ledger'[i] = ledger[i]
      BY <2>2, <2>3, <2>5 DEF Of
    <3>2. CASE i = n
      BY <2>2, <3>1, <3>2
    <3>3. CASE i < n
      BY <1>1, <2>2, <3>1, <3>3 DEF Follows
    <3> QED
      BY <2>3, <3>1, <3>2, <3>3 DEF Of
  <2>6. ASSUME f.target.attempt > 1
        PROVE  \E i \in Of(ledger', f.target.key) :
                 i < n + 1 /\ ledger'[i].attempt = f.target.attempt - 1
    <3>1. PICK i \in Of(ledger, ledger[n].key) : ledger[i].attempt = ledger[n].attempt - 1
      BY <1>1, <2>2, <2>6 DEF Follows
    <3> QED
      BY <2>2, <2>3, <3>1 DEF Of
  <2>7. Follows(ledger', Known', n + 1)
    BY <2>1, <2>3, <2>4, <2>5, <2>6 DEF Follows
  <2> QED
    BY <1>3, <2>1, <2>7
<1>6. ASSUME NEW c \in Calls, Persist(c) PROVE AttemptsInOrder'
  <2> DEFINE n == Len(ledger)
  <2>1. /\ call[c] \in CallRecords /\ memory[call[c].proc] = ledger
        /\ IsNextAttempt(ledger, call[c].key, call[c].attempt)
    BY <1>6, PersistFacts DEF Persist, Executing, CallsAttempt
  <2>2. PICK next \in Outcomes(call[c].attempt) :
          ledger' = Append(ledger,
            [key |-> call[c].key, attempt |-> call[c].attempt, next |-> next])
    BY <1>6 DEF Persist
  <2> DEFINE r == [key |-> call[c].key, attempt |-> call[c].attempt, next |-> next]
  <2>3. r \in Good /\ r.key = call[c].key /\ r.attempt = call[c].attempt
    BY <2>1, <2>2 DEF CallRecords, Outcomes, Good, Receipts, NextActions, Terminal
  <2>4. /\ \A i \in DOMAIN ledger : ledger'[i] = ledger[i] /\ i < n + 1
        /\ ledger'[n + 1] = r /\ DOMAIN ledger' = DOMAIN ledger \union {n + 1}
        /\ n \in Nat
    BY <2>2, <2>3, AppendFacts DEF Types, FilesOK
  <2>5. \A i \in Of(ledger', r.key) : i < n + 1 =>
          i \in Of(ledger, r.key) /\ ledger'[i] = ledger[i]
    BY <2>4 DEF Of
  <2>6. \A i \in Of(ledger, r.key) :
          i \in Of(ledger', r.key) /\ ledger'[i] = ledger[i] /\ i < n + 1
    BY <2>4 DEF Of
  <2>7. Follows(ledger', Known', n + 1)
    BY <2>1, <2>3, <2>4, <2>5, <2>6 DEF Follows, IsNextAttempt
  <2> QED
    BY <1>3, <2>2, <2>3, <2>7
<1>7. ASSUME NEW p \in Procs, Recover(p), ~AppendTarget(p) PROVE AttemptsInOrder'
  BY <1>4, <1>7 DEF Recover, Boot, ReplayFinalization, Scan, RepairTerminalJournal, Prepare,
                    RecordJournal, Commit, Recovered, Restore, Crash, files
<1>8. ASSUME NEW c \in Calls, Execute(c), ~Persist(c) PROVE AttemptsInOrder'
  BY <1>4, <1>8 DEF Execute, Run, Replay, Begin, Lose, files
<1>9. CASE UNCHANGED vars \/ StartupExpires \/ \E k \in Keys : LeaseExpires(k)
  BY <1>4, <1>9 DEF vars, StartupExpires, LeaseExpires, files
<1> QED
  BY <1>4, <1>5, <1>6, <1>7, <1>8, <1>9 DEF Next

\* In the memory of a process too the latest receipt of a key has its highest attempt, so
\* the attempt after it is the next one.
LEMMA ReplayIsNext ==
  ASSUME Types, RuntimeOK, AttemptsInOrder, NEW p \in Procs, NEW k \in Keys,
         NEW i \in Of(memory[p], k), IsLatest(memory[p], i)
  PROVE  IsNextAttempt(memory[p], k, memory[p][i].attempt + 1)
<1>1. /\ memory[p] \in Seq(Good) /\ ledger \in Seq(Good)
      /\ Len(memory[p]) <= Len(ledger)
      /\ \A j \in DOMAIN memory[p] : memory[p][j] = ledger[j]
  BY DEF Types, CallsOK, FilesOK, RuntimeOK, MemoryIsPrefix, IsPrefixOf
<1>2. DOMAIN memory[p] \subseteq DOMAIN ledger
  BY <1>1
<1>3. \A j \in Of(memory[p], k) : memory[p][j].attempt \in Nat
  BY <1>1, RecoveryAssumption DEF Of, Good, Receipts
<1>4. ASSUME NEW j \in Of(memory[p], k)
      PROVE  memory[p][j].attempt < memory[p][i].attempt + 1
  <2>1. j \in Nat /\ i \in Nat /\ j <= i
    BY <1>1 DEF Of, IsLatest
  <2>2. CASE j = i
    BY <1>3, <2>2
  <2>3. CASE j < i
    <3>1. /\ i \in DOMAIN ledger /\ j \in Of(ledger, ledger[i].key)
          /\ memory[p][i] = ledger[i] /\ memory[p][j] = ledger[j]
      BY <1>1, <1>2 DEF Of
    <3>2. ledger[j].attempt < ledger[i].attempt \/ ledger[j].attempt = ledger[i].attempt
      BY <2>3, <3>1 DEF AttemptsInOrder
    <3> QED
      BY <1>3, <3>1, <3>2
  <2> QED
    BY <2>1, <2>2, <2>3
<1> QED
  BY <1>3, <1>4 DEF IsNextAttempt

\* While a call is under way the memory of its process gains no record of its key.
LEMMA AttemptStep ==
  ASSUME Types, RuntimeOK, AttemptsInOrder, CallsAttempt, [Next]_vars
  PROVE  CallsAttempt'
<1>1. \A c \in Calls : Executing(c) =>
        /\ call[c].proc \in Procs /\ call[c].key \in Keys
        /\ CallOK(c)
        /\ IsNextAttempt(memory[call[c].proc], call[c].key, call[c].attempt)
  BY TypesSuffice, CallType DEF RuntimeOK, CallRecords, CallsAttempt
<1>2. ASSUME \A c \in Calls : Executing(c)' =>
               /\ Executing(c) /\ call'[c] = call[c]
               /\ memory'[call[c].proc] = memory[call[c].proc]
      PROVE  CallsAttempt'
  BY <1>1, <1>2 DEF CallsAttempt
<1>3. CASE UNCHANGED vars \/ StartupExpires \/ \E k \in Keys : LeaseExpires(k)
  BY <1>2, <1>3 DEF vars, StartupExpires, LeaseExpires, Executing
<1>4. ASSUME NEW p \in Procs, Recover(p), ~Restore(p), ~Crash(p) PROVE CallsAttempt'
  BY <1>2, <1>4 DEF Recover, Boot, ReplayFinalization, Scan, RepairTerminalJournal,
     Prepare, AppendTarget, RecordJournal, Commit, Recovered, Executing
<1>5. ASSUME NEW p \in Procs, Restore(p) PROVE CallsAttempt'
  <2>1. /\ boot[p].phase = "starting" /\ UNCHANGED call
        /\ \A q \in Procs \ {p} : memory'[q] = memory[q]
    BY <1>5 DEF Restore, Types, CallsOK
  <2>2. \A c \in Calls : Executing(c) => call[c].proc # p
    BY <1>1, <2>1 DEF CallOK
  <2> QED
    BY <1>1, <1>2, <2>1, <2>2 DEF Executing
<1>6. ASSUME NEW p \in Procs, Crash(p) PROVE CallsAttempt'
  <2>1. \A c \in Calls : Executing(c)' =>
          Executing(c) /\ call[c].proc # p /\ call'[c] = call[c]
    BY <1>6 DEF Crash, Executing, Idle
  <2>2. \A q \in Procs \ {p} : memory'[q] = memory[q]
    BY <1>6 DEF Crash, Types, CallsOK
  <2> QED
    BY <1>1, <1>2, <2>1, <2>2
<1>7. ASSUME NEW c \in Calls, Lose(c) \/ Persist(c) PROVE CallsAttempt'
  <2>1. Executing(c) /\ End(c)
    BY <1>7 DEF Lose, Persist, Executing
  <2>2. \A d \in Calls : Executing(d)' => d # c /\ Executing(d) /\ call'[d] = call[d]
    BY <2>1 DEF End, Executing, Idle, Types, CallsOK
  <2>3. CASE Lose(c)
    BY <1>2, <2>2, <2>3 DEF Lose
  <2>4. CASE Persist(c)
    <3>1. PICK r \in Good :
            /\ r.key = call[c].key
            /\ memory' \in {memory, [memory EXCEPT ![call[c].proc] = Append(@, r)]}
      BY <2>4, PersistFacts
    <3>2. ASSUME NEW d \in Calls, Executing(d), d # c
          PROVE  IsNextAttempt(memory'[call[d].proc], call[d].key, call[d].attempt)
      <4> DEFINE m == memory[call[d].proc]
      <4>1. /\ call[d].proc \in Procs /\ call[c].proc \in Procs /\ m \in Seq(Good)
            /\ r.key # call[d].key
            /\ IsNextAttempt(m, call[d].key, call[d].attempt)
        BY <1>1, <2>1, <3>1, <3>2, KeysDiffer DEF Types, CallsOK
      <4>2. /\ Of(Append(m, r), call[d].key) = Of(m, call[d].key)
            /\ \A i \in Of(m, call[d].key) : Append(m, r)[i] = m[i]
        BY <4>1, AppendFacts DEF Of
      <4>3. IsNextAttempt(Append(m, r), call[d].key, call[d].attempt)
        BY <4>1, <4>2 DEF IsNextAttempt
      <4>4. memory'[call[d].proc] \in {m, Append(m, r)}
        BY <3>1, <4>1 DEF Types, CallsOK
      <4> QED
        BY <4>1, <4>3, <4>4
    <3> QED
      BY <2>2, <3>2 DEF CallsAttempt
  <2> QED
    BY <1>7, <2>3, <2>4
<1>8. ASSUME NEW c \in Calls, NEW p \in Procs, NEW k \in Keys, NEW attempt,
             IsNextAttempt(memory[p], k, attempt), Begin(c, p, k, attempt)
      PROVE  CallsAttempt'
  <2>1. /\ UNCHANGED memory
        /\ call'[c].proc = p /\ call'[c].key = k /\ call'[c].attempt = attempt
        /\ \A d \in Calls \ {c} : call'[d] = call[d]
    BY <1>8 DEF Begin, Types, CallsOK
  <2> QED
    BY <1>1, <1>8, <2>1 DEF CallsAttempt, Executing
<1>9. ASSUME NEW c \in Calls, NEW p \in Procs, NEW k \in Keys, Run(c, p, k)
      PROVE  CallsAttempt'
  BY <1>8, <1>9 DEF Run, IsNextAttempt
<1>10. ASSUME NEW c \in Calls, NEW p \in Procs, NEW k \in Keys, Replay(c, p, k)
       PROVE  CallsAttempt'
  BY <1>8, <1>10, ReplayIsNext DEF Replay
<1> QED
  BY <1>3, <1>4, <1>5, <1>6, <1>7, <1>9, <1>10 DEF Next, Execute

\* The attempts of a key are in order in the ledger, without gaps, and repeated only by
\* observations of startup recovery, for any processes, crashes, replays and lost appends.
THEOREM AttemptsInOrderHolds == Spec => []AttemptsInOrder
<1>1. Init => AttemptsInOrder /\ CallsAttempt
  BY DEF Init, AttemptsInOrder, CallsAttempt, Executing, Idle
<1> QED
  BY <1>1, TypesInit, TypesStep, RecoveryInit, RecoveryStep, RuntimeInit, RuntimeStep,
     OrderStep, AttemptStep, PTL DEF Spec

-----------------------------------------------------------------------------
(* The reconciliation journal. *)

\* A terminal decision has its receipt in the ledger.
JournalOK ==
  \A k \in Keys : journal[k] \in Terminal =>
    \E i \in Of(ledger, k) : ledger[i].next = journal[k]

\* A terminal entry of the journal stays the latest of its key, because nothing follows a
\* terminal receipt.
LEMMA JournalStep ==
  ASSUME Types, RecoveryOK, JournalOK, [Next]_vars
  PROVE  JournalOK'
<1>1. \A k : \A i \in Of(ledger, k) : i \in Of(ledger', k) /\ ledger'[i] = ledger[i]
  BY LedgerKeeps DEF Of
<1>2. ASSUME NEW k \in Keys, NEW i \in Of(ledger, k),
             journal' \in {journal, [journal EXCEPT ![k] = ledger[i].next]}
      PROVE  JournalOK'
  BY <1>1, <1>2 DEF JournalOK, Types, FilesOK
<1>3. CASE UNCHANGED journal
  BY <1>1, <1>3 DEF JournalOK
<1>4. ASSUME NEW p \in Procs, RepairTerminalJournal(p) PROVE JournalOK'
  <2>1. PICK i \in todo[p] :
          journal' \in {journal, [journal EXCEPT ![ledger[i].key] = ledger[i].next]}
    BY <1>4 DEF RepairTerminalJournal
  <2>2. i \in Of(ledger, ledger[i].key) /\ ledger[i].key \in Keys
    BY DEF Types, BootOK, FilesOK, Of, Good, Receipts
  <2> QED
    BY <1>2, <2>1, <2>2
<1>5. ASSUME NEW p \in Procs, RecordJournal(p) PROVE JournalOK'
  <2> DEFINE f == boot[p].fin
  <2>1. Durable(ledger, f) /\ f.target \in Good
    BY <1>5 DEF RecordJournal, RecoveryOK, Types, BootOK, FilesOK
  <2>2. f.source + 1 \in Of(ledger, f.target.key) /\ f.target.key \in Keys
    BY <2>1 DEF Durable, Of, Good, Receipts
  <2>3. journal' \in {journal, [journal EXCEPT ![f.target.key] = ledger[f.source + 1].next]}
    BY <1>5, <2>1 DEF RecordJournal, Durable
  <2> QED
    BY <1>2, <2>2, <2>3
<1>6. ASSUME NEW p \in Procs, Recover(p), ~RepairTerminalJournal(p), ~RecordJournal(p)
      PROVE  UNCHANGED journal
  BY <1>6 DEF Recover, Boot, ReplayFinalization, Scan, Prepare, AppendTarget, Commit,
              Recovered, Restore, Crash, files
<1>7. ASSUME NEW c \in Calls, Execute(c) PROVE UNCHANGED journal
  BY <1>7 DEF Execute, Run, Replay, Begin, Persist, Lose, files
<1>8. CASE UNCHANGED vars \/ StartupExpires \/ \E k \in Keys : LeaseExpires(k)
  BY <1>3, <1>8 DEF vars, StartupExpires, LeaseExpires, files
<1> QED
  BY <1>3, <1>4, <1>5, <1>6, <1>7, <1>8 DEF Next

\* A terminal decision of the journal is the one the ledger ended its key with.
THEOREM JournalIsBackedHolds == Spec => []JournalIsBacked
<1>1. Init => JournalOK
  BY DEF Init, JournalOK, Terminal
<1>2. Types /\ RuntimeOK /\ JournalOK => JournalIsBacked
  <2> SUFFICES ASSUME Types, RuntimeOK, JournalOK,
                      NEW k \in Keys, journal[k] \in Terminal
               PROVE  \E i \in Of(ledger, k) : IsLatest(ledger, i) /\ ledger[i].next = journal[k]
    BY DEF JournalIsBacked
  <2>1. PICK i \in Of(ledger, k) : ledger[i].next = journal[k]
    BY DEF JournalOK
  <2>2. ledger[i].next # "retry" /\ ledger[i].key = k
    BY <2>1 DEF Terminal, Of
  <2>3. \A j \in Of(ledger, k) : ~(i < j) /\ i \in Nat /\ j \in Nat
    BY <2>2 DEF Of, RuntimeOK, TerminalIsFinal, Types, FilesOK
  <2>4. IsLatest(ledger, i)
    BY <2>2, <2>3 DEF IsLatest
  <2> QED
    BY <2>1, <2>4
<1> QED
  BY <1>1, <1>2, TypesInit, TypesStep, RecoveryInit, RecoveryStep, RuntimeInit, RuntimeStep,
     JournalStep, PTL DEF Spec
-----------------------------------------------------------------------------
(* The journal is never written over. Only the holder of the startup lease writes it;
   what it still has to record is about a key whose decision, if terminal, is the same. *)

Recovering(p) == boot[p].phase \in {"replay", "scan"}

\* While finalizations are replayed, the prepared ones are those still to come and the one
\* at hand; so none is left when records are reconciled.
ReplayOK(p) ==
  /\ pending[p] \subseteq prepared
  /\ \A f \in prepared \ pending[p] : boot[p].step # "pick" /\ f = boot[p].fin
  /\ boot[p].step # "pick" => boot[p].fin \notin pending[p]

\* The records still to reconcile are of keys that are not dealt with yet.
ScanOK(p) ==
  \A i \in todo[p] :
    /\ \A j \in todo[p] : ledger[i].key = ledger[j].key => i = j
    /\ \A f \in prepared : f.target.key # ledger[i].key
    /\ \A f \in committed : f.source # i
    /\ ledger[i].next = "retry" => journal[ledger[i].key] \notin Terminal

\* One process recovers at a time, under the startup lease, and the finalization at hand
\* is prepared until it is committed.
HolderOK(p) ==
  /\ Recovering(p) => startup = p
  /\ boot[p].step # "pick" => boot[p].fin \in prepared
  /\ boot[p].phase = "replay" => ReplayOK(p)
  /\ boot[p].phase = "scan" => ScanOK(p)

\* One finalization of a key is prepared at a time, and none against a decision.
PreparedOK ==
  /\ \A f, g \in prepared : f.target.key = g.target.key => f = g
  /\ \A f \in prepared :
       journal[f.target.key] \in Terminal => journal[f.target.key] = f.target.next

ReconcileOK == PreparedOK /\ \A p \in Procs : HolderOK(p)

\* The terminal receipt of a key that has a terminal decision says what was decided.
LEMMA OneDecision ==
  ASSUME Types, RuntimeOK, JournalOK, NEW k \in Keys, journal[k] \in Terminal,
         NEW i \in Of(ledger, k), ledger[i].next \in Terminal
  PROVE  ledger[i].next = journal[k]
<1>1. PICK j \in Of(ledger, k) : ledger[j].next = journal[k]
  BY DEF JournalOK
<1>2. ledger[i].next # "retry" /\ ledger[j].next # "retry"
  BY <1>1 DEF Terminal
<1>3. i \in Nat /\ j \in Nat /\ ~(i < j) /\ ~(j < i)
  BY <1>2 DEF Of, RuntimeOK, TerminalIsFinal, Types, FilesOK
<1>4. i = j
  BY <1>3
<1> QED
  BY <1>1, <1>4

\* A key whose latest receipt says `retry' has no terminal decision.
LEMMA NoDecisionYet ==
  ASSUME Types, RuntimeOK, JournalOK, NEW i \in DOMAIN ledger, IsLatest(ledger, i),
         ledger[i].next = "retry"
  PROVE  journal[ledger[i].key] \notin Terminal
<1> SUFFICES ASSUME journal[ledger[i].key] \in Terminal PROVE FALSE
  OBVIOUS
<1>1. ledger[i].key \in Keys
  BY DEF Types, FilesOK, Good, Receipts
<1>2. PICK j \in Of(ledger, ledger[i].key) : ledger[j].next = journal[ledger[i].key]
  BY <1>1 DEF JournalOK
<1>3. ledger[j].next # "retry" /\ j # i
  BY <1>2 DEF Terminal
<1>4. j \in Nat /\ i \in Nat /\ j <= i /\ ledger[j].key = ledger[i].key /\ j \in DOMAIN ledger
  BY DEF IsLatest, Of, Types, FilesOK
<1>5. j < i
  BY <1>3, <1>4
<1> QED
  BY <1>3, <1>4, <1>5 DEF RuntimeOK, TerminalIsFinal

\* What the holder writes over a terminal decision is the same decision: a record to repair
\* the journal from is the terminal one of its key, and the finalization at hand, which is
\* prepared, goes against no decision.
LEMMA JournalKept ==
  ASSUME Types, RecoveryOK, RuntimeOK, JournalOK, ReconcileOK, [Next]_vars,
         NEW k \in Keys, journal[k] \in Terminal
  PROVE  journal'[k] = journal[k]
<1>1. ASSUME NEW p \in Procs, RepairTerminalJournal(p) PROVE journal'[k] = journal[k]
  <2>1. PICK i \in todo[p] :
          /\ ledger[i].next \in Terminal
          /\ journal' \in {journal, [journal EXCEPT ![ledger[i].key] = ledger[i].next]}
    BY <1>1 DEF RepairTerminalJournal
  <2>2. i \in DOMAIN ledger
    BY DEF Types, BootOK
  <2>3. CASE ledger[i].key = k
    <3>1. ledger[i].next = journal[k]
      BY <2>1, <2>2, <2>3, OneDecision DEF Of
    <3> QED
      BY <2>1, <2>3, <3>1 DEF Types, FilesOK
  <2>4. CASE ledger[i].key # k
    BY <2>1, <2>4 DEF Types, FilesOK
  <2> QED
    BY <2>3, <2>4
<1>2. ASSUME NEW p \in Procs, RecordJournal(p) PROVE journal'[k] = journal[k]
  <2> DEFINE f == boot[p].fin
  <2>1. journal' \in {journal, [journal EXCEPT ![f.target.key] = f.target.next]}
    BY <1>2 DEF RecordJournal
  <2>2. f.target.key = k => f.target.next = journal[k]
    BY <1>2 DEF RecordJournal, ReconcileOK, PreparedOK, HolderOK
  <2> QED
    BY <2>1, <2>2 DEF Types, FilesOK
<1>3. ASSUME NEW p \in Procs, Recover(p), ~RepairTerminalJournal(p), ~RecordJournal(p)
      PROVE  UNCHANGED journal
  BY <1>3 DEF Recover, Boot, ReplayFinalization, Scan, Prepare, AppendTarget, Commit,
              Recovered, Restore, Crash, files
<1>4. ASSUME NEW c \in Calls, Execute(c) PROVE UNCHANGED journal
  BY <1>4 DEF Execute, Run, Replay, Begin, Persist, Lose, files
<1>5. CASE UNCHANGED vars \/ StartupExpires \/ \E j \in Keys : LeaseExpires(j)
  BY <1>5 DEF vars, StartupExpires, LeaseExpires, files
<1> QED
  BY <1>1, <1>2, <1>3, <1>4, <1>5 DEF Next

\* Nothing is prepared, no process runs.
LEMMA ReconcileInit == Init => ReconcileOK
  BY DEF Init, ReconcileOK, PreparedOK, HolderOK, Recovering

\* What holds of a process that recovers does not depend on more than its own variables,
\* the records it has still to reconcile and the other files.
LEMMA HolderKept ==
  ASSUME Types, [Next]_vars, NEW q \in Procs, HolderOK(q),
         boot'[q] = boot[q], pending'[q] = pending[q], todo'[q] = todo[q],
         Recovering(q) => UNCHANGED <<journal, prepared, committed, startup>>
  PROVE  HolderOK(q)'
<1>1. \A i \in todo[q] : ledger'[i] = ledger[i]
  BY LedgerKeeps DEF Types, BootOK
<1>2. boot[q].step # "pick" => Recovering(q)
  BY DEF Types, BootOK, Recovering
<1> QED
  BY <1>1, <1>2 DEF HolderOK, Recovering, ReplayOK, ScanOK

\* A process that does not hold the startup lease leaves the files of recovery alone.
LEMMA OthersKept ==
  ASSUME Types, ReconcileOK, [Next]_vars, NEW p \in Procs, Recover(p), NEW q \in Procs \ {p}
  PROVE  HolderOK(q)'
<1>1. BootType /\ pending \in [Procs -> SUBSET Finalizations]
      /\ todo \in [Procs -> SUBSET (1..MaxLedger)]
  BY DEF Types, BootOK
<1>2. boot'[q] = boot[q] /\ pending'[q] = pending[q] /\ todo'[q] = todo[q]
  <2>1. CASE \/ Boot(p) \/ ReplayFinalization(p) \/ Scan(p) \/ RepairTerminalJournal(p)
             \/ Prepare(p) \/ Recovered(p) \/ Restore(p)
    BY <1>1, <2>1 DEF Boot, ReplayFinalization, Scan, RepairTerminalJournal, Prepare,
       Recovered, Restore, Fails, Goto, BootType, work
  <2>2. CASE AppendTarget(p) \/ RecordJournal(p) \/ Commit(p) \/ Crash(p)
    BY <1>1, <2>2 DEF AppendTarget, RecordJournal, Commit, Crash, Fails, Goto, BootType
  <2> QED
    BY <2>1, <2>2 DEF Recover
<1>3. ASSUME Recovering(q) PROVE UNCHANGED <<journal, prepared, committed, startup>>
  <2>1. startup = q /\ startup # Free /\ startup # p
    BY <1>3, RecoveryAssumption DEF ReconcileOK, HolderOK
  <2>2. ~Recovering(p)
    BY <2>1 DEF ReconcileOK, HolderOK
  <2>3. boot[p].step = "pick" /\ boot[p].phase \notin {"replay", "scan"}
    BY <2>2 DEF Recovering, Types, BootOK
  <2>4. Boot(p) \/ Restore(p) \/ Crash(p)
    BY <2>3 DEF Recover, ReplayFinalization, Scan, RepairTerminalJournal, Prepare,
       AppendTarget, RecordJournal, Commit, Recovered, In
  <2> QED
    BY <2>1, <2>4 DEF Boot, Restore, Crash, files
<1>4. HolderOK(q)
  BY DEF ReconcileOK
<1> QED
  BY <1>2, <1>3, <1>4, HolderKept

\* A failure ends the start, or leaves its finalization for the next one.
LEMMA FailKept ==
  ASSUME Types, [Next]_vars, NEW p \in Procs, HolderOK(p), Recovering(p), Fails(p),
         UNCHANGED <<journal, prepared, committed>>, todo'[p] = todo[p]
  PROVE  HolderOK(p)'
<1>1. BootType /\ {"down", "scan"} \subseteq Phases /\ "pick" \in Steps
  BY DEF Types, BootOK, Phases, Steps
<1>2. CASE boot[p].phase = "replay"
  <2>1. boot'[p].phase = "down" /\ boot'[p].step = "pick"
    BY <1>1, <1>2, GotoMoves DEF Fails
  <2> QED
    BY <2>1 DEF HolderOK, Recovering
<1>3. CASE boot[p].phase = "scan"
  <2>1. boot'[p].phase = "scan" /\ boot'[p].step = "pick" /\ startup' = startup
    BY <1>1, <1>3, GotoMoves DEF Fails
  <2>2. \A i \in todo[p] : ledger'[i] = ledger[i]
    BY LedgerKeeps DEF Types, BootOK
  <2> QED
    BY <1>3, <2>1, <2>2 DEF HolderOK, Recovering, ScanOK
<1> QED
  BY <1>2, <1>3 DEF Recovering

\* Starting, picking a finalization, and leaving recovery.
LEMMA PhaseSteps ==
  ASSUME Types, RecoveryOK, RuntimeOK, JournalOK, ReconcileOK, [Next]_vars, NEW p \in Procs,
         \/ Boot(p) \/ ReplayFinalization(p) \/ Scan(p) \/ Recovered(p) \/ Restore(p)
         \/ Crash(p)
  PROVE  ReconcileOK'
<1>1. Phases = {"down", "replay", "scan", "starting", "up"}
      /\ Steps = {"pick", "append", "journal", "commit"} /\ BootType
      /\ pending \in [Procs -> SUBSET Finalizations]
      /\ todo \in [Procs -> SUBSET (1..MaxLedger)]
  BY DEF Phases, Steps, Types, BootOK
<1>2. UNCHANGED <<ledger, journal, prepared, committed>>
  BY DEF Boot, ReplayFinalization, Scan, Recovered, Restore, Crash, files
<1>3. PreparedOK'
  BY <1>2 DEF ReconcileOK, PreparedOK
<1>4. HolderOK(p)
  BY DEF ReconcileOK
<1>5. HolderOK(p)'
  <2>1. CASE Boot(p)
    <3>1. boot'[p].step = "pick" /\ boot'[p].phase \in {"replay", "starting"}
      BY <1>1, <2>1, GotoMoves DEF Boot
    <3>2. boot'[p].phase = "replay" => startup' = p /\ pending'[p] = prepared
      BY <1>1, <2>1, GotoMoves DEF Boot
    <3> QED
      BY <1>2, <3>1, <3>2 DEF HolderOK, Recovering, ReplayOK
  <2>2. CASE ReplayFinalization(p)
    <3>1. boot[p].phase = "replay" /\ boot[p].step = "pick"
      BY <2>2 DEF ReplayFinalization, In
    <3>2. PICK f \in pending[p] :
            \/ /\ \/ boot' = [boot EXCEPT ![p].step = "journal", ![p].fin = f]
                  \/ boot' = [boot EXCEPT ![p].step = "append", ![p].fin = f]
               /\ pending' = [pending EXCEPT ![p] = @ \ {f}]
               /\ UNCHANGED startup
            \/ Fails(p)
      BY <2>2 DEF ReplayFinalization
    <3>3. CASE Fails(p)
      BY <1>2, <1>4, <2>2, <3>1, <3>3, FailKept DEF ReplayFinalization, Recovering
    <3>4. CASE ~Fails(p)
      <4>1. /\ boot'[p].phase = "replay" /\ boot'[p].fin = f
            /\ boot'[p].step \in {"journal", "append"}
            /\ pending'[p] = pending[p] \ {f} /\ startup' = startup
        BY <1>1, <3>1, <3>2, <3>4 DEF BootType
      <4>2. f \in prepared /\ prepared \subseteq pending[p] /\ startup = p
        BY <1>4, <3>1 DEF HolderOK, ReplayOK, Recovering
      <4>3. ReplayOK(p)'
        BY <1>2, <1>4, <3>1, <4>1, <4>2 DEF HolderOK, ReplayOK
      <4> QED
        BY <1>2, <4>1, <4>2, <4>3 DEF HolderOK
    <3> QED
      BY <3>3, <3>4
  <2>3. CASE Scan(p)
    <3>1. /\ boot[p].phase = "replay" /\ boot[p].step = "pick" /\ pending[p] = {}
          /\ todo'[p] = {i \in DOMAIN ledger : IsLatest(ledger, i)} /\ startup' = startup
      BY <1>1, <2>3 DEF Scan, In
    <3>2. prepared = {} /\ startup = p
      BY <1>4, <3>1 DEF HolderOK, ReplayOK, Recovering
    <3>3. boot'[p].phase = "scan" /\ boot'[p].step = "pick"
      BY <1>1, <2>3, GotoMoves DEF Scan
    <3>4. ASSUME NEW i \in DOMAIN ledger, IsLatest(ledger, i)
          PROVE  /\ \A j \in DOMAIN ledger :
                      IsLatest(ledger, j) /\ ledger[i].key = ledger[j].key => i = j
                 /\ \A f \in committed : f.source # i
      <4>1. \A j \in DOMAIN ledger : j \in Nat
        BY DEF Types, FilesOK
      <4>2. ASSUME NEW j \in DOMAIN ledger, IsLatest(ledger, j), ledger[i].key = ledger[j].key
            PROVE  i = j
        <5>1. i <= j /\ j <= i /\ i \in Nat /\ j \in Nat
          BY <3>4, <4>1, <4>2 DEF IsLatest, Of
        <5> QED
          BY <5>1
      <4>3. ASSUME NEW f \in committed, f.source = i PROVE FALSE
        <5>1. Durable(ledger, f) /\ Backed(ledger, f)
          BY DEF RecoveryOK, Known
        <5>2. i + 1 \in Of(ledger, ledger[i].key)
          BY <4>3, <5>1 DEF Durable, Backed, Of
        <5>3. i + 1 <= i /\ i \in Nat
          BY <3>4, <4>1, <5>2 DEF IsLatest
        <5> QED
          BY <5>3
      <4> QED
        BY <4>2, <4>3
    <3>5. ScanOK(p)'
      BY <1>2, <3>1, <3>2, <3>4, NoDecisionYet DEF ScanOK
    <3> QED
      BY <3>1, <3>2, <3>3, <3>5 DEF HolderOK
  <2>4. CASE Recovered(p) \/ Restore(p)
    <3>1. boot'[p].step = "pick" /\ boot'[p].phase \in {"starting", "up"}
      BY <1>1, <2>4, GotoMoves DEF Recovered, Restore
    <3> QED
      BY <3>1 DEF HolderOK, Recovering
  <2>5. CASE Crash(p)
    <3>1. boot'[p].step = "pick" /\ boot'[p].phase = "down"
      BY <1>1, <2>5 DEF Crash, BootType
    <3> QED
      BY <3>1 DEF HolderOK, Recovering
  <2> QED
    BY <2>1, <2>2, <2>3, <2>4, <2>5
<1>6. \A q \in Procs \ {p} : HolderOK(q)'
  BY OthersKept DEF Recover
<1> QED
  BY <1>3, <1>5, <1>6 DEF ReconcileOK
\* The writes of the holder: each is about one key, which is then no longer to reconcile.
LEMMA WriteSteps ==
  ASSUME Types, RecoveryOK, RuntimeOK, JournalOK, ReconcileOK, [Next]_vars, NEW p \in Procs,
         \/ RepairTerminalJournal(p) \/ Prepare(p) \/ AppendTarget(p)
         \/ RecordJournal(p) \/ Commit(p)
  PROVE  ReconcileOK'
<1>1. Phases = {"down", "replay", "scan", "starting", "up"}
      /\ Steps = {"pick", "append", "journal", "commit"} /\ BootType
      /\ todo \in [Procs -> SUBSET (1..MaxLedger)]
  BY DEF Phases, Steps, Types, BootOK
<1>2. \A q \in Procs \ {p} : HolderOK(q)'
  BY OthersKept DEF Recover
<1>3. HolderOK(p) /\ PreparedOK
  BY DEF ReconcileOK
<1>4. \A i \in todo[p] : i \in DOMAIN ledger /\ ledger'[i] = ledger[i]
  BY LedgerKeeps DEF Types, BootOK
<1>5. SUFFICES PreparedOK' /\ HolderOK(p)'
  BY <1>2 DEF ReconcileOK
<1>6. CASE RepairTerminalJournal(p)
  <2>1. /\ boot[p].phase = "scan" /\ boot[p].step = "pick"
        /\ UNCHANGED <<boot, prepared, committed, startup>>
    BY <1>6 DEF RepairTerminalJournal, In
  <2>2. PICK i \in todo[p] :
          /\ journal' \in {journal, [journal EXCEPT ![ledger[i].key] = ledger[i].next]}
          /\ todo' = [todo EXCEPT ![p] = @ \ {i}]
    BY <1>6 DEF RepairTerminalJournal
  <2>3. todo'[p] = todo[p] \ {i}
        /\ \A k \in Keys \ {ledger[i].key} : journal'[k] = journal[k]
    BY <1>1, <2>2 DEF Types, FilesOK
  <2>4. \A j \in todo[p] : ledger[j].key \in Keys
    BY <1>4 DEF Types, FilesOK, Good, Receipts
  <2>5. \A f \in prepared : f.target.key \in Keys /\ f.target.key # ledger[i].key
    BY <1>3, <2>1 DEF HolderOK, ScanOK, Types, FilesOK, Known, Good, Receipts
  <2>6. PreparedOK'
    BY <1>3, <2>1, <2>3, <2>5 DEF PreparedOK
  <2>7. ScanOK(p)'
    BY <1>3, <1>4, <2>1, <2>3, <2>4 DEF HolderOK, ScanOK
  <2> QED
    BY <1>3, <2>1, <2>6, <2>7 DEF HolderOK, Recovering
<1>7. CASE Prepare(p)
  <2>1. /\ boot[p].phase = "scan" /\ boot[p].step = "pick"
        /\ UNCHANGED <<ledger, journal, committed, startup>>
    BY <1>7 DEF Prepare, In
  <2>2. PICK i \in todo[p] :
          /\ ledger[i].next = "retry"
          /\ todo' = [todo EXCEPT ![p] = @ \ {i}]
          /\ \/ \E next \in NextActions :
                  LET f == [source |-> i, target |-> [ledger[i] EXCEPT !.next = next]]
                  IN /\ prepared' = prepared \union ({f} \ committed)
                     /\ boot' = [boot EXCEPT ![p].step = "append", ![p].fin = f]
             \/ UNCHANGED <<prepared, boot>>
    BY <1>7 DEF Prepare
  <2>3. todo'[p] = todo[p] \ {i}
    BY <1>1, <2>2
  <2>4. CASE UNCHANGED <<prepared, boot>>
    <3>1. ScanOK(p)'
      BY <1>3, <2>1, <2>3, <2>4 DEF HolderOK, ScanOK
    <3> QED
      BY <1>3, <2>1, <2>4, <3>1 DEF HolderOK, Recovering, PreparedOK
  <2>5. CASE ~UNCHANGED <<prepared, boot>>
    <3>1. PICK f :
            /\ f.source = i /\ f.target.key = ledger[i].key
            /\ prepared' = prepared \union ({f} \ committed)
            /\ boot' = [boot EXCEPT ![p].step = "append", ![p].fin = f]
      <4>1. \A next \in NextActions : [ledger[i] EXCEPT !.next = next].key = ledger[i].key
        BY <1>4, <2>2, Observed DEF Types, FilesOK
      <4> QED
        BY <2>2, <2>5, <4>1
    <3>2. /\ f \notin committed /\ journal[ledger[i].key] \notin Terminal
          /\ \A g \in prepared : g.target.key # ledger[i].key
      BY <1>3, <2>1, <2>2, <3>1 DEF HolderOK, ScanOK
    <3>3. prepared' = prepared \union {f}
      BY <3>1, <3>2
    <3>4. /\ boot'[p].phase = "scan" /\ boot'[p].step = "append" /\ boot'[p].fin = f
      BY <1>1, <2>1, <3>1 DEF BootType
    <3>5. PreparedOK'
      BY <1>3, <2>1, <3>1, <3>2, <3>3 DEF PreparedOK
    <3>6. ScanOK(p)'
      BY <1>3, <2>1, <2>3, <3>1, <3>3 DEF HolderOK, ScanOK
    <3> QED
      BY <1>3, <2>1, <3>3, <3>4, <3>5, <3>6 DEF HolderOK, Recovering
  <2> QED
    BY <2>4, <2>5
<1>8. CASE AppendTarget(p) \/ RecordJournal(p) \/ Commit(p)
  <2> DEFINE f == boot[p].fin
  <2>1. /\ boot[p].phase \in {"replay", "scan"} /\ boot[p].step # "pick"
        /\ f \in prepared /\ f.target.key \in Keys /\ todo' = todo
    <3>1. boot[p].step # "pick" /\ todo' = todo
      BY <1>8 DEF AppendTarget, RecordJournal, Commit
    <3>2. f \in prepared /\ boot[p].phase \in {"replay", "scan"}
      BY <1>3, <3>1 DEF HolderOK, Types, BootOK
    <3> QED
      BY <3>1, <3>2 DEF Types, FilesOK, Known, Good, Receipts
  <2>2. CASE Fails(p) /\ UNCHANGED <<journal, prepared, committed>>
    BY <1>3, <2>1, <2>2, FailKept DEF PreparedOK, Recovering
  <2>3. ASSUME NEW step \in {"journal", "commit", "pick"}, Goto(p, boot[p].phase, step),
               UNCHANGED <<startup, pending>>
        PROVE  /\ boot'[p].phase = boot[p].phase /\ boot'[p].step = step /\ boot'[p].fin = f
               /\ UNCHANGED <<startup, pending>>
    BY <1>1, <2>1, <2>3, GotoMoves
  <2>4. CASE /\ AppendTarget(p) /\ Goto(p, boot[p].phase, "journal")
             /\ UNCHANGED <<startup, pending>>
    <3>1. UNCHANGED <<journal, prepared, committed>>
      BY <2>4 DEF AppendTarget
    <3> QED
      BY <1>3, <1>4, <2>1, <2>3, <2>4, <3>1 DEF PreparedOK, HolderOK, Recovering, ReplayOK, ScanOK
  <2>5. CASE /\ RecordJournal(p) /\ Goto(p, boot[p].phase, "commit")
             /\ journal' = [journal EXCEPT ![f.target.key] = f.target.next]
             /\ UNCHANGED <<startup, pending>>
    <3>1. UNCHANGED <<ledger, prepared, committed>>
      BY <2>5 DEF RecordJournal
    <3>2. /\ journal'[f.target.key] = f.target.next
          /\ \A k \in Keys \ {f.target.key} : journal'[k] = journal[k]
      BY <2>1, <2>5 DEF Types, FilesOK
    <3>3. \A g \in prepared : g.target.key \in Keys /\ (g.target.key = f.target.key => g = f)
      BY <1>3, <2>1 DEF PreparedOK, Types, FilesOK, Known, Good, Receipts
    <3>4. PreparedOK'
      BY <1>3, <3>1, <3>2, <3>3 DEF PreparedOK
    <3>5. ASSUME boot[p].phase = "scan" PROVE ScanOK(p)'
      <4>1. \A i \in todo[p] : ledger[i].key \in Keys /\ ledger[i].key # f.target.key
        BY <1>3, <1>4, <2>1, <3>5 DEF HolderOK, ScanOK, Types, FilesOK, Good, Receipts
      <4> QED
        BY <1>3, <2>1, <3>1, <3>2, <3>5, <4>1 DEF HolderOK, ScanOK
    <3> QED
      BY <1>3, <2>1, <2>3, <2>5, <3>1, <3>4, <3>5 DEF HolderOK, Recovering, ReplayOK
  <2>6. CASE /\ Commit(p) /\ Goto(p, boot[p].phase, "pick")
             /\ prepared' = prepared \ {f} /\ committed' = committed \union {f}
             /\ UNCHANGED <<startup, pending>>
    <3>1. UNCHANGED <<ledger, journal>>
      BY <2>6 DEF Commit
    <3>2. PreparedOK'
      BY <1>3, <2>6, <3>1 DEF PreparedOK
    <3>3. ASSUME boot[p].phase = "scan" PROVE ScanOK(p)'
      <4>1. \A i \in todo[p] : f.source # i
        BY <1>3, <2>1, <3>3 DEF HolderOK, ScanOK, RecoveryOK, Backed, Known
      <4> QED
        BY <1>3, <2>1, <2>6, <3>1, <3>3, <4>1 DEF HolderOK, ScanOK
    <3>4. ASSUME boot[p].phase = "replay" PROVE ReplayOK(p)'
      BY <1>3, <2>1, <2>3, <2>6, <3>4 DEF HolderOK, ReplayOK
    <3> QED
      BY <1>3, <2>1, <2>3, <2>6, <3>2, <3>3, <3>4 DEF HolderOK, Recovering
  <2> QED
    BY <1>8, <2>2, <2>4, <2>5, <2>6 DEF AppendTarget, RecordJournal, Commit
<1> QED
  BY <1>6, <1>7, <1>8

\* A step that is no step of recovery changes the ledger at most.
LEMMA ReconcileStep ==
  ASSUME Types, RecoveryOK, RuntimeOK, JournalOK, ReconcileOK, [Next]_vars
  PROVE  ReconcileOK'
<1>1. ASSUME UNCHANGED <<boot, pending, todo, journal, prepared, committed>>,
             startup' = startup \/ startup = Dead
      PROVE  ReconcileOK'
  <2>1. \A q \in Procs : HolderOK(q) /\ (Recovering(q) => startup' = startup)
    BY <1>1, RecoveryAssumption DEF ReconcileOK, HolderOK
  <2>2. \A q \in Procs : HolderOK(q)'
    BY <1>1, <2>1, HolderKept
  <2> QED
    BY <1>1, <2>2 DEF ReconcileOK, PreparedOK
<1>2. ASSUME NEW c \in Calls, Execute(c) PROVE ReconcileOK'
  BY <1>1, <1>2 DEF Execute, Run, Replay, Begin, Persist, Lose, files, work
<1>3. CASE UNCHANGED vars \/ StartupExpires \/ \E k \in Keys : LeaseExpires(k)
  BY <1>1, <1>3 DEF vars, StartupExpires, LeaseExpires, files, work
<1> QED
  BY <1>2, <1>3, PhaseSteps, WriteSteps DEF Next, Recover

\* The invariant of reconciliation: one process writes the journal at a time, and it has
\* nothing to record against a decision that is terminal.
THEOREM ReconcileInvariant ==
  Spec => [](Types /\ RecoveryOK /\ RuntimeOK /\ JournalOK /\ ReconcileOK)
<1>1. Init => JournalOK
  BY DEF Init, JournalOK, Terminal
<1> QED
  BY <1>1, TypesInit, TypesStep, RecoveryInit, RecoveryStep, RuntimeInit, RuntimeStep,
     JournalStep, ReconcileInit, ReconcileStep, PTL DEF Spec

\* No terminal decision is ever written over, whichever process recovers after however
\* many crashes, leases that expire and finalizations that are replayed.
THEOREM JournalIsFinalHolds == Spec => JournalIsFinal
<1>1. Types /\ RecoveryOK /\ RuntimeOK /\ JournalOK /\ ReconcileOK /\ [Next]_vars =>
        [\A k \in Keys : journal[k] \in Terminal => journal'[k] = journal[k]]_vars
  BY JournalKept
<1> QED
  BY <1>1, ReconcileInvariant, PTL DEF Spec, JournalIsFinal
-----------------------------------------------------------------------------
(* The contract. A receipt that is appended is the next attempt of its key, or repeats the
   latest one; the journal publishes what a receipt of the ledger says. *)

Told(r) == [attempt |-> r.attempt, next |-> r.next]

\* What the receipts of each key say: the contract's view of the ledger.
View(receipts) == [k \in Keys |-> {Told(receipts[i]) : i \in Of(receipts, k)}]

\* The refinement mapping gives each key the view of the ledger.
LEMMA ViewIsMapped ==
  View(ledger) = [k \in Keys |-> {[attempt |-> ledger[i].attempt, next |-> ledger[i].next] :
                                  i \in Of(ledger, k)}]
  BY DEF View, Told

\* An append adds one receipt to the view of its key.
LEMMA ViewGrows ==
  ASSUME NEW s \in Seq(Good), NEW r \in Good
  PROVE  View(Append(s, r)) = [View(s) EXCEPT ![r.key] = @ \union {Told(r)}]
<1> DEFINE t == Append(s, r)
<1>1. /\ DOMAIN t = DOMAIN s \union {Len(s) + 1} /\ t[Len(s) + 1] = r
      /\ \A i \in DOMAIN s : t[i] = s[i]
  BY AppendFacts
<1>2. ASSUME NEW k \in Keys, k # r.key
      PROVE  {Told(t[i]) : i \in Of(t, k)} = {Told(s[i]) : i \in Of(s, k)}
  <2>1. Of(t, k) = Of(s, k) /\ \A i \in Of(s, k) : t[i] = s[i]
    BY <1>1, <1>2 DEF Of
  <2> QED
    BY <2>1
<1>3. {Told(t[i]) : i \in Of(t, r.key)} = {Told(s[i]) : i \in Of(s, r.key)} \union {Told(r)}
  <2>1. /\ Of(t, r.key) = Of(s, r.key) \union {Len(s) + 1}
        /\ \A i \in Of(s, r.key) : t[i] = s[i]
    BY <1>1 DEF Of
  <2> QED
    BY <1>1, <2>1
<1> QED
  BY <1>2, <1>3 DEF View

\* The attempts and the decisions that the contract sees of a key.
LEMMA ViewOfKey ==
  ASSUME NEW k \in Keys
  PROVE  /\ Contract!Attempts(k) = {ledger[i].attempt : i \in Of(ledger, k)}
         /\ Open(ledger, k) => Contract!Open(k)
<1>1. \A i \in Of(ledger, k) : /\ Told(ledger[i]).attempt = ledger[i].attempt
                               /\ Told(ledger[i]).next = ledger[i].next
  BY DEF Told
<1>2. Contract!Attempts(k) = {r.attempt : r \in View(ledger)[k]}
  BY ViewIsMapped DEF Contract!Attempts
<1>3. Contract!Open(k) <=> \A r \in View(ledger)[k] : r.next \notin Terminal
  BY ViewIsMapped DEF Contract!Open
<1>4. View(ledger)[k] = {Told(ledger[i]) : i \in Of(ledger, k)}
  BY DEF View
<1>5. {r.attempt : r \in View(ledger)[k]} = {ledger[i].attempt : i \in Of(ledger, k)}
  BY <1>1, <1>4
<1>6. ASSUME Open(ledger, k) PROVE Contract!Open(k)
  BY <1>1, <1>3, <1>4, <1>6 DEF Open, Terminal
<1> QED
  BY <1>2, <1>5, <1>6

\* A receipt of an open key that is appended is told.
LEMMA AppendTells ==
  ASSUME ledger \in Seq(Good), NEW r \in Good, ledger' = Append(ledger, r),
         Open(ledger, r.key), UNCHANGED journal
  PROVE  Contract!Tell(r.key, r.attempt, r.next)
<1>1. r.key \in Keys /\ (r.next = "retry" => r.attempt < MaxAttempts)
  BY DEF Good, Receipts
<1>2. Contract!Open(r.key)
  BY <1>1, ViewOfKey
<1>3. View(ledger') = [View(ledger) EXCEPT ![r.key] = @ \union {Told(r)}]
  BY ViewGrows
<1>4. View(ledger') = [k \in Keys |-> {[attempt |-> ledger'[i].attempt,
                                        next |-> ledger'[i].next] : i \in Of(ledger', k)}]
  BY DEF View, Told
<1> QED
  BY <1>1, <1>2, <1>3, <1>4, ViewIsMapped DEF Contract!Tell, Told

\* The end of a call is an execution of its key: the next attempt of the ledger.
LEMMA PersistExecutes ==
  ASSUME Types, RuntimeOK, CallsAttempt, NEW c \in Calls, Persist(c)
  PROVE  \E k \in Keys : Contract!Execute(k)
<1>1. /\ call[c] \in CallRecords /\ CallOK(c) /\ memory[call[c].proc] = ledger
      /\ IsNextAttempt(ledger, call[c].key, call[c].attempt)
  BY PersistFacts DEF Persist, Executing, CallsAttempt
<1>2. PICK r \in Good :
        ledger' = Append(ledger, r) /\ r.key = call[c].key /\ r.attempt = call[c].attempt
  <2>1. \A next \in Outcomes(call[c].attempt) :
          [key |-> call[c].key, attempt |-> call[c].attempt, next |-> next] \in Good
    BY <1>1 DEF CallRecords, Outcomes, Good, Receipts, NextActions, Terminal
  <2> QED
    BY <2>1 DEF Persist
<1>3. r.key \in Keys /\ r.attempt \in 1..MaxAttempts /\ r.next \in NextActions
  BY DEF Good, Receipts
<1>4. Contract!Tell(r.key, r.attempt, r.next)
  BY <1>1, <1>2, AppendTells DEF Types, FilesOK, CallOK, Persist
<1>5. /\ \A a \in Contract!Attempts(r.key) : a < r.attempt
      /\ r.attempt > 1 => r.attempt - 1 \in Contract!Attempts(r.key)
  BY <1>1, <1>2, <1>3, ViewOfKey DEF IsNextAttempt
<1>6. Contract!Execute(r.key)
  BY <1>3, <1>4, <1>5 DEF Contract!Execute
<1> QED
  BY <1>3, <1>6

\* The target of a finalization repeats the attempt of its source, the last record of the
\* ledger and so the latest attempt of its key.
LEMMA AppendObserves ==
  ASSUME Types, RecoveryOK, RuntimeOK, AttemptsInOrder, NEW p \in Procs, AppendTarget(p),
         ledger' # ledger
  PROVE  \E k \in Keys : Contract!Observe(k)
<1> DEFINE n == Len(ledger)
<1>1. PICK r \in Good :
        /\ \E f \in Known : f.source = n /\ f.target = r
        /\ ledger' = Append(ledger, r) /\ UNCHANGED journal /\ ledger \in Seq(Good)
  BY DEF AppendTarget, Types, BootOK, FilesOK
<1>2. /\ n \in DOMAIN ledger /\ ledger[n].next = "retry" /\ ledger[n].key = r.key
      /\ ledger[n].attempt = r.attempt
  BY <1>1 DEF RecoveryOK, Backed
<1>3. r.key \in Keys /\ r.attempt \in Nat /\ r.next \in NextActions
  BY <1>1 DEF Good, Receipts
<1>4. \A i \in DOMAIN ledger : i = n \/ i < n
  BY <1>1
<1>5. Open(ledger, r.key)
  BY <1>2, <1>4 DEF Open, Of, RuntimeOK, TerminalIsFinal
<1>6. Contract!Tell(r.key, r.attempt, r.next)
  BY <1>1, <1>5, AppendTells
<1>7. \A i \in Of(ledger, r.key) : ledger[i].attempt <= r.attempt
  <2>1. TAKE i \in Of(ledger, r.key)
  <2>2. ledger[i].attempt \in Nat
    BY <1>1, RecoveryAssumption DEF Of, Good, Receipts
  <2>3. CASE i = n
    BY <1>2, <1>3, <2>3
  <2>4. CASE i < n
    <3>1. i \in Of(ledger, ledger[n].key)
      BY <1>2
    <3>2. ledger[i].attempt < ledger[n].attempt \/ ledger[i].attempt = ledger[n].attempt
      BY <1>2, <2>4, <3>1 DEF AttemptsInOrder
    <3> QED
      BY <1>2, <1>3, <2>2, <3>2
  <2> QED
    BY <1>4, <2>3, <2>4 DEF Of
<1>8. r.attempt \in Contract!Attempts(r.key)
  BY <1>2, <1>3, ViewOfKey DEF Of
<1>9. \A a \in Contract!Attempts(r.key) : a <= r.attempt
  BY <1>3, <1>7, ViewOfKey
<1>10. Contract!Observe(r.key)
  BY <1>3, <1>6, <1>8, <1>9 DEF Contract!Observe
<1> QED
  BY <1>3, <1>10

\* What the journal is given is what a record of the ledger says.
LEMMA JournalPublishes ==
  ASSUME Types, NEW i \in DOMAIN ledger, UNCHANGED ledger,
         journal' = [journal EXCEPT ![ledger[i].key] = ledger[i].next],
         journal[ledger[i].key] \in Terminal => journal'[ledger[i].key] = journal[ledger[i].key]
  PROVE  UNCHANGED journal \/ \E k \in Keys : Contract!Publish(k)
<1> DEFINE k == ledger[i].key
<1>1. k \in Keys
  BY DEF Types, FilesOK, Good, Receipts
<1>2. CASE journal[k] \in Terminal
  BY <1>1, <1>2 DEF Types, FilesOK
<1>3. CASE journal[k] \notin Terminal
  <2>1. Told(ledger[i]) \in View(ledger)[k] /\ Told(ledger[i]).next = ledger[i].next
    BY <1>1 DEF View, Of, Told
  <2>2. \E r \in View(ledger)[k] : journal' = [journal EXCEPT ![k] = r.next]
    BY <2>1
  <2>3. View(ledger') = View(ledger)
    OBVIOUS
  <2>4. UNCHANGED [j \in Keys |-> {[attempt |-> ledger[h].attempt, next |-> ledger[h].next] :
                                   h \in Of(ledger, j)}]
    BY DEF Of
  <2>5. Contract!Publish(k)
    BY <1>3, <2>2, <2>4, ViewIsMapped DEF Contract!Publish
  <2> QED
    BY <1>1, <2>5
<1> QED
  BY <1>2, <1>3

\* Every step of the runtimes and of recovery is a step of the contract or none.
LEMMA StepRefines ==
  ASSUME Types, RecoveryOK, RuntimeOK, AttemptsInOrder, CallsAttempt, JournalOK, ReconcileOK,
         [Next]_vars
  PROVE  [Contract!ContractNext]_(Contract!contractVars)
<1>1. ASSUME UNCHANGED <<ledger, journal>>
      PROVE  UNCHANGED Contract!contractVars
  BY <1>1 DEF Contract!contractVars, Of
<1>2. ASSUME NEW c \in Calls, Persist(c) PROVE Contract!ContractNext
  BY <1>2, PersistExecutes DEF Contract!ContractNext
<1>3. ASSUME NEW p \in Procs, AppendTarget(p)
      PROVE  [Contract!ContractNext]_(Contract!contractVars)
  <2>1. CASE ledger' = ledger
    BY <1>1, <1>3, <2>1 DEF AppendTarget
  <2>2. CASE ledger' # ledger
    BY <1>3, <2>2, AppendObserves DEF Contract!ContractNext
  <2> QED
    BY <2>1, <2>2
<1>4. ASSUME NEW i \in DOMAIN ledger, UNCHANGED ledger,
             journal' \in {journal, [journal EXCEPT ![ledger[i].key] = ledger[i].next]}
      PROVE  [Contract!ContractNext]_(Contract!contractVars)
  <2>1. ledger[i].key \in Keys
    BY DEF Types, FilesOK, Good, Receipts
  <2>2. journal[ledger[i].key] \in Terminal =>
          journal'[ledger[i].key] = journal[ledger[i].key]
    BY <2>1, JournalKept
  <2>3. UNCHANGED journal \/ \E k \in Keys : Contract!Publish(k)
    BY <1>4, <2>2, JournalPublishes
  <2> QED
    BY <1>1, <1>4, <2>3 DEF Contract!ContractNext
<1>5. ASSUME NEW p \in Procs, RepairTerminalJournal(p)
      PROVE  [Contract!ContractNext]_(Contract!contractVars)
  <2>1. PICK i \in todo[p] :
          journal' \in {journal, [journal EXCEPT ![ledger[i].key] = ledger[i].next]}
    BY <1>5 DEF RepairTerminalJournal
  <2>2. i \in DOMAIN ledger /\ UNCHANGED ledger
    BY <1>5 DEF RepairTerminalJournal, Types, BootOK
  <2> QED
    BY <1>4, <2>1, <2>2
<1>6. ASSUME NEW p \in Procs, RecordJournal(p)
      PROVE  [Contract!ContractNext]_(Contract!contractVars)
  <2> DEFINE f == boot[p].fin
  <2>1. f.source + 1 \in DOMAIN ledger /\ ledger[f.source + 1] = f.target
    BY <1>6 DEF RecordJournal, RecoveryOK, Durable
  <2>2. /\ UNCHANGED ledger
        /\ journal' \in {journal, [journal EXCEPT ![f.target.key] = f.target.next]}
    BY <1>6 DEF RecordJournal
  <2> QED
    BY <1>4, <2>1, <2>2
<1>7. ASSUME NEW p \in Procs, Recover(p), ~AppendTarget(p), ~RepairTerminalJournal(p),
             ~RecordJournal(p)
      PROVE  UNCHANGED <<ledger, journal>>
  BY <1>7 DEF Recover, Boot, ReplayFinalization, Scan, Prepare, Commit, Recovered, Restore,
              Crash, files
<1>8. ASSUME NEW c \in Calls, Execute(c), ~Persist(c) PROVE UNCHANGED <<ledger, journal>>
  BY <1>8 DEF Execute, Run, Replay, Begin, Lose, files
<1>9. CASE UNCHANGED vars \/ StartupExpires \/ \E k \in Keys : LeaseExpires(k)
  BY <1>1, <1>9 DEF vars, StartupExpires, LeaseExpires, files
<1> QED
  BY <1>1, <1>2, <1>3, <1>5, <1>6, <1>7, <1>8, <1>9 DEF Next

\* Runtimes on stale copies of the ledger, and recoveries that crash between its append,
\* the journal and the commit, keep the contract of executions.
THEOREM Refinement == Spec => ImplementsContract
<1>1. Init => Contract!ContractInit
  BY DEF Init, Contract!ContractInit, Of
<1>2. Init => AttemptsInOrder /\ CallsAttempt /\ JournalOK
  BY DEF Init, AttemptsInOrder, CallsAttempt, Executing, Idle, JournalOK, Terminal
<1>3. Spec => [](/\ Types /\ RecoveryOK /\ RuntimeOK /\ AttemptsInOrder /\ CallsAttempt
                 /\ JournalOK /\ ReconcileOK)
  BY <1>2, TypesInit, TypesStep, RecoveryInit, RecoveryStep, RuntimeInit, RuntimeStep,
     OrderStep, AttemptStep, JournalStep, ReconcileInit, ReconcileStep, PTL DEF Spec
<1> QED
  BY <1>1, <1>3, StepRefines, PTL DEF Spec, ImplementsContract, Contract!ContractSpec
=============================================================================
