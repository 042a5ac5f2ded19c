-------------------------- MODULE ExecutionRecovery --------------------------
(***************************************************************************)
(* Execution, replay and startup recovery of Marketing OS.  Several        *)
(* processes run jobs, each job under the lease of its idempotency key,    *)
(* and append receipts to one durable ledger (LedgerLock shows how its     *)
(* file is locked; here an append is one step, which fails unless the      *)
(* sequence number of its record follows the last one).  A process that    *)
(* starts first recovers under the startup lease: it replays prepared      *)
(* finalizations, asks the provider about executions whose latest receipt  *)
(* says `retry', and writes what it learns to the ledger and to the        *)
(* reconciliation journal.  A record's sequence number is its position.    *)
(* The lease of a live holder is renewed by its heartbeat; that of a dead  *)
(* process stays until it expires.                                         *)
(***************************************************************************)
EXTENDS Naturals, Sequences

CONSTANTS Procs,        \* processes on the shared files
          Keys,         \* idempotency keys of jobs
          Calls,        \* run and replay calls under way
          MaxAttempts,  \* retryPolicy.maxAttempts
          MaxLedger,    \* bound: records of the ledger; a full disk refuses the next one
          Free,         \* a lease nobody holds
          Dead          \* the unexpired lease of a process that died

ASSUME RecoveryAssumption ==
  /\ MaxAttempts \in Nat \ {0}
  /\ MaxLedger \in Nat
  /\ Free # Dead
  /\ {Free, Dead} \intersect (Procs \union Calls) = {}

\* The nextAction of a receipt, and the decision of a journal entry with the same meaning.
Terminal == {"complete", "dead_letter"}
NextActions == Terminal \union {"retry"}

Receipts == [key : Keys, attempt : 1..MaxAttempts, next : NextActions]

\* The target of a finalization has the sequence number after its source's.
Finalizations == [source : 1..MaxLedger, target : Receipts]

VARIABLES ledger,     \* the durable receipts
          journal,    \* the latest decision on each key in the reconciliation journal
          prepared,   \* finalizations in status `prepared'
          committed,  \* finalizations in status `committed'
          startup,    \* the startup recovery lease
          lease,      \* the lease of each key: a call, Free or Dead
          boot,       \* of each process: its phase, its step in it, the finalization at hand
          pending,    \* the finalizations a starting process has still to replay
          todo,       \* the records it has still to reconcile
          memory,     \* the PersistentExecutionLedger of each running process
          call        \* of each call: its process, key and attempt while it executes

vars == <<ledger, journal, prepared, committed, startup, lease, boot, pending, todo,
          memory, call>>

files == <<ledger, journal, prepared, committed>>

work == <<pending, todo>>

Phases == {"down", "replay", "scan", "starting", "up"}
Steps == {"pick", "append", "journal", "commit"}

Idle == [pc |-> "idle"]

Of(receipts, k) == {i \in DOMAIN receipts : receipts[i].key = k}

\* latest: the last record of a key.
IsLatest(receipts, i) == \A j \in Of(receipts, receipts[i].key) : j <= i

IsPrefixOf(s, t) == Len(s) <= Len(t) /\ \A i \in DOMAIN s : s[i] = t[i]

In(p, phase, step) == boot[p].phase = phase /\ boot[p].step = step

Goto(p, phase, step) == boot' = [boot EXCEPT ![p].phase = phase, ![p].step = step]

Init ==
  /\ ledger = <<>>
  /\ journal = [k \in Keys |-> "none"]
  /\ prepared = {} /\ committed = {}
  /\ startup = Free
  /\ lease = [k \in Keys |-> Free]
  /\ boot = [p \in Procs |-> [phase |-> "down", step |-> "pick", fin |-> Idle]]
  /\ pending = [p \in Procs |-> {}]
  /\ todo = [p \in Procs |-> {}]
  /\ memory = [p \in Procs |-> <<>>]
  /\ call = [c \in Calls |-> Idle]

-----------------------------------------------------------------------------
(* StartupRecoveryController.run. *)

\* Mutant: a start does not wait for the startup lease.
BootUnleased(p) ==
  /\ boot[p].phase = "down"
  /\ startup' = p
  /\ Goto(p, "replay", "pick")
  /\ pending' = [pending EXCEPT ![p] = prepared]
  /\ UNCHANGED <<files, lease, todo, memory, call>>

\* Contention for the startup lease is no error: the process starts unrecovered.
Boot(p) ==
  /\ boot[p].phase = "down"
  /\ IF startup = Free
     THEN /\ startup' = p
          /\ Goto(p, "replay", "pick")
          /\ pending' = [pending EXCEPT ![p] = prepared]
     ELSE Goto(p, "starting", "pick") /\ UNCHANGED <<startup, pending>>
  /\ UNCHANGED <<files, lease, todo, memory, call>>

\* An error aborts the start while finalizations are replayed, and is only counted
\* while records are reconciled.
Fails(p) ==
  IF boot[p].phase = "replay"
  THEN /\ Goto(p, "down", "pick")
       /\ startup' = Free
       /\ pending' = [pending EXCEPT ![p] = {}]
  ELSE Goto(p, "scan", "pick") /\ UNCHANGED <<startup, pending>>

\* replayPendingFinalizations looks for the target in the ledger.
ReplayFinalization(p) ==
  /\ In(p, "replay", "pick")
  /\ \E f \in pending[p] :
       LET target == f.source + 1
           present == target \in DOMAIN ledger /\ ledger[target] = f.target
           missing == target = Len(ledger) + 1
       IN IF present \/ missing
          THEN /\ boot' = [boot EXCEPT ![p].step = IF present THEN "journal" ELSE "append",
                                       ![p].fin = f]
               /\ pending' = [pending EXCEPT ![p] = @ \ {f}]
               /\ UNCHANGED startup
          ELSE Fails(p)
  /\ UNCHANGED <<files, lease, todo, memory, call>>

Scan(p) ==
  /\ In(p, "replay", "pick") /\ pending[p] = {}
  /\ Goto(p, "scan", "pick")
  /\ todo' = [todo EXCEPT ![p] = {i \in DOMAIN ledger : IsLatest(ledger, i)}]
  /\ UNCHANGED <<files, startup, lease, pending, memory, call>>

\* repairTerminalJournal; an error of the journal is counted.
RepairTerminalJournal(p) ==
  /\ In(p, "scan", "pick")
  /\ \E i \in todo[p] :
       /\ ledger[i].next \in Terminal
       /\ \/ journal' = [journal EXCEPT ![ledger[i].key] = ledger[i].next]
          \/ UNCHANGED journal
       /\ todo' = [todo EXCEPT ![p] = @ \ {i}]
  /\ UNCHANGED <<ledger, prepared, committed, startup, lease, boot, pending, memory, call>>

\* The provider says what became of the execution; `unknown' is a retryable failure in
\* the receipt.  No answer, or a finalization that is not stored, is counted.
Prepare(p) ==
  /\ In(p, "scan", "pick")
  /\ \E i \in todo[p] :
       /\ ledger[i].next = "retry"
       /\ todo' = [todo EXCEPT ![p] = @ \ {i}]
       /\ \/ \E next \in NextActions :
               LET f == [source |-> i, target |-> [ledger[i] EXCEPT !.next = next]]
               IN /\ prepared' = prepared \union ({f} \ committed)
                  /\ boot' = [boot EXCEPT ![p].step = "append", ![p].fin = f]
          \/ UNCHANGED <<prepared, boot>>
  /\ UNCHANGED <<ledger, journal, committed, startup, lease, pending, memory, call>>

\* Mutant: an append that fails is taken for one that was made before.
AppendTargetLeniently(p) ==
  /\ boot[p].step = "append"
  /\ \/ /\ Len(ledger) < MaxLedger /\ boot[p].fin.source = Len(ledger)
        /\ ledger' = Append(ledger, boot[p].fin.target)
     \/ boot[p].fin.source # Len(ledger) /\ UNCHANGED ledger
  /\ Goto(p, boot[p].phase, "journal")
  /\ UNCHANGED <<journal, prepared, committed, startup, lease, work, memory, call>>

\* persistence.append; it may fail before or after the line is written.
AppendTarget(p) ==
  /\ boot[p].step = "append"
  /\ \/ /\ Len(ledger) < MaxLedger
        /\ boot[p].fin.source = Len(ledger)
        /\ ledger' = Append(ledger, boot[p].fin.target)
        /\ \/ Goto(p, boot[p].phase, "journal") /\ UNCHANGED <<startup, pending>>
           \/ Fails(p)
     \/ Fails(p) /\ UNCHANGED ledger
  /\ UNCHANGED <<journal, prepared, committed, lease, todo, memory, call>>

RecordJournal(p) ==
  /\ boot[p].step = "journal"
  /\ \/ /\ journal' = [journal EXCEPT ![boot[p].fin.target.key] = boot[p].fin.target.next]
        /\ Goto(p, boot[p].phase, "commit")
        /\ UNCHANGED <<startup, pending>>
     \/ Fails(p) /\ UNCHANGED journal
  /\ UNCHANGED <<ledger, prepared, committed, lease, todo, memory, call>>

Commit(p) ==
  /\ boot[p].step = "commit"
  /\ \/ /\ prepared' = prepared \ {boot[p].fin}
        /\ committed' = committed \union {boot[p].fin}
        /\ Goto(p, boot[p].phase, "pick")
        /\ UNCHANGED <<startup, pending>>
     \/ Fails(p) /\ UNCHANGED <<prepared, committed>>
  /\ UNCHANGED <<ledger, journal, lease, todo, memory, call>>

Recovered(p) ==
  /\ In(p, "scan", "pick") /\ todo[p] = {}
  /\ startup' = Free
  /\ Goto(p, "starting", "pick")
  /\ UNCHANGED <<files, lease, work, memory, call>>

-----------------------------------------------------------------------------
(* ExecutionRuntime. *)

\* restore reads the ledger once; nothing refreshes the copy later.
Restore(p) ==
  /\ boot[p].phase = "starting"
  /\ memory' = [memory EXCEPT ![p] = ledger]
  /\ Goto(p, "up", "pick")
  /\ UNCHANGED <<files, startup, lease, work, call>>

\* Mutant: a call does not wait for the lease of its key.
BeginUnleased(c, p, k, attempt) ==
  /\ boot[p].phase = "up"
  /\ call[c] = Idle
  /\ lease' = [lease EXCEPT ![k] = c]
  /\ call' = [call EXCEPT ![c] = [pc |-> "executing", proc |-> p, key |-> k,
                                  attempt |-> attempt]]
  /\ UNCHANGED <<files, startup, boot, work, memory>>

\* A call takes the lease of its key and executes; the executor may take its time.
Begin(c, p, k, attempt) ==
  /\ boot[p].phase = "up"
  /\ call[c] = Idle
  /\ lease[k] = Free
  /\ lease' = [lease EXCEPT ![k] = c]
  /\ call' = [call EXCEPT ![c] = [pc |-> "executing", proc |-> p, key |-> k,
                                  attempt |-> attempt]]
  /\ UNCHANGED <<files, startup, boot, work, memory>>

\* run: only a key without a record, in memory.
Run(c, p, k) == Of(memory[p], k) = {} /\ Begin(c, p, k, 1)

\* Mutant: complete and dead-lettered executions are replayed too.
ReplayAny(c, p, k) ==
  \E i \in Of(memory[p], k) :
    /\ IsLatest(memory[p], i)
    /\ memory[p][i].attempt < MaxAttempts
    /\ Begin(c, p, k, memory[p][i].attempt + 1)

\* replay: only a key whose latest record, in memory, says `retry'.
Replay(c, p, k) ==
  \E i \in Of(memory[p], k) :
    /\ IsLatest(memory[p], i)
    /\ memory[p][i].next = "retry"
    /\ Begin(c, p, k, memory[p][i].attempt + 1)

\* Mutant: the last attempt is retried once more.
OutcomesOnceMore(attempt) ==
  Terminal \union (IF attempt <= MaxAttempts THEN {"retry"} ELSE {})

\* createExecutionReceipt.
Outcomes(attempt) == Terminal \union (IF attempt < MaxAttempts THEN {"retry"} ELSE {})

\* withLease releases the lease of the key in its finally block.
End(c) ==
  /\ call' = [call EXCEPT ![c] = Idle]
  /\ lease' = [lease EXCEPT ![call[c].key] = Free]

\* Mutant: memory is updated before the durable append, which may fail.
PersistInMemoryFirst(c) ==
  /\ call[c].pc = "executing"
  /\ LET p == call[c].proc IN
     \E next \in Outcomes(call[c].attempt) :
       LET r == [key |-> call[c].key, attempt |-> call[c].attempt, next |-> next]
       IN /\ Len(ledger) < MaxLedger
          /\ Len(memory[p]) = Len(ledger)
          /\ memory' = [memory EXCEPT ![p] = Append(@, r)]
          /\ ledger' \in {ledger, Append(ledger, r)}
  /\ End(c)
  /\ UNCHANGED <<journal, prepared, committed, startup, boot, work>>

\* persistReceipt: the number of the record comes from memory.  The append may report
\* an error after the line is written; memory then misses the record for good.
Persist(c) ==
  /\ call[c].pc = "executing"
  /\ LET p == call[c].proc IN
     \E next \in Outcomes(call[c].attempt) :
       LET r == [key |-> call[c].key, attempt |-> call[c].attempt, next |-> next]
       IN /\ Len(ledger) < MaxLedger
          /\ Len(memory[p]) = Len(ledger)
          /\ ledger' = Append(ledger, r)
          /\ memory' \in {memory, [memory EXCEPT ![p] = Append(@, r)]}
  /\ End(c)
  /\ UNCHANGED <<journal, prepared, committed, startup, boot, work>>

\* The executor throws, or the append: on contention for the persistence lease, on a
\* number that does not follow the last line, on a full disk.  The effect may be there.
Lose(c) ==
  /\ call[c].pc = "executing"
  /\ End(c)
  /\ UNCHANGED <<files, startup, boot, work, memory>>

-----------------------------------------------------------------------------

Crash(p) ==
  /\ boot[p].phase # "down"
  /\ boot' = [boot EXCEPT ![p] = [phase |-> "down", step |-> "pick", fin |-> Idle]]
  /\ pending' = [pending EXCEPT ![p] = {}]
  /\ todo' = [todo EXCEPT ![p] = {}]
  /\ memory' = [memory EXCEPT ![p] = <<>>]
  /\ startup' = IF startup = p THEN Dead ELSE startup
  /\ LET mine == {c \in Calls : call[c].pc = "executing" /\ call[c].proc = p}
     IN /\ call' = [c \in Calls |-> IF c \in mine THEN Idle ELSE call[c]]
        /\ lease' = [k \in Keys |-> IF lease[k] \in mine THEN Dead ELSE lease[k]]
  /\ UNCHANGED files

\* The lease of a dead process expires.
StartupExpires ==
  /\ startup = Dead
  /\ startup' = Free
  /\ UNCHANGED <<files, lease, boot, work, memory, call>>

LeaseExpires(k) ==
  /\ lease[k] = Dead
  /\ lease' = [lease EXCEPT ![k] = Free]
  /\ UNCHANGED <<files, startup, boot, work, memory, call>>

Recover(p) ==
  \/ Boot(p) \/ ReplayFinalization(p) \/ Scan(p) \/ RepairTerminalJournal(p)
  \/ Prepare(p) \/ AppendTarget(p) \/ RecordJournal(p) \/ Commit(p) \/ Recovered(p)
  \/ Restore(p) \/ Crash(p)

Execute(c) ==
  \/ \E p \in Procs, k \in Keys : Run(c, p, k) \/ Replay(c, p, k)
  \/ Persist(c) \/ Lose(c)

Next ==
  \/ \E p \in Procs : Recover(p)
  \/ \E c \in Calls : Execute(c)
  \/ \E k \in Keys : LeaseExpires(k)
  \/ StartupExpires

Spec == Init /\ [][Next]_vars

-----------------------------------------------------------------------------
(* Properties. *)

\* Types: the ledger within its bound, one lease per key, and a call that executes has its
\* process, key and attempt (PersistentExecutionLedger, ExecutionRuntime).
TypeOK ==
  /\ ledger \in Seq(Receipts) /\ Len(ledger) <= MaxLedger
  /\ journal \in [Keys -> NextActions \union {"none"}]
  /\ prepared \subseteq Finalizations /\ committed \subseteq Finalizations
  /\ startup \in Procs \union {Free, Dead}
  /\ lease \in [Keys -> Calls \union {Free, Dead}]
  /\ boot \in [Procs -> [phase : Phases, step : Steps, fin : Finalizations \union {Idle}]]
  /\ pending \in [Procs -> SUBSET Finalizations]
  /\ todo \in [Procs -> SUBSET (1..MaxLedger)]
  /\ memory \in [Procs -> Seq(Receipts)]
  /\ call \in [Calls -> [pc : {"executing"}, proc : Procs, key : Keys,
                         attempt : 1..MaxAttempts] \union {Idle}]

\* The copy a runtime works on is the beginning of the durable ledger, however far the
\* recovery of others, its own failures and crashes have let it fall behind.
MemoryIsPrefix == \A p \in Procs : IsPrefixOf(memory[p], ledger)

\* Nothing follows the terminal receipt of a key: no replay from a stale copy and no late
\* observation reopens an execution that is complete or dead-lettered.
TerminalIsFinal ==
  \A i, j \in DOMAIN ledger :
    i < j /\ ledger[i].key = ledger[j].key => ledger[i].next = "retry"

\* The attempts of a key are recorded in order, none is skipped, and none is recorded
\* twice but for the observations that startup recovery made of it.
AttemptsInOrder ==
  \A j \in DOMAIN ledger :
    /\ \A i \in Of(ledger, ledger[j].key) : i < j =>
         \/ ledger[i].attempt < ledger[j].attempt
         \/ /\ ledger[i].attempt = ledger[j].attempt
            /\ \E f \in prepared \union committed :
                 f.source + 1 = j /\ f.target = ledger[j]
    /\ ledger[j].attempt > 1 =>
         \E i \in Of(ledger, ledger[j].key) :
           i < j /\ ledger[i].attempt = ledger[j].attempt - 1

\* The target of a committed finalization is in the ledger at its sequence number,
\* after any crash between append, journal and commit.
CommittedIsDurable ==
  \A f \in committed :
    f.source + 1 \in DOMAIN ledger /\ ledger[f.source + 1] = f.target

\* A terminal decision in the journal is the one the ledger ended the key with
\* (startup-recovery-controller.test.ts:98).
JournalIsBacked ==
  \A k \in Keys : journal[k] \in Terminal =>
    \E i \in Of(ledger, k) : IsLatest(ledger, i) /\ ledger[i].next = journal[k]

\* A terminal decision of the journal is never written over: no finalization prepared
\* before it, and no other process that recovers, still has an older one to record.
JournalIsFinal ==
  [][\A k \in Keys : journal[k] \in Terminal => journal'[k] = journal[k]]_vars

\* What the durable files say of each key, in the contract's words: positions, copies,
\* finalizations and leases are hidden.
Contract == INSTANCE ExecutionContract WITH
  receipts <- [k \in Keys |-> {[attempt |-> ledger[i].attempt, next |-> ledger[i].next] :
                               i \in Of(ledger, k)}],
  decision <- journal

\* Runtimes with stale copies and recoveries that crash between three files implement the
\* contract of executions.
ImplementsContract == Contract!ContractSpec

\* `Concurrent runtimes must persist both receipts' (execution-runtime.test.ts:101): the
\* runtime of an execution under way has every receipt that another one has recorded, and
\* so does not give its own receipt a number that is taken, which persistence refuses.
ConcurrentRunsPersist ==
  \A c \in Calls, p \in Procs :
    call[c].pc = "executing" => Len(memory[p]) <= Len(memory[call[c].proc])
=============================================================================
