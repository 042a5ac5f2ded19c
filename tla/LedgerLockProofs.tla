-------------------------- MODULE LedgerLockProofs --------------------------
(***************************************************************************)
(* Proofs about LedgerLock, for any number of writers and of appends.      *)
(***************************************************************************)
EXTENDS LedgerLock, TLAPS

\* A call under way has a lease.
LEMMA LeaseType ==
  ASSUME TypeOK, NEW w \in Writers, writer[w].calls # 0
  PROVE  Lease(w) \in Leases
<1>1. writer[w].calls \in 1..MaxCalls
  BY MaxCallsAssumption DEF TypeOK
<1> QED
  BY <1>1 DEF Lease, Leases

\* Two writers never have the same lease.
LEMMA LeasesDiffer ==
  \A v, w \in Writers : Lease(v) = Lease(w) => v = w
  BY DEF Lease

WriterType == writer \in [Writers -> [pc : Pcs, calls : 0..MaxCalls, seq : Nat]]

\* Goto moves one writer, and only its phase.
LEMMA GotoMoves ==
  ASSUME WriterType, NEW w \in Writers, NEW pc \in Pcs, Goto(w, pc)
  PROVE  /\ WriterType'
         /\ writer'[w].pc = pc
         /\ writer'[w].calls = writer[w].calls
         /\ writer'[w].seq = writer[w].seq
         /\ \A v \in Writers \ {w} : writer'[v] = writer[v]
  BY DEF WriterType, Goto

\* Return ends the append of one writer.
LEMMA ReturnMoves ==
  ASSUME WriterType, NEW w \in Writers, Return(w)
  PROVE  /\ WriterType'
         /\ writer'[w].pc = "idle"
         /\ writer'[w].calls = writer[w].calls
         /\ writer'[w].seq = 0
         /\ \A v \in Writers \ {w} : writer'[v] = writer[v]
<1>1. "idle" \in Pcs /\ 0 \in Nat
  BY DEF Pcs
<1> QED
  BY <1>1 DEF WriterType, Return

-----------------------------------------------------------------------------
(* Types. A call counter is positive outside `idle', so that leases are leases. *)

Numbered == \A w \in Writers : ~At(w, "idle") => writer[w].calls # 0

WritersOK ==
  /\ WriterType
  /\ \A w \in Writers : At(w, "idle") => writer[w].seq = 0
  /\ Numbered

FilesOK ==
  /\ lock \in Leases \union {Absent, Empty}
  /\ lapsed \subseteq Leases
  /\ ledger \in Seq(Nat)
  /\ acknowledged \subseteq Leases \X Nat
  /\ wedged \in BOOLEAN

\* The types, split into those of the writers and those of the files.
LEMMA TypeParts == TypeOK /\ Numbered <=> WritersOK /\ FilesOK
  BY DEF TypeOK, WritersOK, FilesOK, WriterType

\* A step within a call keeps the types of the writers.
LEMMA GotoOK ==
  ASSUME WritersOK, NEW w \in Writers, ~At(w, "idle"),
         NEW pc \in Pcs \ {"idle"}, Goto(w, pc)
  PROVE  WritersOK'
  BY GotoMoves DEF WritersOK, Numbered, At

\* So does the end of a call.
LEMMA ReturnOK ==
  ASSUME WritersOK, NEW w \in Writers, Return(w)
  PROVE  WritersOK'
  BY ReturnMoves DEF WritersOK, Numbered, At

\* The file is empty, the lock absent and every writer idle.
LEMMA TypeInit == Init => WritersOK /\ FilesOK
<1> SUFFICES ASSUME Init PROVE WritersOK /\ FilesOK
  OBVIOUS
<1>1. ledger \in Seq(Nat)
  BY DEF Init
<1>2. FilesOK
  BY <1>1 DEF Init, FilesOK
<1>3. "idle" \in Pcs /\ 0 \in 0..MaxCalls
  BY MaxCallsAssumption DEF Pcs
<1>4. WriterType
  BY <1>3 DEF Init, WriterType
<1>5. \A w \in Writers : writer[w].pc = "idle" /\ writer[w].seq = 0
  BY DEF Init
<1> QED
  BY <1>2, <1>4, <1>5 DEF WritersOK, Numbered, At

\* The steps that only move a writer on inside a call, or end it.
LEMMA WritersStep ==
  ASSUME WritersOK, FilesOK, NEW w \in Writers, Step(w) \/ Crash(w)
  PROVE  WritersOK'
<1>1. Pcs = {"locked", "fenced", "loaded", "written", "done", "failed", "removing",
             "idle", "calling", "reading", "stale", "quarantined", "made", "removed"}
  BY DEF Pcs, Inside
<1>2. CASE Call(w)
  <2>1. writer[w].calls + 1 \in 1..MaxCalls
    BY <1>2, MaxCallsAssumption DEF Call, WritersOK, WriterType
  <2>2. WriterType'
    BY <1>1, <1>2, <2>1 DEF Call, WritersOK, WriterType
  <2>3. /\ writer'[w].pc = "calling" /\ writer'[w].calls # 0
        /\ \A v \in Writers \ {w} : writer'[v] = writer[v]
    BY <1>2, <2>1 DEF Call, WritersOK, WriterType
  <2> QED
    BY <2>2, <2>3 DEF WritersOK, Numbered, At
<1>3. CASE Load(w)
  <2>1. CASE writer' = [writer EXCEPT ![w].pc = "loaded", ![w].seq = Len(ledger) + 1]
    <3>1. Len(ledger) + 1 \in Nat
      BY DEF FilesOK
    <3>2. WriterType'
      BY <1>1, <2>1, <3>1 DEF WritersOK, WriterType
    <3>3. /\ writer'[w].pc = "loaded" /\ writer'[w].calls = writer[w].calls
          /\ \A v \in Writers \ {w} : writer'[v] = writer[v]
      BY <2>1, <3>1 DEF WritersOK, WriterType
    <3>4. writer[w].calls # 0
      BY <1>3 DEF Load, WritersOK, Numbered, At
    <3> QED
      BY <3>2, <3>3, <3>4 DEF WritersOK, Numbered, At
  <2> QED
    BY <1>1, <1>3, <2>1, GotoOK DEF Load, At
<1>4. CASE Crash(w)
  BY <1>4, ReturnOK DEF Crash
<1>5. CASE \/ MakeDirectory(w) \/ ReadLease(w) \/ Quarantine(w) \/ MakeDirectoryAgain(w)
           \/ WriteLease(w) \/ WriteLeaseFails(w)
  BY <1>1, <1>5, GotoOK, ReturnOK
     DEF MakeDirectory, ReadLease, Quarantine, MakeDirectoryAgain, WriteLease, WriteLeaseFails,
         Retry, At
<1>6. CASE \/ Fence(w) \/ AppendRecord(w) \/ FenceAgain(w)
           \/ CheckRelease(w) \/ RemoveFile(w) \/ RemoveDirectory(w)
  BY <1>1, <1>6, GotoOK, ReturnOK
     DEF Fence, AppendRecord, FenceAgain, CheckRelease, RemoveFile, RemoveDirectory, At
<1> QED
  BY <1>2, <1>3, <1>4, <1>5, <1>6 DEF Step

\* What a step of a writer does to the lock, the file and the acknowledged numbers.
LEMMA FilesStep ==
  ASSUME WritersOK, FilesOK, NEW w \in Writers, Step(w) \/ Crash(w)
  PROVE  FilesOK'
<1>1. CASE AppendRecord(w)
  <2>1. writer[w].seq \in Nat
    BY DEF WritersOK, WriterType
  <2>2. Append(ledger, writer[w].seq) \in Seq(Nat)
    BY <2>1 DEF FilesOK
  <2> QED
    BY <1>1, <2>2 DEF AppendRecord, FilesOK
<1>2. CASE WriteLease(w) \/ CheckRelease(w)
  <2>1. Lease(w) \in Leases /\ writer[w].seq \in Nat
    BY <1>2, LeaseType, TypeParts DEF WriteLease, CheckRelease, Numbered, At, WritersOK,
       WriterType
  <2>2. wedged' \in BOOLEAN
    BY <1>2 DEF WriteLease, CheckRelease, Put, FilesOK
  <2>3. UNCHANGED <<lapsed, ledger>> /\ lock' \in {lock, Lease(w)}
    BY <1>2 DEF WriteLease, CheckRelease, Put
  <2>4. acknowledged' \subseteq acknowledged \union {<<Lease(w), writer[w].seq>>}
    BY <1>2 DEF WriteLease, CheckRelease
  <2> QED
    BY <2>1, <2>2, <2>3, <2>4 DEF FilesOK
<1>3. CASE Call(w) \/ ReadLease(w) \/ Fence(w) \/ Load(w) \/ FenceAgain(w)
  BY <1>3 DEF Call, ReadLease, Fence, Load, FenceAgain, FilesOK
<1>5. CASE \/ MakeDirectory(w) \/ Quarantine(w) \/ MakeDirectoryAgain(w)
           \/ WriteLeaseFails(w) \/ RemoveFile(w) \/ RemoveDirectory(w)
  <2>1. UNCHANGED <<lapsed, ledger, acknowledged>>
    BY <1>5 DEF MakeDirectory, Quarantine, MakeDirectoryAgain, WriteLeaseFails, RemoveFile,
                RemoveDirectory
  <2>2. lock' \in {lock, Absent, Empty}
    BY <1>5 DEF MakeDirectory, Quarantine, MakeDirectoryAgain, WriteLeaseFails, RemoveFile,
                RemoveDirectory, Put
  <2>3. wedged' \in BOOLEAN
    BY <1>5 DEF MakeDirectory, Quarantine, MakeDirectoryAgain, WriteLeaseFails, RemoveFile,
                RemoveDirectory, Put, FilesOK
  <2> QED
    BY <2>1, <2>2, <2>3 DEF FilesOK
<1>4. CASE Crash(w)
  BY <1>4 DEF Crash, FilesOK
<1> QED
  BY <1>1, <1>2, <1>3, <1>4, <1>5 DEF Step

\* Every step keeps the types: one case per action.
LEMMA TypeStep ==
  ASSUME WritersOK, FilesOK, [Next]_vars
  PROVE  (WritersOK /\ FilesOK)'
<1>1. CASE UNCHANGED vars
  BY <1>1 DEF vars, WritersOK, FilesOK, WriterType, Numbered, At
<1>2. CASE Lapse
  BY <1>2 DEF Lapse, WritersOK, FilesOK, WriterType, Numbered, At
<1> QED
  BY <1>1, <1>2, WritersStep, FilesStep DEF Next

\* Every variable keeps its type.
THEOREM TypeCorrect == Spec => [](TypeOK /\ WritersOK /\ FilesOK)
<1>1. Spec => [](WritersOK /\ FilesOK)
  BY TypeInit, TypeStep, PTL DEF Spec
<1> QED
  BY <1>1, TypeParts, PTL

-----------------------------------------------------------------------------
(* Exclusion. Until a lease lapses nobody takes a lock over, and whoever made the
   directory finds it as it left it. *)

Owning == Inside \union {"made", "removed"}

Exclusion ==
  lapsed = {} =>
    /\ \A w \in Writers : writer[w].pc \notin {"stale", "quarantined"}
    /\ \A v, w \in Writers : writer[v].pc \in Owning /\ writer[w].pc \in Owning => v = w
    /\ \A w \in Writers : writer[w].pc \in {"made", "removed"} => lock = Empty
    /\ \A w \in Writers : writer[w].pc \in Inside => Mine(w)

\* A step of a writer that stays inside, or outside, the lock and leaves it alone.
LEMMA ExclusionKept ==
  ASSUME WritersOK, WritersOK', Exclusion, NEW w \in Writers,
         UNCHANGED <<lock, lapsed>>,
         writer'[w].calls = writer[w].calls \/ writer'[w].pc \notin Inside,
         \A v \in Writers \ {w} : writer'[v] = writer[v],
         writer'[w].pc \in Inside => writer[w].pc \in Inside,
         lapsed = {} => writer'[w].pc \notin {"stale", "quarantined", "made", "removed"}
  PROVE  Exclusion'
  BY DEF Exclusion, Owning, Inside, Mine, Lease

\* Until a lease lapses no lock is taken for stale, so mkdir alone decides who is inside.
LEMMA ExclusionStep ==
  ASSUME WritersOK, FilesOK, WritersOK', Exclusion, [Next]_vars
  PROVE  Exclusion'
<1>1. CASE UNCHANGED vars
  BY <1>1 DEF vars, Exclusion, Mine, Lease
<1>2. CASE Lapse
  BY <1>2 DEF Lapse, Exclusion
<1>3. ASSUME NEW w \in Writers, \/ Call(w) \/ Crash(w) \/ ReadLease(w) \/ Fence(w)
                                \/ Load(w) \/ AppendRecord(w) \/ FenceAgain(w) \/ CheckRelease(w)
      PROVE  Exclusion'
  <2>1. Pcs = {"locked", "fenced", "loaded", "written", "done", "failed", "removing",
               "idle", "calling", "reading", "stale", "quarantined", "made", "removed"}
    BY DEF Pcs, Inside
  <2>2. UNCHANGED <<lock, lapsed>>
    BY <1>3 DEF Call, Crash, ReadLease, Fence, Load, AppendRecord, FenceAgain, CheckRelease
  <2>3. CASE Call(w)
    <3>1. /\ writer'[w].pc = "calling"
          /\ \A v \in Writers \ {w} : writer'[v] = writer[v]
      BY <2>3 DEF Call, WritersOK, WriterType
    <3> QED
      BY <2>2, <3>1, ExclusionKept DEF Inside
  <2>4. CASE Crash(w) \/ ReadLease(w)
    <3>1. \/ writer'[w].pc \in {"idle", "calling"}
          \/ writer'[w].pc = "stale" /\ lapsed # {}
      BY <2>1, <2>4, GotoMoves, ReturnMoves DEF Crash, ReadLease, Retry, WritersOK
    <3>2. /\ writer'[w].calls = writer[w].calls
          /\ \A v \in Writers \ {w} : writer'[v] = writer[v]
      BY <2>1, <2>4, GotoMoves, ReturnMoves DEF Crash, ReadLease, Retry, WritersOK
    <3> QED
      BY <2>2, <3>1, <3>2, ExclusionKept DEF Inside
  <2>5. CASE Load(w)
    <3>1. /\ writer'[w].pc \in {"loaded", "failed"}
          /\ writer'[w].calls = writer[w].calls
          /\ \A v \in Writers \ {w} : writer'[v] = writer[v]
      BY <2>5 DEF Load, Goto, WritersOK, WriterType
    <3>2. writer[w].pc \in Inside
      BY <2>5 DEF Load, At, Inside
    <3> QED
      BY <2>2, <3>1, <3>2, ExclusionKept
  <2>6. CASE Fence(w) \/ AppendRecord(w) \/ FenceAgain(w) \/ CheckRelease(w)
    <3>1. /\ writer'[w].pc \in {"fenced", "written", "done", "failed", "removing", "idle"}
          /\ writer'[w].calls = writer[w].calls
          /\ \A v \in Writers \ {w} : writer'[v] = writer[v]
      BY <2>1, <2>6, GotoMoves, ReturnMoves
         DEF Fence, AppendRecord, FenceAgain, CheckRelease, WritersOK
    <3>2. writer[w].pc \in Inside
      BY <2>6 DEF Fence, AppendRecord, FenceAgain, CheckRelease, At, Inside
    <3> QED
      BY <2>2, <3>1, <3>2, ExclusionKept
  <2> QED
    BY <1>3, <2>3, <2>4, <2>5, <2>6
<1>4. ASSUME NEW w \in Writers,
             \/ MakeDirectory(w) \/ Quarantine(w) \/ MakeDirectoryAgain(w) \/ WriteLease(w)
             \/ WriteLeaseFails(w) \/ RemoveFile(w) \/ RemoveDirectory(w),
             lapsed' = {}
      PROVE  Exclusion'
  <2>1. Pcs = {"locked", "fenced", "loaded", "written", "done", "failed", "removing",
               "idle", "calling", "reading", "stale", "quarantined", "made", "removed"}
    BY DEF Pcs, Inside
  <2>2. lapsed = {}
    BY <1>4
       DEF MakeDirectory, Quarantine, MakeDirectoryAgain, WriteLease, WriteLeaseFails, RemoveFile,
           RemoveDirectory
  <2>3. ~Quarantine(w) /\ ~MakeDirectoryAgain(w)
    BY <2>2 DEF Quarantine, MakeDirectoryAgain, Exclusion, At
  <2>4. CASE MakeDirectory(w)
    <3>1. CASE lock = Absent
      <4>1. \A v \in Writers : writer[v].pc \notin Owning
        BY <2>2, <3>1, LockAssumption, LeaseType, TypeParts
           DEF Exclusion, Owning, Mine, WritersOK, Numbered, At, Inside
      <4>2. /\ writer'[w].pc = "made" /\ lock' = Empty
            /\ \A v \in Writers \ {w} : writer'[v] = writer[v]
        BY <2>1, <2>4, <3>1, GotoMoves DEF MakeDirectory, Put, WritersOK
      <4> QED
        BY <2>2, <4>1, <4>2 DEF Exclusion, Owning, Inside, Mine, Lease
    <3>2. CASE lock # Absent
      <4>1. /\ writer'[w].pc = "reading" /\ UNCHANGED <<lock, lapsed>>
            /\ \A v \in Writers \ {w} : writer'[v] = writer[v]
        BY <2>1, <2>4, <3>2, GotoMoves DEF MakeDirectory, WritersOK
      <4> QED
        BY <4>1, ExclusionKept DEF Inside
    <3> QED
      BY <3>1, <3>2
  <2>5. CASE WriteLease(w)
    <3>1. writer[w].pc = "made" /\ lock = Empty
      BY <2>2, <2>5 DEF WriteLease, At, Exclusion
    <3>2. /\ writer'[w].pc = "locked" /\ lock' = Lease(w)
          /\ writer'[w].calls = writer[w].calls
          /\ \A v \in Writers \ {w} : writer'[v] = writer[v]
      BY <2>1, <2>5, <3>1, GotoMoves DEF WriteLease, Put, WritersOK
    <3> QED
      BY <2>2, <3>1, <3>2 DEF Exclusion, Owning, Inside, Mine, Lease
  <2>6. CASE RemoveFile(w)
    <3>1. writer[w].pc = "removing" /\ lock = Lease(w)
      BY <2>2, <2>6 DEF RemoveFile, At, Exclusion, Inside, Mine
    <3>2. Lease(w) \in Leases
      BY <3>1, LeaseType, TypeParts DEF WritersOK, Numbered, At
    <3>3. /\ writer'[w].pc = "removed" /\ lock' = Empty
          /\ \A v \in Writers \ {w} : writer'[v] = writer[v]
      BY <2>1, <2>6, <3>1, <3>2, GotoMoves DEF RemoveFile, Put, WritersOK
    <3> QED
      BY <2>2, <3>1, <3>3 DEF Exclusion, Owning, Inside
  <2>7. CASE RemoveDirectory(w)
    <3>1. writer[w].pc = "removed"
      BY <2>7 DEF RemoveDirectory, At
    <3>2. /\ writer'[w].pc = "idle"
          /\ \A v \in Writers \ {w} : writer'[v] = writer[v]
      BY <2>7, ReturnMoves DEF RemoveDirectory, WritersOK
    <3>3. \A v \in Writers : writer'[v].pc \notin Owning
      BY <2>2, <3>1, <3>2 DEF Exclusion, Owning, Inside
    <3>4. \A v \in Writers : writer'[v].pc \notin {"stale", "quarantined"}
      BY <2>2, <3>2 DEF Exclusion
    <3> QED
      BY <3>3, <3>4 DEF Exclusion, Owning
  <2>8. CASE WriteLeaseFails(w)
    <3>1. writer[w].pc = "made" /\ lock = Empty
      BY <2>2, <2>8 DEF WriteLeaseFails, At, Exclusion
    <3>2. /\ writer'[w].pc = "idle" /\ lock' = Empty
          /\ \A v \in Writers \ {w} : writer'[v] = writer[v]
      BY <2>8, <3>1, LockAssumption, ReturnMoves DEF WriteLeaseFails, WritersOK
    <3>3. \A v \in Writers : writer'[v].pc \notin Owning
      BY <2>2, <3>1, <3>2 DEF Exclusion, Owning, Inside
    <3>4. \A v \in Writers : writer'[v].pc \notin {"stale", "quarantined"}
      BY <2>2, <3>2 DEF Exclusion
    <3> QED
      BY <3>3, <3>4 DEF Exclusion, Owning
  <2> QED
    BY <1>4, <2>3, <2>4, <2>5, <2>6, <2>7, <2>8
<1>5. ASSUME lapsed' # {}
      PROVE  Exclusion'
  BY <1>5 DEF Exclusion
<1> QED
  BY <1>1, <1>2, <1>3, <1>4, <1>5 DEF Next, Step

\* Nobody is inside.
LEMMA ExclusionInit == Init => Exclusion
  BY DEF Init, Exclusion, Owning, Inside, Mine

\* While no lease has lapsed nobody takes a lock over, one writer at most makes, holds or
\* removes the lock, finds it Empty while it makes or removes it, and finds its own lease in
\* it while it is inside (FileExecutionLeaseStore.acquire and release).
THEOREM ExclusionInvariant == Spec => []Exclusion
  BY TypeInit, TypeStep, ExclusionInit, ExclusionStep, PTL DEF Spec

\* One writer at a time is inside the lock as long as no lease has lapsed, whatever
\* the number of writers, calls and crashes.
THEOREM Exclusive == Spec => []ExclusiveUntilLapse
<1>1. Exclusion => ExclusiveUntilLapse
  BY DEF Exclusion, ExclusiveUntilLapse, Owning
<1> QED
  BY <1>1, ExclusionInvariant, PTL

-----------------------------------------------------------------------------
(* Numbers. Until a lease lapses the writer that has read the tail is alone. *)

TailOK ==
  lapsed = {} =>
    /\ Contiguous
    /\ \A w \in Writers : At(w, "loaded") => writer[w].seq = Len(ledger) + 1

\* The writer inside the lock appends the number after the tail it read, and nobody else
\* appends meanwhile.
LEMMA TailStep ==
  ASSUME WritersOK, FilesOK, Exclusion, TailOK, [Next]_vars
  PROVE  TailOK'
<1>1. CASE UNCHANGED vars
  BY <1>1 DEF vars, TailOK, Contiguous, At
<1>2. CASE Lapse
  BY <1>2 DEF Lapse, TailOK
<1>3. ASSUME NEW w \in Writers, AppendRecord(w)
      PROVE  TailOK'
  <2>1. CASE Goto(w, "failed") /\ UNCHANGED ledger
    BY <1>3, <2>1 DEF AppendRecord, Goto, WritersOK, WriterType, TailOK, Contiguous, At
  <2>2. CASE lapsed = {} /\ ledger' = Append(ledger, writer[w].seq) /\ Goto(w, "written")
    <3>1. writer[w].seq = Len(ledger) + 1 /\ Contiguous
      BY <1>3, <2>2 DEF AppendRecord, TailOK
    <3>2. ledger \in Seq(Nat) /\ writer[w].seq \in Nat
      BY DEF FilesOK, WritersOK, WriterType
    <3>3. DOMAIN ledger' = 1..Len(ledger) + 1
      BY <2>2, <3>2
    <3>4. \A i \in 1..Len(ledger) : ledger'[i] = ledger[i]
      BY <2>2, <3>2
    <3>5. ledger'[Len(ledger) + 1] = Len(ledger) + 1
      BY <2>2, <3>1, <3>2
    <3>6. \A i \in DOMAIN ledger' : ledger'[i] = i
      <4>1. \A i \in 1..Len(ledger) : ledger[i] = i
        BY <3>1, <3>2 DEF Contiguous
      <4> QED
        BY <3>2, <3>3, <3>4, <3>5, <4>1
    <3>7. \A v \in Writers : writer'[v].pc # "loaded"
      BY <1>3, <2>2
         DEF AppendRecord, Goto, WritersOK, WriterType, At, Exclusion, Owning, Inside
    <3> QED
      BY <3>6, <3>7 DEF TailOK, Contiguous, At
  <2>3. CASE lapsed # {}
    BY <1>3, <2>3 DEF AppendRecord, TailOK
  <2> QED
    BY <1>3, <2>1, <2>2, <2>3 DEF AppendRecord
<1>4. ASSUME NEW w \in Writers, Load(w)
      PROVE  TailOK'
  <2>1. Len(ledger) + 1 \in Nat
    BY DEF FilesOK
  <2> QED
    BY <1>4, <2>1 DEF Load, Goto, WritersOK, WriterType, TailOK, Contiguous, At
<1>5. ASSUME NEW w \in Writers, Call(w)
      PROVE  TailOK'
  BY <1>5 DEF Call, WritersOK, WriterType, TailOK, Contiguous, At
<1>6. ASSUME NEW w \in Writers,
             \/ MakeDirectory(w) \/ ReadLease(w) \/ Quarantine(w) \/ MakeDirectoryAgain(w)
             \/ WriteLease(w) \/ WriteLeaseFails(w) \/ Fence(w) \/ FenceAgain(w)
             \/ CheckRelease(w) \/ RemoveFile(w) \/ RemoveDirectory(w) \/ Crash(w)
      PROVE  TailOK'
  <2>1. /\ UNCHANGED <<ledger, lapsed>>
        /\ \/ Return(w)
           \/ \E pc \in Pcs \ {"loaded"} : Goto(w, pc)
    BY <1>6
       DEF MakeDirectory, ReadLease, Quarantine, MakeDirectoryAgain, WriteLease,
           WriteLeaseFails, Fence, FenceAgain, CheckRelease, RemoveFile, RemoveDirectory, Crash,
           Retry, Pcs, Inside
  <2>2. /\ writer'[w].pc # "loaded"
        /\ \A v \in Writers \ {w} : writer'[v] = writer[v]
    BY <2>1, GotoMoves, ReturnMoves DEF WritersOK
  <2> QED
    BY <2>1, <2>2 DEF TailOK, Contiguous, At
<1> QED
  BY <1>1, <1>2, <1>3, <1>4, <1>5, <1>6 DEF Next, Step

\* The ledger file can be read back as long as no lease has lapsed.
THEOREM ReadableUntilLapse == Spec => []ContiguousUntilLapse
<1>1. Init => TailOK
  BY DEF Init, TailOK, Contiguous, At
<1>2. TailOK => ContiguousUntilLapse
  BY DEF TailOK, ContiguousUntilLapse
<1> QED
  BY <1>1, <1>2, TypeInit, TypeStep, ExclusionInit, ExclusionStep, TailStep, PTL DEF Spec

-----------------------------------------------------------------------------
(* Acknowledged appends. A lease is written into the lock once, so a writer that still
   finds its own there knows that no other append succeeded since it read the tail. *)

Acknowledgement ==
  /\ \A a \in acknowledged : a[2] <= Len(ledger)
  /\ \A w \in Writers : At(w, "loaded") => writer[w].seq <= Len(ledger) + 1
  /\ \A w \in Writers : writer[w].pc \in {"written", "done"} => writer[w].seq <= Len(ledger)
  /\ \A w \in Writers : Mine(w) /\ writer[w].pc \in {"loaded", "written", "done"} =>
       \A a \in acknowledged : a[2] < writer[w].seq
  /\ AcknowledgedOnce

\* A writer reports success only after it saw its own lease in the lock after the write, and
\* nobody acquires the lock between its read of the tail and that: its number is its own.
LEMMA AcknowledgementStep ==
  ASSUME WritersOK, FilesOK, Acknowledgement, [Next]_vars
  PROVE  Acknowledgement'
<1> DEFINE Working == {"loaded", "written", "done"}
<1>1. CASE UNCHANGED vars \/ Lapse
  BY <1>1 DEF vars, Lapse, Acknowledgement, AcknowledgedOnce, Mine, Lease, At
<1>2. /\ Len(ledger) \in Nat
      /\ \A a \in acknowledged : a[2] \in Nat
      /\ \A w \in Writers : writer[w].seq \in Nat
  BY DEF FilesOK, WritersOK, WriterType
<1>3. ASSUME NEW w \in Writers,
             \/ MakeDirectory(w) \/ ReadLease(w) \/ Quarantine(w) \/ MakeDirectoryAgain(w)
             \/ WriteLease(w) \/ WriteLeaseFails(w) \/ Fence(w) \/ RemoveFile(w)
             \/ RemoveDirectory(w) \/ Crash(w) \/ Call(w)
      PROVE  Acknowledgement'
  <2>1. Pcs = {"locked", "fenced", "loaded", "written", "done", "failed", "removing",
               "idle", "calling", "reading", "stale", "quarantined", "made", "removed"}
    BY DEF Pcs, Inside
  <2>2. /\ UNCHANGED <<ledger, acknowledged>>
        /\ writer'[w].pc \notin Working
        /\ \A v \in Writers \ {w} : writer'[v] = writer[v]
    <3>1. CASE Call(w)
      BY <3>1 DEF Call, WritersOK, WriterType
    <3>2. CASE ~Call(w)
      BY <1>3, <2>1, <3>2, GotoMoves, ReturnMoves
         DEF MakeDirectory, ReadLease, Quarantine, MakeDirectoryAgain, WriteLease,
             WriteLeaseFails, Fence, RemoveFile, RemoveDirectory, Crash, Retry, WritersOK
    <3> QED
      BY <3>1, <3>2
  <2>3. \A v \in Writers \ {w} : writer[v].pc \in Working /\ Mine(v)' => Mine(v)
    <3>1. lock' \in {lock, Absent, Empty, Lease(w)}
      BY <1>3
         DEF MakeDirectory, ReadLease, Quarantine, MakeDirectoryAgain, WriteLease,
             WriteLeaseFails, Fence, RemoveFile, RemoveDirectory, Crash, Call, Put
    <3>2. \A v \in Writers \ {w} : Lease(v)' = Lease(v)
      BY <2>2 DEF Lease
    <3>3. \A v \in Writers \ {w} : writer[v].pc \in Working => Lease(v) \in Leases
      BY LeaseType, TypeParts DEF WritersOK, Numbered, At
    <3> QED
      BY <3>1, <3>2, <3>3, LeasesDiffer, LockAssumption DEF Mine
  <2> QED
    BY <2>2, <2>3 DEF Acknowledgement, AcknowledgedOnce, At
<1>4. ASSUME NEW w \in Writers, Load(w)
      PROVE  Acknowledgement'
  <2>1. Len(ledger) + 1 \in Nat
    BY <1>2
  <2>2. /\ UNCHANGED <<lock, ledger, acknowledged>>
        /\ writer'[w].pc \in {"loaded", "failed"}
        /\ writer'[w].pc = "loaded" => writer'[w].seq = Len(ledger) + 1
        /\ \A v \in Writers \ {w} : writer'[v] = writer[v]
    BY <1>4, <2>1 DEF Load, Goto, WritersOK, WriterType
  <2>3. \A v \in Writers \ {w} : Mine(v)' <=> Mine(v)
    BY <2>2 DEF Mine, Lease
  <2>4. \A a \in acknowledged : a[2] < Len(ledger) + 1
    BY <1>2 DEF Acknowledgement
  <2>5. Len(ledger) + 1 <= Len(ledger) + 1
    BY <1>2
  <2> QED
    BY <2>2, <2>3, <2>4, <2>5 DEF Acknowledgement, AcknowledgedOnce, At
<1>5. ASSUME NEW w \in Writers, AppendRecord(w)
      PROVE  Acknowledgement'
  <2>1. /\ UNCHANGED <<lock, acknowledged>>
        /\ writer[w].pc = "loaded"
        /\ writer'[w].calls = writer[w].calls /\ writer'[w].seq = writer[w].seq
        /\ \A v \in Writers \ {w} : writer'[v] = writer[v]
    BY <1>5, GotoMoves DEF AppendRecord, At, WritersOK, Pcs, Inside
  <2>2. \/ /\ writer'[w].pc = "failed" /\ UNCHANGED ledger
        \/ /\ writer'[w].pc = "written" /\ Len(ledger') = Len(ledger) + 1
    BY <1>2, <1>5, GotoMoves DEF AppendRecord, WritersOK, FilesOK, Pcs, Inside
  <2>3. \A v \in Writers : Mine(v)' <=> Mine(v)
    BY <2>1 DEF Mine, Lease
  <2>4. Len(ledger') \in Nat /\ Len(ledger) <= Len(ledger')
    BY <1>2, <2>2
  <2>5. writer[w].seq <= Len(ledger) + 1
    BY <2>1 DEF Acknowledgement, At
  <2>6. \A a \in acknowledged : a[2] <= Len(ledger')
    BY <1>2, <2>4 DEF Acknowledgement
  <2>7. \A v \in Writers \ {w} : At(v, "loaded") => writer[v].seq <= Len(ledger') + 1
    BY <1>2, <2>4 DEF Acknowledgement
  <2>8. \A v \in Writers \ {w} :
          writer[v].pc \in {"written", "done"} => writer[v].seq <= Len(ledger')
    BY <1>2, <2>4 DEF Acknowledgement
  <2>9. writer'[w].pc \in {"written", "done"} => writer'[w].seq <= Len(ledger')
    BY <2>1, <2>2, <2>5
  <2> QED
    BY <2>1, <2>2, <2>3, <2>6, <2>7, <2>8, <2>9 DEF Acknowledgement, AcknowledgedOnce, At
<1>6. ASSUME NEW w \in Writers, FenceAgain(w)
      PROVE  Acknowledgement'
  <2>1. /\ UNCHANGED <<lock, ledger, acknowledged>>
        /\ writer[w].pc = "written" /\ writer'[w].pc \in {"done", "failed"}
        /\ writer'[w].calls = writer[w].calls /\ writer'[w].seq = writer[w].seq
        /\ \A v \in Writers \ {w} : writer'[v] = writer[v]
    BY <1>6, GotoMoves DEF FenceAgain, At, WritersOK, Pcs, Inside
  <2>2. \A v \in Writers : Mine(v)' <=> Mine(v)
    BY <2>1 DEF Mine, Lease
  <2> QED
    BY <2>1, <2>2 DEF Acknowledgement, AcknowledgedOnce, At
<1>7. ASSUME NEW w \in Writers, CheckRelease(w)
      PROVE  Acknowledgement'
  <2>1. /\ UNCHANGED <<lock, ledger>>
        /\ writer'[w].pc \in {"removing", "idle"}
        /\ \A v \in Writers \ {w} : writer'[v] = writer[v]
    BY <1>7, GotoMoves, ReturnMoves DEF CheckRelease, WritersOK, Pcs, Inside
  <2>2. \A v \in Writers \ {w} : Mine(v)' <=> Mine(v)
    BY <2>1 DEF Mine, Lease
  <2>3. CASE UNCHANGED acknowledged
    BY <2>1, <2>2, <2>3 DEF Acknowledgement, AcknowledgedOnce, At
  <2>4. CASE /\ At(w, "done") /\ Mine(w)
             /\ acknowledged' = acknowledged \union {<<Lease(w), writer[w].seq>>}
    <3>1. \A a \in acknowledged : a[2] < writer[w].seq
      BY <2>4 DEF Acknowledgement, At
    <3>2. writer[w].seq <= Len(ledger)
      BY <2>4 DEF Acknowledgement, At
    <3>3. \A v \in Writers \ {w} : ~Mine(v)
      BY <2>4, LeasesDiffer DEF Mine
    <3>4. \A a \in acknowledged : a[2] # writer[w].seq
      BY <1>2, <3>1
    <3>5. AcknowledgedOnce'
      BY <2>4, <3>4 DEF Acknowledgement, AcknowledgedOnce
    <3>6. \A a \in acknowledged' : a[2] <= Len(ledger)
      BY <2>4, <3>2 DEF Acknowledgement
    <3> QED
      BY <2>1, <2>2, <3>3, <3>5, <3>6 DEF Acknowledgement, At
  <2> QED
    BY <1>7, <2>3, <2>4 DEF CheckRelease
<1> QED
  BY <1>1, <1>3, <1>4, <1>5, <1>6, <1>7 DEF Next, Step

\* Whatever lapses, races or dies, two appends that report success never stand for the
\* same number.
THEOREM AcknowledgedOnceHolds == Spec => []AcknowledgedOnce
<1>1. Init => Acknowledgement
  BY DEF Init, Acknowledgement, AcknowledgedOnce, At
<1>2. Acknowledgement => AcknowledgedOnce
  BY DEF Acknowledgement
<1> QED
  BY <1>1, <1>2, TypeInit, TypeStep, AcknowledgementStep, PTL DEF Spec

-----------------------------------------------------------------------------
(* An empty lock directory belongs to a writer that makes it or removes it, unless one that
   was to do so failed. *)

\* A step that does not change the lock keeps the writers that tend it, or wedges it.
LEMMA EmptyKept ==
  ASSUME OnlyAFailureWedges, NEW w \in Writers, lock' = lock, wedged => wedged',
         \A v \in Writers \ {w} : writer'[v] = writer[v],
         lock = Empty /\ writer[w].pc \in {"made", "removed"} =>
           wedged' \/ writer'[w].pc \in {"made", "removed"}
  PROVE  OnlyAFailureWedges'
BY DEF OnlyAFailureWedges

\* Each Empty lock has a writer that makes it or removes it, or a failure has wedged it.
LEMMA EmptyStep ==
  ASSUME WritersOK, FilesOK, OnlyAFailureWedges, [Next]_vars
  PROVE  OnlyAFailureWedges'
<1> DEFINE Tending == {"made", "removed"}
<1>1. CASE UNCHANGED vars \/ Lapse
  BY <1>1 DEF vars, Lapse, OnlyAFailureWedges
<1>2. Pcs = {"locked", "fenced", "loaded", "written", "done", "failed", "removing",
             "idle", "calling", "reading", "stale", "quarantined", "made", "removed"}
  BY DEF Pcs, Inside
<1>3. ASSUME NEW w \in Writers, Step(w) \/ Crash(w)
      PROVE  OnlyAFailureWedges'
  <2>1. CASE MakeDirectory(w) \/ MakeDirectoryAgain(w) \/ RemoveFile(w)
    <3>1. \/ writer'[w].pc \in Tending
          \/ /\ UNCHANGED <<lock, wedged>> /\ writer[w].pc \notin Tending
             /\ \A v \in Writers \ {w} : writer'[v] = writer[v]
      BY <1>2, <2>1, GotoMoves, ReturnMoves
         DEF MakeDirectory, MakeDirectoryAgain, RemoveFile, Retry, WritersOK, At
    <3> QED
      BY <3>1, EmptyKept DEF OnlyAFailureWedges
  <2>2. CASE WriteLease(w) \/ Quarantine(w) \/ RemoveDirectory(w)
    <3>1. WriteLease(w) => Lease(w) \in Leases
      BY LeaseType, TypeParts DEF WriteLease, WritersOK, Numbered, At
    <3>2. lock' # Empty
      BY <2>2, <3>1, LockAssumption DEF WriteLease, Quarantine, RemoveDirectory, Put
    <3> QED
      BY <3>2 DEF OnlyAFailureWedges
  <2>3. CASE WriteLeaseFails(w)
    BY <2>3 DEF WriteLeaseFails, OnlyAFailureWedges
  <2>4. CASE \/ Call(w) \/ ReadLease(w) \/ Fence(w) \/ Load(w) \/ AppendRecord(w)
             \/ FenceAgain(w) \/ CheckRelease(w)
    <3>1. UNCHANGED <<lock, wedged>> /\ writer[w].pc \notin Tending
      BY <2>4 DEF Call, ReadLease, Fence, Load, AppendRecord, FenceAgain, CheckRelease, At
    <3>2. \A v \in Writers \ {w} : writer'[v] = writer[v]
      BY <2>4 DEF Call, ReadLease, Fence, Load, AppendRecord, FenceAgain, CheckRelease,
                  Goto, Return, Retry, WritersOK, WriterType
    <3> QED
      BY <3>1, <3>2, EmptyKept
  <2>5. CASE Crash(w)
    <3>1. \A v \in Writers \ {w} : writer'[v] = writer[v]
      BY <2>5, ReturnMoves DEF Crash, WritersOK
    <3> QED
      BY <2>5, <3>1, EmptyKept DEF Crash
  <2> QED
    BY <1>3, <2>1, <2>2, <2>3, <2>4, <2>5 DEF Step
<1> QED
  BY <1>1, <1>3 DEF Next

\* No race of acquire, takeover and release leaves a lock directory that blocks everyone:
\* only a death or a failed file operation after its directory was made or emptied does.
THEOREM OnlyAFailureWedgesHolds == Spec => []OnlyAFailureWedges
<1>1. Init => OnlyAFailureWedges
  BY LockAssumption DEF Init, OnlyAFailureWedges
<1> QED
  BY <1>1, TypeInit, TypeStep, EmptyStep, PTL DEF Spec

-----------------------------------------------------------------------------
(* The shared log. A writer that has written finds its record in the file, and as the last
   one until a lease lapses. *)

Stored ==
  \A w \in Writers :
    /\ writer[w].pc \in {"loaded", "written", "done"} => writer[w].seq # 0
    /\ writer[w].pc \in {"written", "done"} =>
         \E i \in DOMAIN ledger :
           ledger[i] = writer[w].seq /\ (lapsed = {} => i = Len(ledger))

\* The record is there from the append to the release; before a lapse nobody appends
\* meanwhile.
LEMMA StoredStep ==
  ASSUME WritersOK, FilesOK, Exclusion, Stored, [Next]_vars
  PROVE  Stored'
<1>1. Pcs = {"locked", "fenced", "loaded", "written", "done", "failed", "removing",
             "idle", "calling", "reading", "stale", "quarantined", "made", "removed"}
  BY DEF Pcs, Inside
<1>2. CASE UNCHANGED vars \/ Lapse
  BY <1>2 DEF vars, Lapse, Stored
\* A step that leaves the file alone and brings nobody further on.
<1>3. ASSUME NEW w \in Writers, UNCHANGED <<ledger, lapsed>>,
             \A v \in Writers \ {w} : writer'[v] = writer[v],
             writer'[w].pc \notin {"loaded", "written", "done"}
      PROVE  Stored'
  BY <1>3 DEF Stored
<1>4. ASSUME NEW w \in Writers, Call(w) PROVE Stored'
  <2>1. writer'[w].pc = "calling" /\ \A v \in Writers \ {w} : writer'[v] = writer[v]
    BY <1>4 DEF Call, WritersOK, WriterType
  <2> QED
    BY <1>3, <1>4, <2>1 DEF Call
<1>5. ASSUME NEW w \in Writers,
             \/ MakeDirectory(w) \/ ReadLease(w) \/ Quarantine(w) \/ MakeDirectoryAgain(w)
             \/ WriteLease(w) \/ WriteLeaseFails(w) \/ Fence(w) \/ CheckRelease(w)
             \/ RemoveFile(w) \/ RemoveDirectory(w) \/ Crash(w)
      PROVE  Stored'
  <2>1. /\ writer'[w].pc \notin {"loaded", "written", "done"}
        /\ \A v \in Writers \ {w} : writer'[v] = writer[v]
    BY <1>1, <1>5, GotoMoves, ReturnMoves
       DEF MakeDirectory, ReadLease, Quarantine, MakeDirectoryAgain, WriteLease,
           WriteLeaseFails, Fence, CheckRelease, RemoveFile, RemoveDirectory, Crash, Retry,
           WritersOK
  <2>2. UNCHANGED <<ledger, lapsed>>
    BY <1>5 DEF MakeDirectory, ReadLease, Quarantine, MakeDirectoryAgain, WriteLease,
                WriteLeaseFails, Fence, CheckRelease, RemoveFile, RemoveDirectory, Crash
  <2> QED
    BY <1>3, <2>1, <2>2
<1>6. ASSUME NEW w \in Writers, Load(w) PROVE Stored'
  <2>1. Len(ledger) + 1 \in Nat /\ Len(ledger) + 1 # 0
    BY DEF FilesOK
  <2>2. /\ writer'[w].pc \in {"loaded", "failed"}
        /\ writer'[w].pc = "loaded" => writer'[w].seq # 0
        /\ \A v \in Writers \ {w} : writer'[v] = writer[v]
    BY <1>6, <2>1 DEF Load, Goto, WritersOK, WriterType
  <2> QED
    BY <1>6, <2>2 DEF Load, Stored
<1>7. ASSUME NEW w \in Writers, FenceAgain(w) PROVE Stored'
  <2>1. /\ writer[w].pc = "written" /\ writer'[w].seq = writer[w].seq
        /\ \A v \in Writers \ {w} : writer'[v] = writer[v]
    BY <1>1, <1>7, GotoMoves DEF FenceAgain, At, WritersOK
  <2> QED
    BY <1>7, <2>1 DEF FenceAgain, Stored
<1>8. ASSUME NEW w \in Writers, AppendRecord(w) PROVE Stored'
  <2>1. /\ writer[w].pc = "loaded" /\ writer'[w].seq = writer[w].seq
        /\ \A v \in Writers \ {w} : writer'[v] = writer[v]
    BY <1>1, <1>8, GotoMoves DEF AppendRecord, At, WritersOK
  <2>2. CASE UNCHANGED ledger /\ Goto(w, "failed")
    <3>1. writer'[w].pc = "failed"
      BY <1>1, <2>2, GotoMoves DEF WritersOK
    <3> QED
      BY <1>3, <1>8, <2>1, <2>2, <3>1 DEF AppendRecord
  <2>3. CASE ledger' = Append(ledger, writer[w].seq)
    <3>1. /\ ledger \in Seq(Nat) /\ writer[w].seq \in Nat /\ Len(ledger) \in Nat
      BY DEF FilesOK, WritersOK, WriterType
    <3>2. /\ Len(ledger') = Len(ledger) + 1 /\ Len(ledger') \in DOMAIN ledger'
          /\ ledger'[Len(ledger')] = writer[w].seq
          /\ \A i \in DOMAIN ledger : i \in DOMAIN ledger' /\ ledger'[i] = ledger[i]
      BY <2>3, <3>1
    <3>3. lapsed = {} => \A v \in Writers \ {w} : writer[v].pc \notin {"written", "done"}
      BY <2>1 DEF Exclusion, Owning, Inside
    <3>4. lapsed' = lapsed
      BY <1>8 DEF AppendRecord
    <3> QED
      BY <2>1, <3>2, <3>3, <3>4 DEF Stored
  <2> QED
    BY <1>8, <2>2, <2>3 DEF AppendRecord
<1> QED
  BY <1>2, <1>4, <1>5, <1>6, <1>7, <1>8 DEF Next, Step

\* The steps the log sees are the append, the success of a release, and the first lapse.
LEMMA LogStep ==
  ASSUME WritersOK, FilesOK, TailOK, Acknowledgement, Stored, [Next]_vars
  PROVE  [Log!LogNext]_(Log!logVars)
<1>1. ASSUME UNCHANGED <<ledger, acknowledged, lapsed>> PROVE UNCHANGED Log!logVars
  BY <1>1 DEF Log!logVars
<1>2. CASE Lapse
  <2>1. lapsed' # {} /\ UNCHANGED <<ledger, acknowledged>>
    BY <1>2 DEF Lapse
  <2> QED
    BY <2>1 DEF Log!LogNext, Log!LoseFence, Log!logVars
<1>3. ASSUME NEW w \in Writers, AppendRecord(w)
      PROVE  [Log!LogNext]_(Log!logVars)
  <2>1. UNCHANGED <<acknowledged, lapsed>>
    BY <1>3 DEF AppendRecord
  <2>2. CASE UNCHANGED ledger
    BY <1>1, <2>1, <2>2
  <2>3. CASE ledger' = Append(ledger, writer[w].seq)
    <3>1. PICK n : n = writer[w].seq
      OBVIOUS
    <3>2. /\ At(w, "loaded") /\ n \in Nat /\ n # 0 /\ Len(ledger) \in Nat
      BY <1>3, <3>1 DEF AppendRecord, At, Stored, WritersOK, WriterType, FilesOK
    <3>3. n <= Len(ledger) + 1 /\ (lapsed = {} => n = Len(ledger) + 1)
      BY <3>1, <3>2 DEF Acknowledgement, TailOK
    <3>4. n \in 1..(Len(ledger) + 1)
      BY <3>2, <3>3
    <3>5. Log!Extend
      BY <2>1, <2>3, <3>1, <3>3, <3>4 DEF Log!Extend
    <3> QED
      BY <3>5 DEF Log!LogNext
  <2> QED
    BY <1>3, <2>2, <2>3 DEF AppendRecord
<1>4. ASSUME NEW w \in Writers, CheckRelease(w)
      PROVE  [Log!LogNext]_(Log!logVars)
  <2>1. UNCHANGED <<ledger, lapsed>>
    BY <1>4 DEF CheckRelease
  <2>2. CASE UNCHANGED acknowledged
    BY <1>1, <2>1, <2>2
  <2>3. CASE /\ At(w, "done") /\ Mine(w)
             /\ acknowledged' = acknowledged \union {<<Lease(w), writer[w].seq>>}
    <3>1. PICK i \in DOMAIN ledger :
            ledger[i] = writer[w].seq /\ (lapsed = {} => i = Len(ledger))
      BY <2>3 DEF Stored, At
    <3>2. ledger[i] \notin {a[2] : a \in acknowledged}
      <4>1. \A a \in acknowledged : a[2] < writer[w].seq
        BY <2>3 DEF Acknowledgement, At
      <4>2. \A a \in acknowledged : a[2] \in Nat
        BY DEF FilesOK
      <4> QED
        BY <3>1, <4>1, <4>2 DEF WritersOK, WriterType
    <3>3. {a[2] : a \in acknowledged'} = {a[2] : a \in acknowledged} \union {ledger[i]}
      <4>1. PICK new : new = <<Lease(w), writer[w].seq>>
        OBVIOUS
      <4>2. acknowledged' = acknowledged \union {new} /\ new[2] = ledger[i]
        BY <2>3, <3>1, <4>1
      <4> QED
        BY <4>2
    <3>4. Log!Confirm
      BY <2>1, <3>1, <3>2, <3>3 DEF Log!Confirm
    <3> QED
      BY <3>4 DEF Log!LogNext
  <2> QED
    BY <1>4, <2>2, <2>3 DEF CheckRelease
<1>5. ASSUME NEW w \in Writers, Step(w) \/ Crash(w), ~AppendRecord(w), ~CheckRelease(w)
      PROVE  UNCHANGED <<ledger, acknowledged, lapsed>>
  BY <1>5 DEF Step, Call, MakeDirectory, ReadLease, Quarantine, MakeDirectoryAgain, WriteLease,
              WriteLeaseFails, Fence, Load, FenceAgain, RemoveFile, RemoveDirectory, Crash
<1>6. CASE UNCHANGED vars
  BY <1>1, <1>6 DEF vars
<1> QED
  BY <1>1, <1>2, <1>3, <1>4, <1>5, <1>6 DEF Next

\* Any number of writers that take over, release, lapse and die around the lock directory
\* implement the shared log.
THEOREM LogRefinement == Spec => ImplementsLog
<1>1. Init => Log!LogInit
  BY DEF Init, Log!LogInit
<1>2. Init => TailOK /\ Acknowledgement /\ Stored
  BY DEF Init, TailOK, Contiguous, Acknowledgement, AcknowledgedOnce, Stored, At
<1>3. Spec => [](WritersOK /\ FilesOK /\ TailOK /\ Acknowledgement /\ Stored)
  BY <1>2, TypeInit, TypeStep, ExclusionInit, ExclusionStep, TailStep, AcknowledgementStep,
     StoredStep, PTL DEF Spec
<1> QED
  BY <1>1, <1>3, LogStep, PTL DEF Spec, ImplementsLog, Log!LogSpec
=============================================================================
