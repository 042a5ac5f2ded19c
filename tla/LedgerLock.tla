----------------------------- MODULE LedgerLock -----------------------------
(***************************************************************************)
(* The execution ledger of Marketing OS: a JSONL file that independent     *)
(* processes append to through FileExecutionPersistenceStore, each append  *)
(* under the directory lock of FileExecutionLeaseStore.                    *)
(*                                                                         *)
(* The lock is a directory.  It is absent, Empty between mkdir and         *)
(* writeFile, or holds the lease.json of one lease.  Every file operation  *)
(* is a step of its own, which may fail, and acts on whatever directory is *)
(* at the path by then.  A lease is named by its owner and the number of the call it was  *)
(* made for, which stands for acquiredAt; it lapses when its expiresAt is  *)
(* past, at any moment, since a process may be paused and expiry is        *)
(* compared with the clock of whoever reads it.                            *)
(***************************************************************************)
EXTENDS Naturals, Sequences

CONSTANTS Writers,   \* processes that share the ledger file
          MaxCalls,  \* bound: appends each writer starts
          Absent,    \* there is no lock directory
          Empty      \* a lock directory without a lease.json that can be read

ASSUME MaxCallsAssumption == MaxCalls \in Nat

Leases == Writers \X (1..MaxCalls)

ASSUME LockAssumption == Absent # Empty /\ Absent \notin Leases /\ Empty \notin Leases

VARIABLES lock,          \* what is at the path of the lock
          lapsed,        \* leases whose expiresAt is past
          ledger,        \* the sequence numbers in the file, in the order of its lines
          writer,        \* where each writer stands, its calls so far, the number it appends
          acknowledged,  \* the numbers of appends that succeeded, with their leases
          wedged         \* history: whoever was to fill or remove the Empty lock failed

vars == <<lock, lapsed, ledger, writer, acknowledged, wedged>>

\* The phases in which a writer has seen its own lease written.
Inside == {"locked", "fenced", "loaded", "written", "done", "failed", "removing"}

Pcs == Inside \union {"idle", "calling", "reading", "stale", "quarantined", "made", "removed"}

Lease(w) == <<w, writer[w].calls>>

At(w, pc) == writer[w].pc = pc

Goto(w, pc) == writer' = [writer EXCEPT ![w].pc = pc]

\* Mutant: the number of the last append is kept.
ReturnKeepingNumber(w) == Goto(w, "idle")

\* The directory at the path of the lock becomes d; a change ends its being wedged.
Put(d) == lock' = d /\ wedged' = (wedged /\ d = lock)

\* The append returns or throws.
Return(w) == writer' = [writer EXCEPT ![w].pc = "idle", ![w].seq = 0]

\* acquireLedgerLease tries again on `is held' and `contention', for ten seconds.
Retry(w) == Goto(w, "calling") \/ Return(w)

\* Mutant: any lease in the lock passes for the writer's own.
AnyLease(w) == lock \in Leases

\* The lock holds the writer's lease: the same ownerId and acquiredAt.
Mine(w) == lock = Lease(w)

\* assertCurrent.
Current(w) == Mine(w) /\ lock \notin lapsed

Contiguous == \A i \in DOMAIN ledger : ledger[i] = i

Init ==
  /\ lock = Absent
  /\ lapsed = {}
  /\ ledger = <<>>
  /\ writer = [w \in Writers |-> [pc |-> "idle", calls |-> 0, seq |-> 0]]
  /\ acknowledged = {}
  /\ wedged = FALSE

-----------------------------------------------------------------------------
(* FileExecutionLeaseStore.acquire. *)

Call(w) ==
  /\ At(w, "idle")
  /\ writer[w].calls < MaxCalls
  /\ writer' = [writer EXCEPT ![w].pc = "calling", ![w].calls = @ + 1]
  /\ UNCHANGED <<lock, lapsed, ledger, acknowledged, wedged>>

\* Mutant: mkdir with `recursive', which succeeds on a directory that exists.
MakeDirectoryAlways(w) ==
  /\ At(w, "calling")
  /\ Put(IF lock = Absent THEN Empty ELSE lock)
  /\ Goto(w, "made")
  /\ UNCHANGED <<lapsed, ledger, acknowledged>>

MakeDirectory(w) ==
  /\ At(w, "calling")
  /\ IF lock = Absent
     THEN Put(Empty) /\ Goto(w, "made")
     ELSE Goto(w, "reading") /\ UNCHANGED <<lock, wedged>>
  /\ UNCHANGED <<lapsed, ledger, acknowledged>>

\* Mutant: the comparison of expiresAt with the clock is the wrong way round.
ReadLeaseInverted(w) ==
  /\ At(w, "reading")
  /\ \/ lock \notin Leases /\ Return(w)
     \/ lock \in lapsed /\ Retry(w)
     \/ lock \in Leases \ lapsed /\ Goto(w, "stale")
  /\ UNCHANGED <<lock, lapsed, ledger, acknowledged, wedged>>

\* A lock without lease.json throws an error the retry loop does not know.
ReadLease(w) ==
  /\ At(w, "reading")
  /\ \/ lock \notin Leases /\ Return(w)
     \/ lock \in Leases \ lapsed /\ Retry(w)
     \/ lock \in lapsed /\ Goto(w, "stale")
  /\ UNCHANGED <<lock, lapsed, ledger, acknowledged, wedged>>

\* The rename takes away the directory that is there now, whoever made it.
Quarantine(w) ==
  /\ At(w, "stale")
  /\ IF lock = Absent THEN Retry(w) ELSE Goto(w, "quarantined")
  /\ Put(Absent)
  /\ UNCHANGED <<lapsed, ledger, acknowledged>>

MakeDirectoryAgain(w) ==
  /\ At(w, "quarantined")
  /\ IF lock = Absent
     THEN Put(Empty) /\ Goto(w, "made")
     ELSE Retry(w) /\ UNCHANGED <<lock, wedged>>
  /\ UNCHANGED <<lapsed, ledger, acknowledged>>

\* writeFile puts the lease into the directory that is there now.
WriteLease(w) ==
  /\ At(w, "made")
  /\ lock # Absent
  /\ Put(Lease(w))
  /\ Goto(w, "locked")
  /\ UNCHANGED <<lapsed, ledger, acknowledged>>

\* writeFile fails, and acquire throws and removes nothing: ENOENT when the directory has
\* been renamed away, any other error before it opened the file or after it truncated it.
WriteLeaseFails(w) ==
  /\ At(w, "made")
  /\ Return(w)
  /\ lock' \in IF lock = Absent THEN {Absent} ELSE {lock, Empty}
  /\ wedged' = (lock' = Empty)
  /\ UNCHANGED <<lapsed, ledger, acknowledged>>

-----------------------------------------------------------------------------
(* FileExecutionPersistenceStore.appendUnderLease. *)

\* assertCurrent throws when the lease is not current or cannot be read.
Fence(w) ==
  /\ At(w, "locked")
  /\ (Current(w) /\ Goto(w, "fenced")) \/ Goto(w, "failed")
  /\ UNCHANGED <<lock, lapsed, ledger, acknowledged, wedged>>

\* load throws when the file is not contiguous; the append goes on only with the
\* number that follows the last line.
Load(w) ==
  /\ At(w, "fenced")
  /\ \/ /\ Contiguous
        /\ writer' = [writer EXCEPT ![w].pc = "loaded", ![w].seq = Len(ledger) + 1]
     \/ Goto(w, "failed")
  /\ UNCHANGED <<lock, lapsed, ledger, acknowledged, wedged>>

AppendRecord(w) ==
  /\ At(w, "loaded")
  /\ \/ ledger' = Append(ledger, writer[w].seq) /\ Goto(w, "written")
     \/ Goto(w, "failed") /\ UNCHANGED ledger
  /\ UNCHANGED <<lock, lapsed, acknowledged, wedged>>

FenceAgain(w) ==
  /\ At(w, "written")
  /\ (Current(w) /\ Goto(w, "done")) \/ Goto(w, "failed")
  /\ UNCHANGED <<lock, lapsed, ledger, acknowledged, wedged>>

\* release, in the finally block, does not look at the expiry.  The append counts as
\* acknowledged from here, although rm may still make it throw.
CheckRelease(w) ==
  /\ writer[w].pc \in {"done", "failed"}
  /\ IF Mine(w) THEN Goto(w, "removing") ELSE Return(w)
  /\ acknowledged' = IF At(w, "done") /\ Mine(w)
                     THEN acknowledged \union {<<Lease(w), writer[w].seq>>}
                     ELSE acknowledged
  /\ UNCHANGED <<lock, lapsed, ledger, wedged>>

\* rm removes the file, then the directory, whosever they are by then.
RemoveFile(w) ==
  /\ At(w, "removing")
  /\ Put(IF lock \in Leases THEN Empty ELSE lock)
  /\ Goto(w, "removed")
  /\ UNCHANGED <<lapsed, ledger, acknowledged>>

\* Mutant: only lease.json is removed.
RemoveNoDirectory(w) ==
  /\ At(w, "removed")
  /\ Return(w)
  /\ UNCHANGED <<lock, lapsed, ledger, acknowledged, wedged>>

\* A directory that got a lease meanwhile is not empty, and rm throws.
RemoveDirectory(w) ==
  /\ At(w, "removed")
  /\ Put(IF lock = Empty THEN Absent ELSE lock)
  /\ Return(w)
  /\ UNCHANGED <<lapsed, ledger, acknowledged>>

-----------------------------------------------------------------------------

\* The lease in the lock expires.
Lapse ==
  /\ lock \in Leases \ lapsed
  /\ lapsed' = lapsed \union {lock}
  /\ UNCHANGED <<lock, ledger, writer, acknowledged, wedged>>

\* A process dies, or a file operation of acquire or release fails and the append throws;
\* the directory stays as it is.
Crash(w) ==
  /\ ~At(w, "idle")
  /\ Return(w)
  /\ wedged' = (wedged \/ (lock = Empty /\ writer[w].pc \in {"made", "removed"}))
  /\ UNCHANGED <<lock, lapsed, ledger, acknowledged>>

Step(w) ==
  \/ Call(w) \/ MakeDirectory(w) \/ ReadLease(w) \/ Quarantine(w)
  \/ MakeDirectoryAgain(w) \/ WriteLease(w) \/ WriteLeaseFails(w)
  \/ Fence(w) \/ Load(w) \/ AppendRecord(w) \/ FenceAgain(w)
  \/ CheckRelease(w) \/ RemoveFile(w) \/ RemoveDirectory(w)

Next == Lapse \/ \E w \in Writers : Step(w) \/ Crash(w)

Spec == Init /\ [][Next]_vars

-----------------------------------------------------------------------------
(* Properties. *)

\* Every variable has its type, and a writer between two appends holds no number.
TypeOK ==
  /\ lock \in Leases \union {Absent, Empty}
  /\ lapsed \subseteq Leases
  /\ ledger \in Seq(Nat)
  /\ writer \in [Writers -> [pc : Pcs, calls : 0..MaxCalls, seq : Nat]]
  /\ \A w \in Writers : At(w, "idle") => writer[w].seq = 0
  /\ acknowledged \subseteq Leases \X Nat
  /\ wedged \in BOOLEAN

\* As long as no lease has lapsed, whatever crashes or fails, one writer is inside the lock
\* (file-execution-persistence.ts:21-22).  A takeover, even of a dead holder's lease, is
\* beyond this statement: a second one may rename the new lock away.
ExclusiveUntilLapse ==
  lapsed = {} => \A v, w \in Writers : {writer[v].pc, writer[w].pc} \subseteq Inside => v = w

\* As long as no lease has lapsed the file stays readable: no two processes read the
\* same tail and append the same number.
ContiguousUntilLapse == lapsed = {} => Contiguous

\* Whatever lapses, races or dies, two appends that report success never stand for
\* the same number: the check of the lease in release, after the write, sees to it.
AcknowledgedOnce ==
  \A a, b \in acknowledged : a[2] = b[2] => a = b

\* A lock directory without lease.json, on which every acquire throws for ever, is only
\* left behind by a process that died after mkdir or the unlink of rm, or whose writeFile
\* or rmdir failed: no race of acquire, takeover and release leaves one (release, acquire).
OnlyAFailureWedges ==
  lock = Empty => wedged \/ \E w \in Writers : writer[w].pc \in {"made", "removed"}

\* What the processes make of the file: its lines, the numbers of the appends that
\* succeeded, and whether a lease has lapsed; the lock and its holders are hidden.
Log == INSTANCE SharedLog WITH
  log <- ledger,
  confirmed <- {a[2] : a \in acknowledged},
  fenced <- lapsed = {}

\* The lock directory, the checks of the lease around the write and the one in release
\* implement the shared log (FileExecutionPersistenceStore.append).
ImplementsLog == Log!LogSpec
=============================================================================
