------------------------------ MODULE SharedLog ------------------------------
(***************************************************************************)
(* What the execution ledger of Marketing OS promises to the processes     *)
(* that append to it, with no lock, lease, file operation or crash in      *)
(* sight.  As long as the log is fenced, each record has the number of its *)
(* line and is confirmed, if at all, before the next one is there.  Once   *)
(* the fence is lost, numbers may repeat, but none is skipped, and still   *)
(* no number is confirmed twice or without its record.                     *)
(***************************************************************************)
EXTENDS Naturals, Sequences

VARIABLES log,        \* the numbers of the records, in the order of their lines
          confirmed,  \* the numbers whose append was reported as a success
          fenced      \* no lease has lapsed so far

logVars == <<log, confirmed, fenced>>

LogInit == log = <<>> /\ confirmed = {} /\ fenced = TRUE

Extend ==
  /\ \E n \in 1..(Len(log) + 1) :
       /\ fenced => n = Len(log) + 1
       /\ log' = Append(log, n)
  /\ UNCHANGED <<confirmed, fenced>>

Confirm ==
  /\ \E i \in DOMAIN log :
       /\ fenced => i = Len(log)
       /\ log[i] \notin confirmed
       /\ confirmed' = confirmed \union {log[i]}
  /\ UNCHANGED <<log, fenced>>

LoseFence == fenced /\ fenced' = FALSE /\ UNCHANGED <<log, confirmed>>

LogNext == Extend \/ Confirm \/ LoseFence

LogSpec == LogInit /\ [][LogNext]_logVars
=============================================================================
