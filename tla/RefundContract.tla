--------------------------- MODULE RefundContract ---------------------------
(***************************************************************************)
(* What the refund fabric promises, with no caller, no crash and no        *)
(* quarantine in sight: a refund ID is reserved while no other refund of   *)
(* its payment is undecided, the provider is asked at most once for it,    *)
(* its outcome is the provider's, its outcome is final, and the journal    *)
(* holds it only once it is known to have been paid out.                   *)
(***************************************************************************)
CONSTANT RefundIds   \* records with a field pay, the payment refunded

VARIABLES outcome,   \* what the books say of each refund
          money,     \* what the provider did about it
          journal    \* refunds posted to the ledger

contractVars == <<outcome, money, journal>>

ContractInit ==
  /\ outcome = [r \in RefundIds |-> "open"]
  /\ money = [r \in RefundIds |-> "none"]
  /\ journal = {}

Open(r) ==
  /\ outcome[r] = "open"
  /\ \A s \in RefundIds : s.pay = r.pay => outcome[s] # "undecided"
  /\ outcome' = [outcome EXCEPT ![r] = "undecided"]
  /\ UNCHANGED <<money, journal>>

Ask(r) ==
  /\ outcome[r] = "undecided"
  /\ money[r] = "none"
  /\ money' = [money EXCEPT ![r] = "inTransit"]
  /\ UNCHANGED <<outcome, journal>>

Decide(r) ==
  /\ money[r] = "inTransit"
  /\ \E m \in {"executed", "rejected"} : money' = [money EXCEPT ![r] = m]
  /\ UNCHANGED <<outcome, journal>>

Conclude(r) ==
  /\ outcome[r] = "undecided"
  /\ \/ money[r] = "executed" /\ outcome' = [outcome EXCEPT ![r] = "paidOut"]
     \/ money[r] = "rejected" /\ outcome' = [outcome EXCEPT ![r] = "void"]
  /\ UNCHANGED <<money, journal>>

Post(r) ==
  /\ outcome[r] = "paidOut"
  /\ r \notin journal
  /\ journal' = journal \union {r}
  /\ UNCHANGED <<outcome, money>>

ContractNext ==
  \E r \in RefundIds : Open(r) \/ Ask(r) \/ Decide(r) \/ Conclude(r) \/ Post(r)

ContractSpec == ContractInit /\ [][ContractNext]_contractVars
=============================================================================
