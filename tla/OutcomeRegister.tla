-------------------------- MODULE OutcomeRegister --------------------------
(***************************************************************************)
(* What the webhook guard promises for each order: of all the outcomes the *)
(* provider reports, one is decided, and that one is applied once.         *)
(***************************************************************************)
EXTENDS Sequences

CONSTANTS Orders, Outcomes, None

VARIABLES decided,   \* the outcome each order settled on, or None
          applied    \* the outcomes written to each order, in order

registerVars == <<decided, applied>>

RegisterInit ==
  /\ decided = [o \in Orders |-> None]
  /\ applied = [o \in Orders |-> <<>>]

Decide(o, m) ==
  /\ decided[o] = None
  /\ decided' = [decided EXCEPT ![o] = m]
  /\ UNCHANGED applied

Apply(o) ==
  /\ decided[o] # None
  /\ applied[o] = <<>>
  /\ applied' = [applied EXCEPT ![o] = <<decided[o]>>]
  /\ UNCHANGED decided

RegisterNext ==
  \E o \in Orders : Apply(o) \/ \E m \in Outcomes : Decide(o, m)

RegisterSpec == RegisterInit /\ [][RegisterNext]_registerVars
=============================================================================
