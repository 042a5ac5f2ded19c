-------------------------- MODULE MCPaymentIntents --------------------------
(***************************************************************************)
(* Small instances of PaymentIntents for TLC.  Two outcomes are successful *)
(* payments under different provider payment IDs, one is a failure.        *)
(***************************************************************************)
EXTENDS PaymentIntents, TLC

CONSTANTS w1, w2, w3, o1, paidA, paidB, declined

WorkersAreAlike == Permutations(Workers)
=============================================================================
