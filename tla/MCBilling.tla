------------------------------ MODULE MCBilling ------------------------------
(* A purchase and its renewals with two handlers at once; handlers are        *)
(* interchangeable.                                                         *)
EXTENDS Billing, TLC

CONSTANTS h1, h2

MCSymmetry == Permutations(Handlers)
=============================================================================
