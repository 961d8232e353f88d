-------------------------- MODULE MCBillingReceipts --------------------------
(* Two payments, two handlers at once.                                       *)
EXTENDS BillingReceipts

CONSTANTS i1, i2, h1, h2
=============================================================================
