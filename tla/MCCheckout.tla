----------------------------- MODULE MCCheckout -----------------------------
(* Small instances of Checkout: one order, o1, of which a cfg allows        *)
(* duplicates by MaxCrashes and MaxFailures.                                *)
EXTENDS Checkout

CONSTANT o1
=============================================================================
