----------------------------- MODULE MCCheckout -----------------------------
(***************************************************************************)
(* A small instance of Checkout for TLC.                                   *)
(***************************************************************************)
EXTENDS Checkout, TLC

Symmetry == Permutations(Request) \cup Permutations(Interval)
=============================================================================
