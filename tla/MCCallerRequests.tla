-------------------------- MODULE MCCallerRequests --------------------------
(***************************************************************************)
(* A small instance of CallerRequests for TLC.                             *)
(***************************************************************************)
EXTENDS CallerRequests, TLC

OneUnit == [m \in Metric |-> 1]

Symmetry == Permutations(Request)
=============================================================================
