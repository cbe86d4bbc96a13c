----------------------------- MODULE MCCallerCli -----------------------------
(***************************************************************************)
(* A small instance of CallerCli for TLC.                                  *)
(***************************************************************************)
EXTENDS CallerCli, TLC

Symmetry == Permutations(Setup) \cup Permutations(Key)
=============================================================================
