------------------------ MODULE MCCallerCredentials ------------------------
(***************************************************************************)
(* A small instance of CallerCredentials for TLC.                          *)
(***************************************************************************)
EXTENDS CallerCredentials, TLC

Symmetry == Permutations(Setup) \cup Permutations(Key) \cup Permutations(Caller)
=============================================================================
