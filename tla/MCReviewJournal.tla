--------------------------- MODULE MCReviewJournal ---------------------------
(***************************************************************************)
(* A small instance of ReviewJournal for TLC.                              *)
(***************************************************************************)
EXTENDS ReviewJournal, TLC

Symmetry == Permutations(Item)
=============================================================================
