----------------------------- MODULE MCRelease -----------------------------
(***************************************************************************)
(* Small instances of Release for TLC: a run, a second dispatch for the    *)
(* same release number, and a run for the next number.                     *)
(***************************************************************************)
EXTENDS Release, TLC

CONSTANTS r1, r2, r3, t0, t1, t2, s0, s1, s2

MCTagOf == [r \in Run |-> IF r = r3 THEN t2 ELSE t1]
MCShaOf == [r \in Run |-> IF r = r3 THEN s2 ELSE s1]

\* The two dispatches of one release are interchangeable.
Symmetry == Permutations({r1, r2})
=============================================================================
