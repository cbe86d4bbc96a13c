--------------------------- MODULE MCOutboxQueue ---------------------------
(***************************************************************************)
(* Small instances of OutboxQueue for TLC.                                 *)
(***************************************************************************)
EXTENDS OutboxQueue, TLC

CONSTANTS c1, k1

\* The plain submission is small, the one with a file_upload action is larger.
MCContentBytes == [c \in Content |-> IF c \in FileContent THEN 2 ELSE 1]

\* Every item belongs to c1; any other caller is a stranger to it.
MCKey == {c1} \X ItemId

\* c1 uses one item id, so that its whole history is explored.
MCOneKey == {<<c1, k1>>}

\* Item ids are interchangeable when all of them are in use.
Symmetry == Permutations(ItemId)
=============================================================================
