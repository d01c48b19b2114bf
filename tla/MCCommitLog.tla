---------------------------- MODULE MCCommitLog -----------------------------
(* Instances of CommitLog for TLC.                                         *)
EXTENDS CommitLogInv, TLC

CONSTANTS c1, c2, c3, d1, d2

(* Every commit writes the same document: the sessions are interchangeable. *)
OneDoc     == [c \in Session |-> d1]
AllUpdates == [c \in Session |-> "U"]

(* c1 and c2 write d1 and c2 deletes it; c3 writes d2.                     *)
TwoDocs   == [c \in Session |-> IF c = c3 THEN d2 ELSE d1]
MixedOps  == [c \in Session |-> IF c = c2 THEN "D" ELSE "I"]

SessionSymmetry == Permutations(Session)

=============================================================================
