----------------------------- MODULE MCWriteBack -----------------------------
(* Instances of WriteBack for TLC: two contributors who govern each other. *)
EXTENDS WriteBack, TLC

CONSTANTS t1, t2, alice, bob, c1, c2

\* alice's desk has an on-prem tool c1, bob's a cloud app c2
OwnerOfTools == [c \in Tools |-> IF c = c1 THEN alice ELSE bob]

ThreadSymmetry == Permutations(Threads)
=============================================================================
