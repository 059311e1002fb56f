------------------------------ MODULE MCLwpCond ------------------------------
(* Instances of LwpCond for TLC. *)
EXTENDS LwpCond

CONSTANTS t1, t2, t3, m1, m2

MCTwo == {t1, t2}
MCThree == {t1, t2, t3}
MCPrio == [t \in Threads |-> 0]

\* Threads of one priority are alike.
Symm == Permutations(Threads)
=============================================================================
