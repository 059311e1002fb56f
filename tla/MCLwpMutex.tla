----------------------------- MODULE MCLwpMutex -----------------------------
(* Instances of LwpMutex for TLC. *)
EXTENDS LwpMutex

CONSTANTS t1, t2, t3, m1, m2

MCThree == {t1, t2, t3}
MCTwoMutexes == {m1, m2}

\* With four priorities per header: a search from the front that passes a
\* better thread, one from the end that passes a worse one, and a thread in
\* the next header.
MCPrio == t1 :> 1 @@ t2 :> 1 @@ t3 :> 0
MCNewPrios == {<<t1, 2>>, <<t2, 4>>, <<t3, 3>>}

\* The mutexes are alike.
Symm == Permutations(Mutexes)
=============================================================================
