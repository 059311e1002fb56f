---------------------------- MODULE MCLwpMessages ----------------------------
(* Instances of LwpMessages for TLC. *)
EXTENDS LwpMessages, TLC

CONSTANTS t1, t2, t3

MCTwo == {t1, t2}
MCThree == {t1, t2, t3}

Symm == Permutations(Threads)

\* Calls that wait, or jump the queue, while others close and create it
MCCloseCalls == {"timedsend", "jam", "timedrecv", "close", "init"}

\* Every call that moves a message, handlers included
MCIsrCalls == AllCalls \ {"close", "init"}
=============================================================================
