-------------------------------- MODULE MCArq --------------------------------
(* Instances of Arq for TLC. *)
EXTENDS Arq, TLC

CONSTANTS r1, r2, r3

MCThree == {r1, r2, r3}
MCTwo == {r1, r2}

\* r1 has an owner of its own
MCOwner(r) == IF r = r1 THEN 1 ELSE 2
=============================================================================
