-------------------------------- MODULE MCCard --------------------------------
(* Instances of Card for TLC. *)
EXTENDS Card, TLC

CONSTANTS f1, f2

MCNames == {f1, f2}
=============================================================================
