------------------------------ MODULE MCLwpSema ------------------------------
(* Instances of LwpSema for TLC. *)
EXTENDS LwpSema, TLC

CONSTANTS t1, t2

MCTwo == {t1, t2}
=============================================================================
