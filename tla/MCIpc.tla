-------------------------------- MODULE MCIpc --------------------------------
(* Instances of Ipc for TLC. *)
EXTENDS Ipc, TLC

CONSTANTS r1, r2, r3

MCThree == {r1, r2, r3}
=============================================================================
