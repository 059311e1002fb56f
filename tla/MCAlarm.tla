------------------------------- MODULE MCAlarm -------------------------------
(* Instances of Alarm for TLC. *)
EXTENDS Alarm, TLC

CONSTANTS a1, a2, a3

MCThree == {a1, a2, a3}

=============================================================================
