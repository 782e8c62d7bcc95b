---------------------------- MODULE MCActionCall ----------------------------
(* Instances of ActionCall for TLC.                                         *)
EXTENDS ActionCall

CONSTANT c1
=============================================================================
