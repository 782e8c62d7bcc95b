------------------------------ MODULE MCSimTime ------------------------------
(* Instances of SimTime for TLC.                                            *)
EXTENDS SimTime

CONSTANTS s1, s2
=============================================================================
