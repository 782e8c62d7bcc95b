---------------------------- MODULE MCServiceCall ----------------------------
(* Instances of ServiceCall for TLC.                                        *)
EXTENDS ServiceCall

CONSTANTS k1, k2, v1, v2, c1, c2
=============================================================================
