-------------------------- MODULE MCSharedCounter ---------------------------
(* Instances of SharedCounter for TLC.                                     *)
EXTENDS SharedCounter

CONSTANTS s1, s2, t1, c1, c2, c3
=============================================================================
