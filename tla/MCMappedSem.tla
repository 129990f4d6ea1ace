---------------------------- MODULE MCMappedSem ----------------------------
(* Instances of MappedSem for TLC.                                         *)
EXTENDS MappedSem

CONSTANTS p1, p2, p3, p4
=============================================================================
