---------------------------- MODULE MCPxSemMmap ----------------------------
(* Instances of PxSemMmap for TLC.                                         *)
EXTENDS PxSemMmap

CONSTANTS t1, t2, t3
=============================================================================
