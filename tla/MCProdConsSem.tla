---------------------------- MODULE MCProdConsSem ---------------------------
(* Instances of ProdConsSem for TLC.                                       *)
EXTENDS ProdConsSem

CONSTANTS p1, p2, p3, c1, c2
=============================================================================
