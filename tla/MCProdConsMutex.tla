-------------------------- MODULE MCProdConsMutex ---------------------------
(* Instances of ProdConsMutex for TLC.                                     *)
EXTENDS ProdConsMutex

CONSTANTS p1, p2, p3, c
=============================================================================
