--------------------------- MODULE MCFileServers ----------------------------
(* Instances of FileServers for TLC.                                       *)
EXTENDS FileServers

CONSTANTS c1, c2, c3
=============================================================================
