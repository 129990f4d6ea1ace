----------------------------- MODULE MCMqOpen ------------------------------
(* Instances of MqOpen for TLC.                                            *)
EXTENDS MqOpen

CONSTANTS p1, p2, p3, p4
=============================================================================
