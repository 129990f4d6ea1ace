-------------------------- MODULE MCNotifyClients --------------------------
(* Instances of NotifyClients for TLC.                                     *)
EXTENDS NotifyClients
=============================================================================
