---------------------------- MODULE MCStopNotify ----------------------------
(* Constants for the run of StopNotify. *)
EXTENDS StopNotify, TLC

CONSTANTS t1, t2, t3, t4, e1, e2
=============================================================================
