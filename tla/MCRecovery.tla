------------------------------ MODULE MCRecovery ------------------------------
(* Instances of the recovery of a hosted payment for TLC. *)
EXTENDS Recovery

CONSTANTS w1, v1, j1
==============================================================================
