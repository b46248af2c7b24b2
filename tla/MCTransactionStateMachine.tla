---------------------- MODULE MCTransactionStateMachine ----------------------
(* Instances of transition() for TLC: callers compete for one row. *)
EXTENDS TransactionStateMachine, TLC

CONSTANTS c1, c2, c3, t1

MCSymmetry == Permutations(Caller)
==============================================================================
