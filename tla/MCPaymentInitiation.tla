-------------------------- MODULE MCPaymentInitiation ------------------------
(* Instances of initiatePayment and its idempotency keys for TLC. *)
EXTENDS PaymentInitiation, TLC

CONSTANTS q1, q2, q3, k1, k2, o1, o2

MCSymmetry == Permutations(Request)

(* Two clients share an order, each with a key of its own. *)
OrderShared == [k \in Key |-> {o1}]

(* A key that was used for one order is used again for the next one. *)
KeyReused == [k \in Key |-> Order]
==============================================================================
