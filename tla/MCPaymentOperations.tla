------------------------- MODULE MCPaymentOperations -------------------------
(* Instances of the capture, refund and void handlers for TLC. *)
EXTENDS PaymentOperations, TLC

CONSTANTS q1, q2, q3, k1

MCSymmetry == Permutations(Request)

(* Any adapter: it fails with an exception or with a status. *)
AnyAdapter == Status

Adapter == INSTANCE GatewayAdapters

(* What the operations of an adapter answer, apart from exceptions. *)
statuses(adapter) ==
  [op \in Op |-> {adapter[op][end] : end \in DOMAIN adapter[op]} \ Adapter!Exceptions]

(* The mock adapters, and Interswitch, which answers every refund and void *)
(* with "failed".                                                          *)
MockAdapter        == statuses(Adapter!razorpay)
InterswitchAdapter == statuses(Adapter!interswitch)
==============================================================================
