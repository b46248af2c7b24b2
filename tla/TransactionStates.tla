-------------------------- MODULE TransactionStates --------------------------
(***************************************************************************)
(* The states of a payment transaction and the map of the transitions the  *)
(* state machine permits between them.  Every other module takes its       *)
(* states from here.                                                       *)
(***************************************************************************)
EXTENDS Sequences

TransactionState ==
  {"CREATED", "ROUTE_SELECTED", "ROUTE_FAILED", "ABANDONED",
   "AUTH_INITIATED", "AUTHORISED", "AUTH_FAILED", "AUTH_TIMEOUT", "AUTH_EXPIRED",
   "CAPTURE_INITIATED", "CAPTURED", "PARTIALLY_CAPTURED", "CAPTURE_FAILED",
   "VOID_INITIATED", "VOIDED",
   "REFUND_INITIATED", "REFUNDED", "PARTIALLY_REFUNDED", "REFUND_FAILED",
   "SETTLED", "DISPUTE_OPENED", "DISPUTE_RESOLVED", "FAILED"}

(***************************************************************************)
(* The map, as the set of its edges.  A state with no edge out of it is an *)
(* entry with an empty set in the source.                                  *)
(***************************************************************************)
VALID_TRANSITIONS ==
  UNION {
    {"CREATED"}            \X {"ROUTE_SELECTED", "ABANDONED"},
    {"ROUTE_SELECTED"}     \X {"AUTH_INITIATED", "ROUTE_FAILED"},
    {"AUTH_INITIATED"}     \X {"AUTHORISED", "AUTH_FAILED", "AUTH_TIMEOUT", "AUTH_EXPIRED"},
    {"AUTHORISED"}         \X {"CAPTURE_INITIATED", "VOID_INITIATED", "AUTH_EXPIRED"},
    {"AUTH_FAILED"}        \X {"ROUTE_SELECTED", "FAILED"},
    {"AUTH_TIMEOUT"}       \X {"ROUTE_SELECTED", "FAILED"},
    {"CAPTURE_INITIATED"}  \X {"CAPTURED", "PARTIALLY_CAPTURED", "CAPTURE_FAILED"},
    {"CAPTURED"}           \X {"REFUND_INITIATED", "SETTLED", "DISPUTE_OPENED"},
    {"PARTIALLY_CAPTURED"} \X {"CAPTURE_INITIATED", "REFUND_INITIATED", "SETTLED"},
    {"CAPTURE_FAILED"}     \X {"CAPTURE_INITIATED", "VOID_INITIATED"},
    {"VOID_INITIATED"}     \X {"VOIDED", "CAPTURE_INITIATED"},
    {"REFUND_INITIATED"}   \X {"REFUNDED", "PARTIALLY_REFUNDED", "REFUND_FAILED"},
    {"REFUND_FAILED"}      \X {"REFUND_INITIATED"},
    {"SETTLED"}            \X {"REFUND_INITIATED", "DISPUTE_OPENED"},
    {"DISPUTE_OPENED"}     \X {"DISPUTE_RESOLVED"} }

TERMINAL_STATES ==
  {"REFUNDED", "PARTIALLY_REFUNDED", "VOIDED", "FAILED", "ABANDONED",
   "ROUTE_FAILED", "AUTH_EXPIRED", "DISPUTE_RESOLVED"}

\* Faulty variant: only terminal states are looked at.
assertNotTerminal(from, to) == from \notin TERMINAL_STATES

(***************************************************************************)
(* What assertValidTransition lets through: the source looks at the        *)
(* terminal states first and at the map second.                            *)
(***************************************************************************)
assertValidTransition(from, to) ==
  /\ from \notin TERMINAL_STATES
  /\ <<from, to>> \in VALID_TRANSITIONS

(* The transitions that lead to the target: one edge, or for a capture the *)
(* rest of the auto-capture chain.  None where the source answers null,    *)
(* because the event comes too late or too early.                          *)
pathTo(from, to) ==
  IF assertValidTransition(from, to) THEN <<to>>
  ELSE IF to = "CAPTURED" /\ from = "AUTH_INITIATED"
       THEN <<"AUTHORISED", "CAPTURE_INITIATED", "CAPTURED">>
  ELSE IF to = "CAPTURED" /\ from = "AUTHORISED" THEN <<"CAPTURE_INITIATED", "CAPTURED">>
  ELSE <<>>

(* The state of a row that has not been inserted yet. *)
NoRow == "NO_ROW"
==============================================================================
