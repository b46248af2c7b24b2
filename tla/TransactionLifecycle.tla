------------------------- MODULE TransactionLifecycle ------------------------
(***************************************************************************)
(* The abstract specification of a payment: what anybody who reads the     *)
(* transactions table may ever see.  A row appears in CREATED and then     *)
(* moves one edge of the map at a time.  Row locks, log entries, callers,  *)
(* crashes and rejected requests are invisible here: TransactionState-     *)
(* Machine and the modules of the request handlers are shown to implement  *)
(* this specification.                                                     *)
(***************************************************************************)
EXTENDS TransactionStates

CONSTANT Txn          \* the identifiers a transaction row may have

VARIABLE state        \* state[t]: the committed state column of row t

Init == state = [t \in Txn |-> NoRow]

(* TransactionRepository.create, as initiatePayment calls it. *)
create(t) ==
  /\ state[t] = NoRow
  /\ state' = [state EXCEPT ![t] = "CREATED"]

(* A committed call of transition(). *)
move(t, to) ==
  /\ state[t] # NoRow
  /\ assertValidTransition(state[t], to)
  /\ state' = [state EXCEPT ![t] = to]

Next == \E t \in Txn : create(t) \/ \E to \in TransactionState : move(t, to)

Spec == Init /\ [][Next]_state

------------------------------------------------------------------------------
(* The states of a payment that was captured in full. *)
AfterCapture ==
  {"CAPTURED", "SETTLED", "REFUND_INITIATED", "REFUND_FAILED", "REFUNDED",
   "PARTIALLY_REFUNDED", "DISPUTE_OPENED", "DISPUTE_RESOLVED"}

(* The states of a payment whose authorisation can still be acted upon. *)
BeforeAuthorisation ==
  {"CREATED", "ROUTE_SELECTED", "AUTH_INITIATED", "AUTH_FAILED", "AUTH_TIMEOUT"}

(***************************************************************************)
(* A captured payment is never captured again, voided, expired or failed:  *)
(* whatever sequence of operations, webhooks and reconciliation runs       *)
(* follows, it stays among the states that settle, refund or dispute it.   *)
(* It is a fact about every path of the map, not about one edge.           *)
(***************************************************************************)
CaptureIsFinal ==
  [][\A t \in Txn : state[t] \in AfterCapture => state'[t] \in AfterCapture]_state

(***************************************************************************)
(* An authorised payment never goes back to being routed: an authorisation *)
(* is obtained at most once, failover from gateway to gateway happens only *)
(* before it.                                                              *)
(***************************************************************************)
AuthorisedOnce ==
  [][\A t \in Txn :
       state'[t] \in BeforeAuthorisation =>
         state[t] \in BeforeAuthorisation \cup {NoRow}]_state

(* The two points of no return of a payment. *)
NoWayBack == CaptureIsFinal /\ AuthorisedOnce
==============================================================================
