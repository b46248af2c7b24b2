--------------------------- MODULE PaymentOperations -------------------------
(***************************************************************************)
(* Capture, refund and void of one authorised payment: the handlers        *)
(* capturePayment, refundPayment and voidPayment of TransactionsService,   *)
(* run by any number of concurrent requests.                               *)
(*                                                                         *)
(* A handler is a chain of separate steps with other requests, webhooks    *)
(* and crashes between them:                                               *)
(*                                                                         *)
(*   read the row -> transition to X_INITIATED -> call the gateway         *)
(*     -> transition to the outcome -> write the amount (-> refund row)    *)
(*                                                                         *)
(* transition() is one atomic step here: TransactionStateMachine shows     *)
(* that it is.  The gateway's own books are kept beside the row, to say    *)
(* what the row claims and what has happened.                              *)
(***************************************************************************)
EXTENDS TransactionStates, Naturals, FiniteSets

CONSTANTS
  Request,        \* the API requests that may arrive; a retry is a new one
  Ops,            \* which of the three handlers they call
  AmountPaise,    \* the amount of the payment
  Amounts,        \* the amounts a capture or a refund may ask for
  Key,            \* idempotency keys of refund requests
  Answers,        \* Answers[op]: statuses with which the adapter may answer
  LostAnswers,    \* may a call time out after the gateway has executed it?
  Crashes,        \* may a request die with its process?
  MaxLive         \* how many requests the payment may have in progress

Op == {"capture", "refund", "void"}

(* The statuses of the adapter interface.  "partially_captured" is left    *)
(* out: no adapter answers it and capturePayment reads only the amount.    *)
Status == [capture |-> {"captured", "failed"},
           refund  |-> {"refunded", "partially_refunded", "failed"},
           void    |-> {"voided", "failed"}]

ASSUME OperationsAssumption ==
  /\ Ops \subseteq Op
  /\ AmountPaise \in Nat \ {0}
  /\ Amounts \subseteq Nat \ {0}
  /\ \A op \in Op : Answers[op] \subseteq Status[op]
  /\ LostAnswers \in BOOLEAN /\ Crashes \in BOOLEAN
  /\ MaxLive \in Nat

VARIABLES
  state,           \* columns of the transactions row
  capturedPaise,
  refundedPaise,
  refunds,         \* rows of the refunds table
  gwCaptured,      \* the gateway's books: what it has captured, refunded,
  gwRefunded,      \* and whether it has voided the authorisation
  gwVoided,
  executed,        \* requests the gateway has carried out
  pc,              \* how far each request has got
  args,            \* the request: operation, amount, refund key
  readRefunded,    \* refundedPaise as findOrThrow read it
  answer           \* what the adapter returned, "error" if it threw

row     == <<state, capturedPaise, refundedPaise, refunds>>
gateway == <<gwCaptured, gwRefunded, gwVoided, executed>>
local   == <<pc, args, readRefunded, answer>>
vars    == <<row, gateway, local>>

PC == {"new", "read", "calling", "answered", "settled", "amountWritten",
       "succeeded", "failed", "crashed"}

Live == {"read", "calling", "answered", "settled", "amountWritten"}

Args == [op : Ops, amount : Amounts, key : Key]

NoArgs == [op |-> "none"]

(* A payment as the authorisation leaves it: held by a gateway that        *)
(* captures on request, or captured by the webhook of one that does not.   *)
Init ==
  /\ \/ state = "AUTHORISED" /\ capturedPaise = 0
     \/ state = "CAPTURED" /\ capturedPaise = AmountPaise
  /\ gwCaptured = capturedPaise
  /\ refundedPaise = 0 /\ gwRefunded = 0
  /\ refunds = {} /\ executed = {} /\ gwVoided = FALSE
  /\ pc = [r \in Request |-> "new"]
  /\ args = [r \in Request |-> NoArgs]
  /\ readRefunded = [r \in Request |-> 0]
  /\ answer = [r \in Request |-> "none"]

(* transition() returns: the row is in that state already, or the move is  *)
(* an edge of the map.  Otherwise it throws and leaves the row alone.      *)
accepts(to) == state = to \/ assertValidTransition(state, to)

initiatedState(op) == CASE op = "capture" -> "CAPTURE_INITIATED"
                        [] op = "refund"  -> "REFUND_INITIATED"
                        [] op = "void"    -> "VOID_INITIATED"

(* Where a handler goes when the adapter throws. *)
failedState(op) == CASE op = "capture" -> "CAPTURE_FAILED"
                     [] op = "refund"  -> "REFUND_FAILED"
                     [] op = "void"    -> "CAPTURE_INITIATED"

capturedAmount(r) == IF answer[r] = "captured" THEN args[r].amount ELSE 0

(* Where it goes when the adapter returns: the captured amount decides a   *)
(* capture, one status a refund, and nothing a void.                       *)
settledState(r) ==
  CASE args[r].op = "capture" ->
         IF capturedAmount(r) < AmountPaise THEN "PARTIALLY_CAPTURED" ELSE "CAPTURED"
    [] args[r].op = "refund" ->
         IF answer[r] = "partially_refunded" THEN "PARTIALLY_REFUNDED" ELSE "REFUNDED"
    [] args[r].op = "void" -> "VOIDED"

(* A BIGINT column is read as a decimal string, to which + appends digits. *)
digits(n) == CHOOSE d \in 1 .. 19 : 10 ^ (d - 1) <= n /\ n < 10 ^ d

appendedTo(column, n) == IF column = 0 THEN n ELSE column * 10 ^ digits(n) + n

go(r, where) == pc' = [pc EXCEPT ![r] = where]

------------------------------------------------------------------------------
(* findOrThrow: the handler keeps this copy of the row to its end. *)
receive(r, op, amount, key) ==
  /\ pc[r] = "new"
  /\ Cardinality({q \in Request : pc[q] \in Live}) < MaxLive
  /\ go(r, "read")
  /\ args' = [args EXCEPT ![r] = [op |-> op, amount |-> amount, key |-> key]]
  /\ readRefunded' = [readRefunded EXCEPT ![r] = refundedPaise]
  /\ UNCHANGED <<row, gateway, answer>>

(* The first transition.  A row that is in X_INITIATED already lets the    *)
(* request through to the gateway as well.                                 *)
initiate(r) ==
  /\ pc[r] = "read"
  /\ accepts(initiatedState(args[r].op))
  /\ state' = initiatedState(args[r].op)
  /\ go(r, "calling")
  /\ UNCHANGED <<capturedPaise, refundedPaise, refunds, gateway, args, readRefunded, answer>>

refuse(r) ==
  /\ pc[r] = "read"
  /\ ~ accepts(initiatedState(args[r].op))
  /\ go(r, "failed")
  /\ UNCHANGED <<row, gateway, args, readRefunded, answer>>

(* The gateway carries the operation out; its answer arrives or is lost. *)
gatewayExecutes(r) ==
  LET op == args[r].op IN
  /\ pc[r] = "calling"
  /\ Answers[op] \ {"failed"} # {}
  /\ executed' = executed \cup {r}
  /\ gwCaptured' = gwCaptured + (IF op = "capture" THEN args[r].amount ELSE 0)
  /\ gwRefunded' = gwRefunded + (IF op = "refund" THEN args[r].amount ELSE 0)
  /\ gwVoided' = (gwVoided \/ op = "void")
  /\ \E a \in (Answers[op] \ {"failed"}) \cup (IF LostAnswers THEN {"error"} ELSE {}) :
       answer' = [answer EXCEPT ![r] = a]
  /\ go(r, "answered")
  /\ UNCHANGED <<row, args, readRefunded>>

(* The adapter throws, or says "failed", and the gateway did nothing. *)
gatewayDeclines(r) ==
  /\ pc[r] = "calling"
  /\ \E a \in {"error"} \cup (Answers[args[r].op] \cap {"failed"}) :
       answer' = [answer EXCEPT ![r] = a]
  /\ go(r, "answered")
  /\ UNCHANGED <<row, gateway, args, readRefunded>>

\* Faulty variant: the catch block forgets to throw the error again.
settleErrorSwallowed(r) ==
  /\ pc[r] = "answered" /\ answer[r] = "error"
  /\ state' = IF accepts(failedState(args[r].op)) THEN failedState(args[r].op) ELSE state
  /\ go(r, "succeeded")
  /\ UNCHANGED <<capturedPaise, refundedPaise, refunds, gateway, args, readRefunded, answer>>

\* Faulty variant: a failed capture leaves the state as it is.
settleErrorWithoutTransition(r) ==
  /\ pc[r] = "answered" /\ answer[r] = "error"
  /\ go(r, "failed")
  /\ UNCHANGED <<row, gateway, args, readRefunded, answer>>

\* Faulty variant: an error is settled like an answer.
settleErrorAsSuccess(r) ==
  /\ pc[r] = "answered" /\ answer[r] = "error"
  /\ state' = IF accepts(settledState(r)) THEN settledState(r) ELSE state
  /\ go(r, "failed")
  /\ UNCHANGED <<capturedPaise, refundedPaise, refunds, gateway, args, readRefunded, answer>>

(* The catch block: transition to the failure state, then throw again; if  *)
(* that transition is refused the request fails all the same.              *)
settleError(r) ==
  /\ pc[r] = "answered" /\ answer[r] = "error"
  /\ state' = IF accepts(failedState(args[r].op)) THEN failedState(args[r].op) ELSE state
  /\ go(r, "failed")
  /\ UNCHANGED <<capturedPaise, refundedPaise, refunds, gateway, args, readRefunded, answer>>

settleAnswer(r) ==
  /\ pc[r] = "answered" /\ answer[r] # "error"
  /\ accepts(settledState(r))
  /\ state' = settledState(r)
  /\ go(r, IF args[r].op = "void" THEN "succeeded" ELSE "settled")
  /\ UNCHANGED <<capturedPaise, refundedPaise, refunds, gateway, args, readRefunded, answer>>

(* The row has moved on meanwhile: the second transition throws. *)
settleRefused(r) ==
  /\ pc[r] = "answered" /\ answer[r] # "error"
  /\ ~ accepts(settledState(r))
  /\ go(r, "failed")
  /\ UNCHANGED <<row, gateway, args, readRefunded, answer>>

\* Faulty variant: the amount asked for is booked, not the one captured,
\* and on top of what was there.
writeCapturedCumulated(r) ==
  /\ pc[r] = "settled" /\ args[r].op = "capture"
  /\ capturedPaise' = capturedPaise + AmountPaise
  /\ go(r, "succeeded")
  /\ UNCHANGED <<state, refundedPaise, refunds, gateway, args, readRefunded, answer>>

(* A second write, outside the transition's transaction, of the amount the *)
(* adapter returned for this call. *)
writeCaptured(r) ==
  /\ pc[r] = "settled" /\ args[r].op = "capture"
  /\ capturedPaise' = capturedAmount(r)
  /\ go(r, "succeeded")
  /\ UNCHANGED <<state, refundedPaise, refunds, gateway, args, readRefunded, answer>>

\* Faulty variant: what is refunded is taken off the captured amount.
writeRefundedBySubtraction(r) ==
  /\ pc[r] = "settled" /\ args[r].op = "refund"
  /\ capturedPaise' = capturedPaise - args[r].amount
  /\ go(r, "amountWritten")
  /\ UNCHANGED <<state, refundedPaise, refunds, gateway, args, readRefunded, answer>>

\* Faulty variant: every refund is booked as a full one.
writeRefundedInFull(r) ==
  /\ pc[r] = "settled" /\ args[r].op = "refund"
  /\ refundedPaise' = capturedPaise
  /\ go(r, "amountWritten")
  /\ UNCHANGED <<state, capturedPaise, refunds, gateway, args, readRefunded, answer>>

(* The new total is computed from the copy read at the beginning; it is    *)
(* a sum only when that copy was "0".                                      *)
writeRefunded(r) ==
  /\ pc[r] = "settled" /\ args[r].op = "refund"
  /\ refundedPaise' = appendedTo(readRefunded[r], args[r].amount)
  /\ go(r, "amountWritten")
  /\ UNCHANGED <<state, capturedPaise, refunds, gateway, args, readRefunded, answer>>

insertRefund(r) ==
  /\ pc[r] = "amountWritten"
  /\ refunds' = refunds \cup {[request |-> r, amount |-> args[r].amount, key |-> args[r].key]}
  /\ go(r, "succeeded")
  /\ UNCHANGED <<state, capturedPaise, refundedPaise, gateway, args, readRefunded, answer>>

(* The process dies; what it had committed stays. *)
crash(r) ==
  /\ Crashes
  /\ pc[r] \in Live
  /\ go(r, "crashed")
  /\ UNCHANGED <<row, gateway, args, readRefunded, answer>>

Next ==
  \E r \in Request :
    \/ \E op \in Ops, amount \in Amounts, key \in Key : receive(r, op, amount, key)
    \/ initiate(r) \/ refuse(r)
    \/ gatewayExecutes(r) \/ gatewayDeclines(r)
    \/ settleError(r) \/ settleAnswer(r) \/ settleRefused(r)
    \/ writeCaptured(r) \/ writeRefunded(r) \/ insertRefund(r)
    \/ crash(r)

Spec == Init /\ [][Next]_vars

------------------------------------------------------------------------------
TypeOK ==
  /\ state \in TransactionState
  /\ capturedPaise \in Nat /\ refundedPaise \in Nat
  /\ refunds \subseteq [request : Request, amount : Amounts, key : Key]
  /\ gwCaptured \in Nat /\ gwRefunded \in Nat /\ gwVoided \in BOOLEAN
  /\ executed \subseteq Request
  /\ pc \in [Request -> PC]
  /\ args \in [Request -> Args \cup {NoArgs}]
  /\ \A r \in Request : pc[r] # "new" => args[r] \in Args
  /\ readRefunded \in [Request -> Nat]
  /\ answer \in [Request -> {"none", "error", "captured", "refunded",
                             "partially_refunded", "voided", "failed"}]

(* A request of this kind was answered "failed", a status that the handler *)
(* takes for an answer like any other.                                     *)
FailedByStatus(op) == \E r \in Request : args[r].op = op /\ answer[r] = "failed"

MoneyTaken == {"CAPTURED", "PARTIALLY_CAPTURED", "SETTLED", "REFUND_INITIATED",
               "REFUND_FAILED", "REFUNDED", "PARTIALLY_REFUNDED"}

(***************************************************************************)
(* The row never claims what the gateway has not done: it is in a captured *)
(* or refunding state only when money was taken, CAPTURED only when all of *)
(* it was, refunded only when some was given back, VOIDED only when the    *)
(* hold was released.  It holds for any interleaving of the handlers, with *)
(* crashes and lost answers.  What may be wrong is a claim about an        *)
(* operation that its adapter has reported as failed by status instead of  *)
(* throwing; CAPTURED is right even then.                                  *)
(***************************************************************************)
ClaimsAreBacked ==
  /\ state \in MoneyTaken => gwCaptured > 0 \/ FailedByStatus("capture")
  /\ state = "CAPTURED" => gwCaptured >= AmountPaise
  /\ state \in {"REFUNDED", "PARTIALLY_REFUNDED"} => gwRefunded > 0 \/ FailedByStatus("refund")
  /\ state = "VOIDED" => gwVoided \/ FailedByStatus("void")

(***************************************************************************)
(* The amounts on the row and in the refunds table never exceed what the   *)
(* gateway moved, although they are written from stale copies, in steps of *)
(* their own, by requests that may overtake each other, and the refunded   *)
(* total is put together from strings.  Only what refunds wrote that were  *)
(* answered "failed" is booked without having been moved.                  *)
(***************************************************************************)
AmountsAreBacked ==
  /\ capturedPaise <= gwCaptured
  /\ refundedPaise <= gwRefunded \/ FailedByStatus("refund")
  /\ \A f \in refunds : /\ f.request \in executed \/ answer[f.request] = "failed"
                        /\ f.amount = args[f.request].amount

(***************************************************************************)
(* A merchant is told of success only when the gateway carried that very   *)
(* request out, or has answered that very request with "failed".           *)
(***************************************************************************)
SuccessIsReal ==
  \A r \in Request : pc[r] = "succeeded" => r \in executed \/ answer[r] = "failed"

(***************************************************************************)
(* Nothing is given back before something was taken: no refund call gets   *)
(* past the gateway of a payment that was never captured, unless a capture *)
(* was answered "failed" and the row taken for partly captured.            *)
(***************************************************************************)
RefundNeedsCapture == gwRefunded > 0 => gwCaptured > 0 \/ FailedByStatus("capture")

(***************************************************************************)
(* A payment rests in CAPTURE_INITIATED, REFUND_INITIATED or VOID_INITIATED*)
(* only while some request is on its way to move it out again, however     *)
(* many requests are refused or overtake each other meanwhile.  Two things *)
(* leave it there for the reconciliation engine: the death of a process,   *)
(* and a void that fails, which parks the payment in CAPTURE_INITIATED     *)
(* although nobody is capturing it.                                        *)
(***************************************************************************)
NoOrphanedOperation ==
  \A op \in Op : state = initiatedState(op) =>
    \E r \in Request :
      \/ pc[r] \in {"calling", "answered", "crashed"} /\ args[r].op = op
      \/ op = "capture" /\ args[r].op = "void" /\ pc[r] = "failed" /\ answer[r] = "error"

(***************************************************************************)
(* A payment the gateway has refunded once, for a merchant who was told    *)
(* so, has the three books agree: the total on the row, the refunds table  *)
(* and the gateway, whatever other requests were refused or failed with an *)
(* exception.                                                              *)
(***************************************************************************)
LoneRefundIsBooked ==
  \A r \in Request :
    /\ pc[r] = "succeeded" /\ args[r].op = "refund" /\ ~ FailedByStatus("refund")
    /\ \A q \in executed : args[q].op = "refund" => q = r
    => /\ refundedPaise = gwRefunded
       /\ {f.request : f \in refunds} = {r}

(***************************************************************************)
(* refund.entity.ts: the idempotency key "prevents duplicate refunds".     *)
(***************************************************************************)
RefundKeyUsedOnce ==
  \A q, r \in executed :
    args[q].op = "refund" /\ args[r].op = "refund" /\ args[q].key = args[r].key => q = r

(***************************************************************************)
(* docs/state-machine.md: REFUNDED comes of a gateway refund success and   *)
(* VOIDED of a gateway void success.                                       *)
(***************************************************************************)
OutcomeNeedsSuccess ==
  /\ state = "REFUNDED" => gwRefunded > 0
  /\ state = "VOIDED" => gwVoided
==============================================================================
