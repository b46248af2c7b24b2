----------------------- MODULE PaymentOperations_proofs ----------------------
(***************************************************************************)
(* For any number of concurrent requests, any amounts, any adapters,       *)
(* crashes and lost answers: the row claims nothing the gateway has not    *)
(* done, except what an adapter has reported as failed by status.          *)
(*                                                                         *)
(* The argument: the gateway's books only grow and an answer is given      *)
(* once (FailuresStay), so what is known when a request passes its first   *)
(* transition or has its answer is still true when the request writes      *)
(* (CallInv, AnswerInv); and every write is justified by one of these.  A  *)
(* total that was booked leaves the row in a terminal state, so that a     *)
(* request that read one never gets to add to it (RefundedInv).            *)
(***************************************************************************)
EXTENDS PaymentOperations, TLAPS

USE OperationsAssumption DEF Op

(* A refund is on its way only for a payment that was captured. *)
CallInv ==
  \A r \in Request :
    pc[r] \in {"calling", "answered", "settled", "amountWritten"} /\ args[r].op = "refund" =>
      gwCaptured > 0 \/ FailedByStatus("capture")

(* What an answer that is not an error vouches for. *)
Vouched(r) ==
  /\ r \in executed
  /\ args[r].op = "capture" => answer[r] = "captured" /\ args[r].amount <= gwCaptured
  /\ args[r].op = "refund" => args[r].amount <= gwRefunded
  /\ args[r].op = "void" => gwVoided

AnswerInv ==
  \A r \in Request :
    /\ pc[r] = "answered" /\ answer[r] \notin {"error", "failed"} => Vouched(r)
    /\ pc[r] \in {"settled", "amountWritten", "succeeded"} => Vouched(r) \/ answer[r] = "failed"
    /\ pc[r] = "amountWritten" => args[r].op = "refund"

(* What the gateway has executed was sent to it, and what was not sent has *)
(* no answer yet.                                                          *)
ExecutedInv ==
  \A r \in Request :
    pc[r] \in {"new", "read", "calling"} => r \notin executed /\ answer[r] = "none"

Refunded == {"REFUNDED", "PARTIALLY_REFUNDED"}

RefundedInv ==
  /\ refundedPaise > 0 => state \in Refunded
  /\ \A r \in Request :
       /\ pc[r] \in {"settled", "amountWritten"} /\ args[r].op = "refund" => state \in Refunded
       /\ readRefunded[r] > 0 =>
            /\ state \in Refunded
            /\ pc[r] \notin {"calling", "answered", "settled"}

Inv == /\ TypeOK /\ ExecutedInv /\ CallInv /\ AnswerInv
       /\ ClaimsAreBacked /\ AmountsAreBacked /\ RefundNeedsCapture

------------------------------------------------------------------------------
LEMMA InitInv == Init => Inv
<1> SUFFICES ASSUME Init PROVE Inv
  OBVIOUS
<1>1. TypeOK
  <2>1. state \in TransactionState /\ capturedPaise \in Nat
    BY DEF Init, TransactionState
  <2>2. gwCaptured \in Nat /\ refunds \subseteq [request : Request, amount : Amounts, key : Key]
    BY <2>1 DEF Init
  <2>3. args \in [Request -> Args \cup {NoArgs}]
    BY DEF Init
  <2>4. pc \in [Request -> PC] /\ \A r \in Request : pc[r] # "new" => args[r] \in Args
    BY DEF Init, PC
  <2> QED
    BY <2>1, <2>2, <2>3, <2>4 DEF Init, TypeOK
<1>2. ExecutedInv /\ CallInv /\ AnswerInv
  BY DEF Init, ExecutedInv, CallInv, AnswerInv
<1>3. ClaimsAreBacked /\ AmountsAreBacked /\ RefundNeedsCapture
  BY DEF Init, ClaimsAreBacked, AmountsAreBacked, RefundNeedsCapture, MoneyTaken
<1> QED
  BY <1>1, <1>2, <1>3 DEF Inv

(* What a move into each claiming state presupposes. *)
LEMMA EdgesIntoClaims ==
  /\ accepts("REFUND_INITIATED") => state \in MoneyTaken
  /\ accepts("REFUND_FAILED") => state \in MoneyTaken
BY DEF accepts, assertValidTransition, VALID_TRANSITIONS, TERMINAL_STATES, MoneyTaken

LEMMA TypedRequest ==
  ASSUME TypeOK, NEW r \in Request, pc[r] # "new"
  PROVE  /\ args[r] \in Args
         /\ args[r].op \in {"capture", "refund", "void"}
         /\ args[r].amount \in Nat \ {0}
         /\ args[r].amount \in Amounts /\ args[r].key \in Key
BY DEF TypeOK, Args

(* An answer is given once, to a request whose arguments are settled: what *)
(* was answered "failed" stays so.                                         *)
LEMMA FailuresStay ==
  ASSUME TypeOK, ExecutedInv, [Next]_vars, NEW op \in Op, FailedByStatus(op)
  PROVE  FailedByStatus(op)'
<1>1. PICK q \in Request : args[q].op = op /\ answer[q] = "failed"
  BY DEF FailedByStatus
<1>2. pc[q] \notin {"new", "read", "calling"}
  BY <1>1 DEF ExecutedInv
<1>3. args'[q] = args[q] /\ answer'[q] = answer[q]
  <2>1. CASE UNCHANGED vars
    BY <2>1 DEF vars, local
  <2>2. CASE Next
    <3>1. \/ UNCHANGED <<args, answer>>
          \/ \E r \in Request : /\ pc[r] \in {"new", "calling"}
                               /\ \A s \in Request \ {r} : args'[s] = args[s] /\ answer'[s] = answer[s]
      BY <2>2 DEF TypeOK, Next, receive, initiate, refuse, gatewayExecutes, gatewayDeclines, settleError,
                  settleAnswer, settleRefused, writeCaptured, writeRefunded, insertRefund, crash
    <3> QED
      BY <1>2, <3>1
  <2> QED
    BY <2>1, <2>2
<1> QED
  BY <1>1, <1>3 DEF FailedByStatus

LEMMA ReceiveInv ==
  ASSUME Inv, [Next]_vars, NEW r \in Request, NEW op \in Ops, NEW amount \in Amounts, NEW key \in Key,
         receive(r, op, amount, key)
  PROVE  Inv'
<1>0. \A o \in Op : FailedByStatus(o) => FailedByStatus(o)'
  BY FailuresStay DEF Inv
<1>1. TypeOK'
  BY DEF Inv, TypeOK, receive, go, row, gateway, PC, Args
<1>2. ExecutedInv' /\ CallInv'
  BY <1>0 DEF Inv, TypeOK, ExecutedInv, CallInv, receive, go, row, gateway
<1>3. AnswerInv'
  BY DEF Inv, TypeOK, AnswerInv, Vouched, receive, go, row, gateway
<1>4. ClaimsAreBacked' /\ RefundNeedsCapture'
  BY <1>0 DEF Inv, ClaimsAreBacked, RefundNeedsCapture, receive, row, gateway
<1>5. AmountsAreBacked'
  <2>1. r \notin executed /\ answer[r] = "none"
    BY DEF Inv, ExecutedInv, receive
  <2> QED
    BY <1>0, <2>1 DEF Inv, TypeOK, AmountsAreBacked, receive, row, gateway
<1> QED
  BY <1>1, <1>2, <1>3, <1>4, <1>5 DEF Inv

LEMMA InitiateInv ==
  ASSUME Inv, [Next]_vars, NEW r \in Request, initiate(r)
  PROVE  Inv'
<1>0. \A op \in Op : FailedByStatus(op) => FailedByStatus(op)'
  BY FailuresStay DEF Inv
<1>1. args[r].op \in {"capture", "refund", "void"}
  BY TypedRequest DEF Inv, initiate
<1>2. TypeOK'
  BY <1>1 DEF Inv, TypeOK, initiate, initiatedState, go, gateway, PC, TransactionState
<1>3. ExecutedInv' /\ RefundNeedsCapture'
  BY <1>0 DEF Inv, TypeOK, ExecutedInv, RefundNeedsCapture, initiate, go, gateway
<1>4. args[r].op = "refund" => gwCaptured > 0 \/ FailedByStatus("capture")
  BY EdgesIntoClaims DEF Inv, ClaimsAreBacked, initiate, initiatedState
<1>5. CallInv'
  BY <1>0, <1>4 DEF Inv, TypeOK, CallInv, initiate, go, gateway
<1>6. AnswerInv'
  BY DEF Inv, TypeOK, AnswerInv, Vouched, initiate, go, gateway
<1>7. ClaimsAreBacked'
  BY <1>0, <1>1, <1>4 DEF ClaimsAreBacked, MoneyTaken, initiate, initiatedState, gateway
<1>8. AmountsAreBacked'
  BY <1>0 DEF Inv, AmountsAreBacked, initiate, gateway
<1> QED
  BY <1>2, <1>3, <1>5, <1>6, <1>7, <1>8 DEF Inv

(***************************************************************************)
(* The gateway executes: its books grow, and the answer vouches for it.    *)
(***************************************************************************)
LEMMA ExecuteInv ==
  ASSUME Inv, [Next]_vars, NEW r \in Request, gatewayExecutes(r)
  PROVE  Inv'
<1>0. \A op \in Op : FailedByStatus(op) => FailedByStatus(op)'
  BY FailuresStay DEF Inv
<1>1. /\ args[r] \in Args /\ args[r].op \in {"capture", "refund", "void"}
      /\ args[r].amount \in Nat \ {0}
  BY TypedRequest DEF Inv, gatewayExecutes
<1>2. PICK a \in (Answers[args[r].op] \ {"failed"}) \cup {"error"} :
        answer' = [answer EXCEPT ![r] = a]
  BY DEF gatewayExecutes
<1>3. a \in {"captured", "refunded", "partially_refunded", "voided", "error"}
  BY <1>1, <1>2 DEF Status
<1>4. args[r].op = "capture" /\ a # "error" => a = "captured"
  BY <1>2 DEF Status
<1>5. /\ gwCaptured \in Nat /\ gwRefunded \in Nat
      /\ gwCaptured' \in Nat /\ gwRefunded' \in Nat
      /\ gwCaptured <= gwCaptured' /\ gwRefunded <= gwRefunded'
      /\ args[r].op = "capture" => args[r].amount <= gwCaptured'
      /\ args[r].op = "refund" => gwRefunded + args[r].amount = gwRefunded'
      /\ args[r].op # "refund" => gwRefunded = gwRefunded'
  <2>1. gwCaptured \in Nat /\ gwRefunded \in Nat
    BY DEF Inv, TypeOK
  <2>2. gwCaptured' = gwCaptured + (IF args[r].op = "capture" THEN args[r].amount ELSE 0)
    BY DEF gatewayExecutes
  <2>3. gwRefunded' = gwRefunded + (IF args[r].op = "refund" THEN args[r].amount ELSE 0)
    BY DEF gatewayExecutes
  <2> QED
    BY <1>1, <2>1, <2>2, <2>3
<1>5a. /\ args[r].op = "void" => gwVoided'
       /\ gwVoided => gwVoided'
       /\ gwVoided' \in BOOLEAN
  BY ZenonT(20) DEF gatewayExecutes
<1>6. /\ executed' = executed \cup {r} /\ pc' = [pc EXCEPT ![r] = "answered"]
      /\ pc[r] = "calling" /\ UNCHANGED <<row, args, readRefunded>>
  BY DEF gatewayExecutes, go
<1>7. TypeOK'
  BY <1>2, <1>3, <1>5, <1>6, <1>5a DEF Inv, TypeOK, row, PC
<1>8. ExecutedInv' /\ CallInv'
  BY <1>0, <1>2, <1>5, <1>6 DEF Inv, TypeOK, ExecutedInv, CallInv
<1>9. answer[r] = "none"
  BY <1>6 DEF Inv, ExecutedInv
<1>10. AnswerInv'
  <2>1. ASSUME a # "error" PROVE Vouched(r)'
    BY <1>1, <1>2, <1>4, <1>5, <1>6, <1>5a, <2>1 DEF Inv, TypeOK, Vouched
  <2>2. ASSUME NEW q \in Request \ {r}, Vouched(q), pc[q] # "new" PROVE Vouched(q)'
    <3>1. args[q].amount \in Nat
      BY <2>2, TypedRequest DEF Inv, TypeOK
    <3> QED
      BY <1>2, <1>5, <1>6, <1>5a, <2>2, <3>1 DEF Inv, TypeOK, Vouched
  <2> QED
    BY <1>2, <1>6, <2>1, <2>2 DEF Inv, TypeOK, AnswerInv
<1>11. ClaimsAreBacked'
  BY <1>0, <1>5, <1>6, <1>5a DEF Inv, TypeOK, ClaimsAreBacked, row
<1>12. AmountsAreBacked'
  BY <1>0, <1>2, <1>5, <1>6, <1>9 DEF Inv, TypeOK, AmountsAreBacked, row
<1>13. RefundNeedsCapture'
  BY <1>0, <1>1, <1>5, <1>6 DEF Inv, CallInv, RefundNeedsCapture
<1> QED
  BY <1>7, <1>8, <1>9, <1>10, <1>11, <1>12, <1>13 DEF Inv

(***************************************************************************)
(* Steps that only move a request on: an adapter that throws or answers    *)
(* "failed", a refusal, a crash.                                           *)
(***************************************************************************)
LEMMA DeclineInv ==
  ASSUME Inv, [Next]_vars, NEW r \in Request, gatewayDeclines(r)
  PROVE  Inv'
<1>0. \A op \in Op : FailedByStatus(op) => FailedByStatus(op)'
  BY FailuresStay DEF Inv
<1>1. args[r].op \in {"capture", "refund", "void"}
  BY TypedRequest DEF Inv, gatewayDeclines
<1>2. PICK a \in {"error", "failed"} : answer' = [answer EXCEPT ![r] = a]
  BY DEF gatewayDeclines
<1>3. TypeOK'
  BY <1>2 DEF Inv, TypeOK, gatewayDeclines, go, row, gateway, PC
<1>4. ExecutedInv' /\ CallInv' /\ RefundNeedsCapture'
  BY <1>0 DEF Inv, TypeOK, ExecutedInv, CallInv, RefundNeedsCapture,
         gatewayDeclines, go, gateway
<1>5. AnswerInv'
  BY <1>2 DEF Inv, TypeOK, ExecutedInv, AnswerInv, Vouched, gatewayDeclines, go, gateway
<1>6. ClaimsAreBacked'
  BY <1>0 DEF Inv, ClaimsAreBacked, gatewayDeclines, row, gateway
<1>7. AmountsAreBacked'
  <2>1. answer[r] = "none"
    BY DEF Inv, ExecutedInv, gatewayDeclines
  <2> QED
    BY <1>0, <1>2, <2>1 DEF Inv, TypeOK, AmountsAreBacked, gatewayDeclines, row, gateway
<1> QED
  BY <1>3, <1>4, <1>5, <1>6, <1>7 DEF Inv

LEMMA GiveUpInv ==
  ASSUME Inv, [Next]_vars, NEW r \in Request, refuse(r) \/ settleRefused(r) \/ crash(r)
  PROVE  Inv'
<1>0. \A op \in Op : FailedByStatus(op) => FailedByStatus(op)'
  BY FailuresStay DEF Inv
<1>1. /\ UNCHANGED <<row, gateway, args, readRefunded, answer>>
      /\ pc' = [pc EXCEPT ![r] = "failed"] \/ pc' = [pc EXCEPT ![r] = "crashed"]
      /\ pc[r] # "new"
  BY DEF refuse, settleRefused, crash, go, Live
<1>2. TypeOK'
  BY <1>1 DEF Inv, TypeOK, row, gateway, PC
<1>3. ExecutedInv' /\ CallInv' /\ RefundNeedsCapture'
  BY <1>0, <1>1 DEF Inv, TypeOK, ExecutedInv, CallInv, RefundNeedsCapture, gateway
<1>4. AnswerInv'
  BY <1>1 DEF Inv, TypeOK, AnswerInv, Vouched, gateway
<1>5. ClaimsAreBacked' /\ AmountsAreBacked'
  BY <1>0, <1>1 DEF Inv, ClaimsAreBacked, AmountsAreBacked, row, gateway
<1> QED
  BY <1>2, <1>3, <1>4, <1>5 DEF Inv

(***************************************************************************)
(* The failure states claim nothing, except that a refund that fails was   *)
(* one of a captured payment.                                              *)
(***************************************************************************)
LEMMA SettleErrorInv ==
  ASSUME Inv, [Next]_vars, NEW r \in Request, settleError(r)
  PROVE  Inv'
<1>0. \A op \in Op : FailedByStatus(op) => FailedByStatus(op)'
  BY FailuresStay DEF Inv
<1>1. args[r].op \in {"capture", "refund", "void"}
  BY TypedRequest DEF Inv, settleError
<1>2. TypeOK'
  BY <1>1 DEF Inv, TypeOK, settleError, failedState, go, gateway, PC, TransactionState
<1>3. ExecutedInv' /\ CallInv' /\ RefundNeedsCapture'
  BY <1>0 DEF Inv, TypeOK, ExecutedInv, CallInv, RefundNeedsCapture, settleError, go, gateway
<1>4. AnswerInv'
  BY DEF Inv, TypeOK, AnswerInv, Vouched, settleError, go, gateway
<1>5. ClaimsAreBacked'
  <2>1. state' = state \/ state' = "CAPTURE_FAILED" \/ state' = "CAPTURE_INITIATED"
        \/ (state' = "REFUND_FAILED" /\ state \in MoneyTaken)
    BY <1>1, EdgesIntoClaims DEF settleError, failedState
  <2> QED
    BY <1>0, <2>1 DEF Inv, ClaimsAreBacked, MoneyTaken, settleError, gateway
<1>6. AmountsAreBacked'
  BY <1>0 DEF Inv, AmountsAreBacked, settleError, gateway
<1> QED
  BY <1>2, <1>3, <1>4, <1>5, <1>6 DEF Inv

(***************************************************************************)
(* The outcome states claim what the answer vouches for.                   *)
(***************************************************************************)
LEMMA SettleAnswerInv ==
  ASSUME Inv, [Next]_vars, NEW r \in Request, settleAnswer(r)
  PROVE  Inv'
<1>0. \A op \in Op : FailedByStatus(op) => FailedByStatus(op)'
  BY FailuresStay DEF Inv
<1>1. /\ args[r].op \in {"capture", "refund", "void"}
      /\ args[r].amount \in Nat \ {0}
  BY TypedRequest DEF Inv, settleAnswer
<1>2. /\ Vouched(r) \/ answer[r] = "failed"
      /\ args[r].op = "refund" => gwCaptured > 0 \/ FailedByStatus("capture")
  BY DEF Inv, AnswerInv, CallInv, settleAnswer
<1>3. state' = settledState(r) /\ UNCHANGED <<gwCaptured, gwRefunded, gwVoided, args, answer>>
  BY DEF settleAnswer, gateway
<1>3a. answer[r] = "failed" => FailedByStatus(args[r].op)
  BY DEF FailedByStatus
<1>4. TypeOK'
  <2>1. state' \in TransactionState
    BY <1>1, <1>3 DEF settledState, TransactionState
  <2> QED
    BY <2>1 DEF Inv, TypeOK, settleAnswer, go, gateway, PC
<1>5. ExecutedInv' /\ CallInv' /\ RefundNeedsCapture'
  BY <1>0 DEF Inv, TypeOK, ExecutedInv, CallInv, RefundNeedsCapture, settleAnswer, go, gateway
<1>6. AnswerInv'
  BY <1>2 DEF Inv, TypeOK, AnswerInv, Vouched, settleAnswer, go, gateway
<1>7. ClaimsAreBacked'
  <2>1. CASE args[r].op = "capture"
    <3>1. /\ capturedAmount(r) \in Nat /\ capturedAmount(r) <= gwCaptured
          /\ gwCaptured > 0 \/ FailedByStatus("capture")
      BY <1>1, <1>2, <1>3a, <2>1 DEF Inv, TypeOK, Vouched, capturedAmount
    <3>2. \/ state' = "PARTIALLY_CAPTURED"
          \/ state' = "CAPTURED" /\ AmountPaise <= gwCaptured
      BY <1>3, <2>1, <3>1 DEF Inv, TypeOK, settledState
    <3> QED
      BY <1>0, <1>3, <3>1, <3>2 DEF Inv, TypeOK, ClaimsAreBacked, MoneyTaken
  <2>2. CASE args[r].op = "refund"
    <3>1. gwRefunded > 0 \/ FailedByStatus("refund")
      BY <1>1, <1>2, <1>3a, <2>2 DEF Inv, TypeOK, Vouched
    <3>2. state' \in {"PARTIALLY_REFUNDED", "REFUNDED"}
      BY <1>3, <2>2 DEF settledState
    <3> QED
      BY <1>0, <1>2, <1>3, <2>2, <3>1, <3>2 DEF ClaimsAreBacked, MoneyTaken
  <2>3. CASE args[r].op = "void"
    <3>1. state' = "VOIDED" /\ (gwVoided \/ FailedByStatus("void"))
      BY <1>2, <1>3, <1>3a, <2>3 DEF settledState, Vouched
    <3> QED
      BY <1>0, <1>3, <3>1 DEF ClaimsAreBacked, MoneyTaken
  <2> QED
    BY <1>1, <2>1, <2>2, <2>3
<1>8. AmountsAreBacked'
  BY <1>0 DEF Inv, AmountsAreBacked, settleAnswer, gateway
<1> QED
  BY <1>4, <1>5, <1>6, <1>7, <1>8 DEF Inv

(***************************************************************************)
(* The amounts are written by requests whose answers vouch for them.       *)
(***************************************************************************)
LEMMA WriteInv ==
  ASSUME Inv, RefundedInv, [Next]_vars, NEW r \in Request, writeCaptured(r) \/ writeRefunded(r) \/ insertRefund(r)
  PROVE  Inv'
<1>0. \A op \in Op : FailedByStatus(op) => FailedByStatus(op)'
  BY FailuresStay DEF Inv
<1>1. /\ args[r] \in Args /\ args[r].op \in {"capture", "refund", "void"}
      /\ args[r].amount \in Nat \ {0} /\ args[r].amount \in Amounts /\ args[r].key \in Key
  BY TypedRequest DEF Inv, writeCaptured, writeRefunded, insertRefund
<1>2. /\ Vouched(r) \/ answer[r] = "failed"
      /\ pc[r] = "amountWritten" => args[r].op = "refund"
  BY DEF Inv, AnswerInv, writeCaptured, writeRefunded, insertRefund
<1>3. UNCHANGED <<state, gateway, args, readRefunded, answer>>
  BY DEF writeCaptured, writeRefunded, insertRefund
<1>4. \/ writeRefunded(r) /\ pc' = [pc EXCEPT ![r] = "amountWritten"]
      \/ (writeCaptured(r) \/ insertRefund(r)) /\ pc' = [pc EXCEPT ![r] = "succeeded"]
  BY DEF writeCaptured, writeRefunded, insertRefund, go
<1>5. pc[r] \in {"settled", "amountWritten"}
  BY DEF writeCaptured, writeRefunded, insertRefund
<1>6. /\ capturedPaise' \in Nat /\ capturedPaise' <= gwCaptured
      /\ refundedPaise' \in Nat
      /\ refundedPaise' <= gwRefunded \/ FailedByStatus("refund")
  <2>1. capturedPaise' = capturedPaise \/ (writeCaptured(r) /\ capturedPaise' = capturedAmount(r))
    BY DEF writeCaptured, writeRefunded, insertRefund
  <2>2. refundedPaise' = refundedPaise
        \/ (writeRefunded(r) /\ refundedPaise' = args[r].amount)
    BY DEF Inv, TypeOK, RefundedInv, appendedTo, writeCaptured, writeRefunded, insertRefund
  <2>3. writeCaptured(r) => capturedAmount(r) \in Nat /\ capturedAmount(r) <= gwCaptured
    BY <1>1, <1>2 DEF Inv, TypeOK, Vouched, capturedAmount, writeCaptured
  <2>4. writeRefunded(r) => args[r].amount <= gwRefunded \/ FailedByStatus("refund")
    BY <1>1, <1>2 DEF Inv, TypeOK, Vouched, FailedByStatus, writeRefunded
  <2> QED
    BY <1>1, <2>1, <2>2, <2>3, <2>4 DEF Inv, TypeOK, AmountsAreBacked
<1>7. \/ refunds' = refunds
      \/ refunds' = refunds \cup {[request |-> r, amount |-> args[r].amount, key |-> args[r].key]}
  BY DEF writeCaptured, writeRefunded, insertRefund
<1>8. TypeOK'
  <2>1. refunds' \subseteq [request : Request, amount : Amounts, key : Key]
    BY <1>1, <1>7 DEF Inv, TypeOK
  <2>2. pc' \in [Request -> PC]
    BY <1>4 DEF Inv, TypeOK, PC
  <2>3. \A q \in Request : pc'[q] # "new" => args'[q] \in Args
    BY <1>1, <1>3, <1>4 DEF Inv, TypeOK
  <2> QED
    BY <1>3, <1>6, <2>1, <2>2, <2>3 DEF Inv, TypeOK, gateway
<1>9. ExecutedInv' /\ CallInv' /\ RefundNeedsCapture'
  BY <1>0, <1>3, <1>4, <1>5 DEF Inv, TypeOK, ExecutedInv, CallInv, RefundNeedsCapture, gateway
<1>10. AnswerInv'
  <2>1. writeRefunded(r) => args[r].op = "refund"
    BY DEF writeRefunded
  <2> QED
    BY <1>2, <1>3, <1>4, <1>5, <2>1 DEF Inv, TypeOK, AnswerInv, Vouched, gateway
<1>11. ClaimsAreBacked'
  BY <1>0, <1>3 DEF Inv, ClaimsAreBacked, gateway
<1>12. AmountsAreBacked'
  <2>1. \A f \in refunds' : /\ f.request \in executed' \/ answer'[f.request] = "failed"
                            /\ f.amount = args'[f.request].amount
    BY <1>2, <1>3, <1>7 DEF Inv, AmountsAreBacked, Vouched, gateway
  <2> QED
    BY <1>0, <1>3, <1>6, <2>1 DEF AmountsAreBacked, gateway
<1> QED
  BY <1>8, <1>9, <1>10, <1>11, <1>12 DEF Inv

(***************************************************************************)
(* A refunded row moves no more, and lets no request past its first        *)
(* transition.                                                             *)
(***************************************************************************)
LEMMA RefundedIsTerminal ==
  ASSUME state \in Refunded, NEW to, accepts(to)
  PROVE  to = state
BY DEF accepts, assertValidTransition, TERMINAL_STATES, Refunded

LEMMA RefundedStep == TypeOK /\ RefundedInv /\ [Next]_vars => RefundedInv'
<1> SUFFICES ASSUME TypeOK, RefundedInv, [Next]_vars PROVE RefundedInv'
  OBVIOUS
<1>1. CASE UNCHANGED vars
  BY <1>1 DEF RefundedInv, vars, row, gateway, local
<1>2. ASSUME NEW r \in Request, NEW op \in Ops, NEW amount \in Amounts, NEW key \in Key,
             receive(r, op, amount, key)
      PROVE  RefundedInv'
  BY <1>2 DEF TypeOK, RefundedInv, receive, go, row
<1>3. ASSUME NEW r \in Request, initiate(r) PROVE RefundedInv'
  <2>1. state \notin Refunded
    <3>1. args[r].op \in {"capture", "refund", "void"}
      BY <1>3, TypedRequest DEF initiate
    <3> QED
      BY <1>3, <3>1, RefundedIsTerminal DEF initiate, initiatedState, Refunded
  <2> QED
    BY <1>3, <2>1 DEF TypeOK, RefundedInv, initiate, go
<1>4. ASSUME NEW r \in Request, settleError(r) PROVE RefundedInv'
  <2>1. state \in Refunded => state' = state
    BY <1>4, RefundedIsTerminal DEF settleError
  <2> QED
    BY <1>4, <2>1 DEF TypeOK, RefundedInv, settleError, go
<1>5. ASSUME NEW r \in Request, settleAnswer(r) PROVE RefundedInv'
  <2>1. state \in Refunded => state' = state
    BY <1>5, RefundedIsTerminal DEF settleAnswer
  <2>2. args[r].op = "refund" => state' \in Refunded
    BY <1>5 DEF settleAnswer, settledState, Refunded
  <2> QED
    BY <1>5, <2>1, <2>2 DEF TypeOK, RefundedInv, settleAnswer, go
<1>6. ASSUME NEW r \in Request, writeCaptured(r) \/ writeRefunded(r) \/ insertRefund(r)
      PROVE  RefundedInv'
  <2>1. /\ pc' = [pc EXCEPT ![r] = "amountWritten"] \/ pc' = [pc EXCEPT ![r] = "succeeded"]
        /\ pc[r] \in {"settled", "amountWritten"}
        /\ UNCHANGED <<state, args, readRefunded>>
        /\ refundedPaise' = refundedPaise \/ args[r].op = "refund"
    BY <1>6 DEF writeCaptured, writeRefunded, insertRefund, go
  <2> QED
    BY <2>1 DEF TypeOK, RefundedInv
<1>7. ASSUME NEW r \in Request,
             \/ refuse(r) \/ gatewayExecutes(r) \/ gatewayDeclines(r)
             \/ settleRefused(r) \/ crash(r)
      PROVE  RefundedInv'
  <2>1. /\ UNCHANGED <<state, refundedPaise, args, readRefunded>>
        /\ \/ pc[r] = "calling" /\ pc' = [pc EXCEPT ![r] = "answered"]
           \/ pc' = [pc EXCEPT ![r] = "failed"] \/ pc' = [pc EXCEPT ![r] = "crashed"]
    BY <1>7 DEF refuse, gatewayExecutes, gatewayDeclines, settleRefused, crash, go, row
  <2> QED
    BY <2>1 DEF TypeOK, RefundedInv
<1> QED
  BY <1>1, <1>2, <1>3, <1>4, <1>5, <1>6, <1>7 DEF Next

LEMMA StepInv == Inv /\ RefundedInv /\ [Next]_vars => Inv'
<1> SUFFICES ASSUME Inv, RefundedInv, [Next]_vars PROVE Inv'
  OBVIOUS
<1>1. CASE UNCHANGED vars
  BY <1>1 DEF Inv, TypeOK, ExecutedInv, CallInv, AnswerInv, Vouched, ClaimsAreBacked,
              AmountsAreBacked, RefundNeedsCapture, FailedByStatus, vars, row, gateway, local
<1>2. CASE Next
  <2> PICK r \in Request :
        \/ \E op \in Ops, amount \in Amounts, key \in Key : receive(r, op, amount, key)
        \/ initiate(r) \/ refuse(r) \/ gatewayExecutes(r) \/ gatewayDeclines(r)
        \/ settleError(r) \/ settleAnswer(r) \/ settleRefused(r)
        \/ writeCaptured(r) \/ writeRefunded(r) \/ insertRefund(r) \/ crash(r)
    BY <1>2 DEF Next
  <2> QED
    BY ReceiveInv, InitiateInv, ExecuteInv, DeclineInv, GiveUpInv, SettleErrorInv,
       SettleAnswerInv, WriteInv
<1> QED
  BY <1>1, <1>2

LEMMA InvariantHolds == Spec => [](Inv /\ RefundedInv)
<1>1. Init => Inv /\ RefundedInv
  BY InitInv DEF Init, RefundedInv
<1>2. Inv /\ RefundedInv /\ [Next]_vars => (Inv /\ RefundedInv)'
  BY StepInv, RefundedStep DEF Inv
<1> QED
  BY <1>1, <1>2, PTL DEF Spec

(* The row never claims a capture, a refund or a void that the gateway did *)
(* not carry out, except one its adapter has reported as failed by status. *)
THEOREM RowClaimsAreBacked == Spec => []ClaimsAreBacked
<1>1. Inv => ClaimsAreBacked
  BY DEF Inv
<1> QED
  BY <1>1, InvariantHolds, PTL

(* The recorded amounts never exceed what the gateway moved, although they *)
(* are written from stale copies; again but for failures by status.        *)
THEOREM RowAmountsAreBacked == Spec => []AmountsAreBacked
<1>1. Inv => AmountsAreBacked
  BY DEF Inv
<1> QED
  BY <1>1, InvariantHolds, PTL

(* No money is given back of a payment that was never captured, unless a   *)
(* capture was answered "failed".                                          *)
THEOREM RefundsNeedCaptures == Spec => []RefundNeedsCapture
<1>1. Inv => RefundNeedsCapture
  BY DEF Inv
<1> QED
  BY <1>1, InvariantHolds, PTL

(* Success is reported only for what the gateway carried out or answered   *)
(* with "failed".                                                          *)
THEOREM ReportedSuccessIsReal == Spec => []SuccessIsReal
<1>1. Inv => SuccessIsReal
  BY DEF Inv, AnswerInv, Vouched, SuccessIsReal
<1> QED
  BY <1>1, InvariantHolds, PTL

(* Every variable keeps its type, although the refunded total is put       *)
(* together from strings: a refund that is to be booked has read "0".      *)
THEOREM TypeCorrect == Spec => []TypeOK
<1>1. Inv => TypeOK
  BY DEF Inv
<1> QED
  BY <1>1, InvariantHolds, PTL

------------------------------------------------------------------------------
(* The request that will move the row out of an initiated state, or that   *)
(* has left it there.                                                      *)
Answerable(r, op) ==
  \/ pc[r] \in {"calling", "answered", "crashed"} /\ args[r].op = op
  \/ op = "capture" /\ args[r].op = "void" /\ pc[r] = "failed" /\ answer[r] = "error"

(* From an initiated state both outcomes of its operation are reached.     *)
LEMMA InitiatedIsLeft ==
  ASSUME TypeOK, NEW r \in Request, pc[r] # "new"
  PROVE  /\ \A op \in Op : state = initiatedState(op) /\ args[r].op = op =>
                             accepts(failedState(op)) /\ accepts(settledState(r))
         /\ \A op \in Op : settledState(r) # initiatedState(op)
         /\ \A op \in Op : failedState(args[r].op) = initiatedState(op) =>
                             op = "capture" /\ args[r].op = "void"
<1>1. args[r].op \in {"capture", "refund", "void"}
  BY TypedRequest
<1> QED
  BY <1>1 DEF initiatedState, failedState, settledState, accepts, assertValidTransition,
              VALID_TRANSITIONS, TERMINAL_STATES

LEMMA StepOrphans == TypeOK /\ NoOrphanedOperation /\ [Next]_vars => NoOrphanedOperation'
<1> SUFFICES ASSUME TypeOK, NoOrphanedOperation, [Next]_vars, NEW op \in Op,
                    state' = initiatedState(op)
             PROVE  \E r \in Request : Answerable(r, op)'
  BY DEF NoOrphanedOperation, Answerable, initiatedState
<1>0. state = initiatedState(op) => \E r \in Request : Answerable(r, op)
  BY DEF NoOrphanedOperation, Answerable
<1>1. CASE UNCHANGED vars
  BY <1>0, <1>1 DEF Answerable, vars, row, local
<1>2. ASSUME NEW r \in Request,
             \/ \E o \in Ops, amount \in Amounts, key \in Key : receive(r, o, amount, key)
             \/ refuse(r) \/ gatewayExecutes(r) \/ gatewayDeclines(r) \/ crash(r)
             \/ writeCaptured(r) \/ writeRefunded(r) \/ insertRefund(r)
      PROVE  \E q \in Request : Answerable(q, op)'
  <2>1. state' = state
    BY <1>2 DEF receive, refuse, gatewayExecutes, gatewayDeclines, crash, writeCaptured, writeRefunded,
                insertRefund, row
  <2>2. PICK q \in Request : Answerable(q, op)
    BY <1>0, <2>1
  <2>3. CASE q # r
    <3>1. pc'[q] = pc[q] /\ args'[q] = args[q] /\ answer'[q] = answer[q]
      BY <1>2, <2>3 DEF TypeOK, receive, refuse, gatewayExecutes, gatewayDeclines, crash, writeCaptured,
                        writeRefunded, insertRefund, go
    <3> QED
      BY <2>2, <3>1 DEF Answerable
  <2>4. CASE q = r
    <3>1. pc[r] \in {"calling", "answered", "crashed", "failed"}
      BY <2>2, <2>4 DEF Answerable
    <3>2. gatewayExecutes(r) \/ gatewayDeclines(r) \/ crash(r)
      BY <1>2, <3>1 DEF receive, refuse, writeCaptured, writeRefunded, insertRefund
    <3>3. args' = args /\ pc[r] \in {"calling", "answered"} /\ pc'[r] \in {"answered", "crashed"}
      BY <3>1, <3>2 DEF TypeOK, gatewayExecutes, gatewayDeclines, crash, go, Live
    <3> QED
      BY <2>2, <2>4, <3>3 DEF Answerable
  <2> QED
    BY <2>3, <2>4
<1>3. ASSUME NEW r \in Request, initiate(r) PROVE Answerable(r, op)'
  <2>1. args[r].op \in {"capture", "refund", "void"}
    BY <1>3, TypedRequest DEF initiate
  <2>2. args[r].op = op
    BY <1>3, <2>1 DEF initiate, initiatedState
  <2> QED
    BY <1>3, <2>2 DEF TypeOK, initiate, go, Answerable
<1>4. ASSUME NEW r \in Request, settleError(r) \/ settleAnswer(r) \/ settleRefused(r)
      PROVE  \E q \in Request : Answerable(q, op)'
  <2>0. pc[r] = "answered" /\ UNCHANGED <<args, answer>>
    BY <1>4 DEF settleError, settleAnswer, settleRefused
  <2>1. CASE state' # state
    <3>1. settleError(r) /\ state' = failedState(args[r].op) /\ answer[r] = "error"
      BY <1>4, <2>0, <2>1, InitiatedIsLeft DEF settleError, settleAnswer, settleRefused, row
    <3>2. op = "capture" /\ args[r].op = "void"
      BY <2>0, <3>1, InitiatedIsLeft
    <3>3. pc'[r] = "failed"
      BY <3>1 DEF TypeOK, settleError, go
    <3> QED
      BY <2>0, <3>1, <3>2, <3>3 DEF Answerable
  <2>2. CASE state' = state
    <3>1. PICK q \in Request : Answerable(q, op)
      BY <1>0, <2>2
    <3>2. CASE q # r
      <4>1. pc'[q] = pc[q]
        BY <1>4, <3>2 DEF TypeOK, settleError, settleAnswer, settleRefused, go
      <4> QED
        BY <2>0, <3>1, <4>1 DEF Answerable
    <3>3. CASE q = r
      <4>1. state = initiatedState(op) /\ args[r].op = op
        BY <2>0, <2>2, <3>1, <3>3 DEF Answerable
      <4>2. accepts(failedState(op)) /\ accepts(settledState(r))
        BY <2>0, <4>1, InitiatedIsLeft
      <4>3. settleError(r)
        BY <1>4, <2>0, <2>2, <4>1, <4>2, InitiatedIsLeft DEF settleAnswer, settleRefused
      <4>4. state' = failedState(op)
        BY <4>1, <4>2, <4>3 DEF settleError
      <4>5. op = "capture" /\ args[r].op = "void"
        BY <2>0, <4>1, <4>4, InitiatedIsLeft
      <4> QED
        BY <4>1, <4>5
    <3> QED
      BY <3>2, <3>3
  <2> QED
    BY <2>1, <2>2
<1> QED
  BY <1>1, <1>2, <1>3, <1>4 DEF Next

(* A row in X_INITIATED has a request that will move it on, whatever the   *)
(* gateway answers and however requests overtake each other; a crash or a  *)
(* void that failed leaves it to reconciliation.                           *)
THEOREM NoOperationIsOrphaned == Spec => []NoOrphanedOperation
<1>1. Init => NoOrphanedOperation
  BY DEF Init, NoOrphanedOperation, initiatedState
<1> QED
  BY <1>1, StepOrphans, TypeCorrect, PTL DEF Spec

------------------------------------------------------------------------------
(* The only refund that the gateway has executed.  As long as there is one *)
(* such, its amount is all the gateway has given back, and nobody else     *)
(* writes the total.                                                       *)
Lone(r) == \A q \in executed : args[q].op = "refund" => q = r

GivenBack ==
  /\ (\A q \in executed : args[q].op # "refund") => gwRefunded = 0
  /\ \A r \in executed : args[r].op = "refund" /\ Lone(r) => gwRefunded = args[r].amount

Booked ==
  /\ \A r \in Request :
       /\ pc[r] \in {"amountWritten", "succeeded"} /\ args[r].op = "refund"
       /\ Lone(r) /\ ~ FailedByStatus("refund")
       => refundedPaise = args[r].amount
  /\ \A f \in refunds : args[f.request].op = "refund"
  /\ \A r \in Request :
       pc[r] = "succeeded" /\ args[r].op = "refund" => \E f \in refunds : f.request = r

LEMMA StepGivenBack == Inv /\ GivenBack /\ [Next]_vars => GivenBack'
<1> SUFFICES ASSUME Inv, GivenBack, [Next]_vars PROVE GivenBack'
  OBVIOUS
<1>1. CASE UNCHANGED <<args, executed, gwRefunded>>
  BY <1>1 DEF GivenBack, Lone
<1>2. ASSUME NEW r \in Request, NEW op \in Ops, NEW amount \in Amounts, NEW key \in Key,
             receive(r, op, amount, key)
      PROVE  GivenBack'
  <2>1. \A q \in executed : args'[q] = args[q]
    BY <1>2 DEF Inv, TypeOK, ExecutedInv, receive
  <2>2. UNCHANGED <<executed, gwRefunded>>
    BY <1>2 DEF receive, gateway
  <2> QED
    BY <2>1, <2>2 DEF GivenBack, Lone
<1>3. ASSUME NEW r \in Request, gatewayExecutes(r) PROVE GivenBack'
  <2>1. /\ executed' = executed \cup {r} /\ r \notin executed /\ args' = args
        /\ gwRefunded' = gwRefunded + (IF args[r].op = "refund" THEN args[r].amount ELSE 0)
    BY <1>3 DEF Inv, ExecutedInv, gatewayExecutes
  <2>2. args[r].amount \in Nat /\ gwRefunded \in Nat
    BY <1>3, TypedRequest DEF Inv, TypeOK, gatewayExecutes
  <2> QED
    BY <2>1, <2>2 DEF GivenBack, Lone
<1>4. ASSUME NEW r \in Request,
             \/ initiate(r) \/ refuse(r) \/ gatewayDeclines(r) \/ settleError(r) \/ settleAnswer(r)
             \/ settleRefused(r) \/ writeCaptured(r) \/ writeRefunded(r) \/ insertRefund(r) \/ crash(r)
      PROVE  UNCHANGED <<args, executed, gwRefunded>>
  BY <1>4 DEF initiate, refuse, gatewayDeclines, settleError, settleAnswer, settleRefused, writeCaptured,
              writeRefunded, insertRefund, crash, gateway
<1>5. CASE UNCHANGED vars
  BY <1>1, <1>5 DEF vars, gateway, local
<1> QED
  BY <1>1, <1>2, <1>3, <1>4, <1>5 DEF Next

LEMMA StepBooked == Inv /\ RefundedInv /\ Booked /\ [Next]_vars => Booked'
<1> SUFFICES ASSUME Inv, RefundedInv, Booked, [Next]_vars PROVE Booked'
  OBVIOUS
<1>0. /\ \A f \in refunds : /\ f.request \in Request
                            /\ f.request \in executed \/ answer[f.request] = "failed"
      /\ FailedByStatus("refund") => FailedByStatus("refund")'
  BY FailuresStay DEF Inv, TypeOK, AmountsAreBacked
<1>1. CASE UNCHANGED vars
  BY <1>1 DEF Booked, Lone, FailedByStatus, vars, row, gateway, local
<1>2. ASSUME NEW r \in Request, NEW op \in Ops, NEW amount \in Amounts, NEW key \in Key,
             receive(r, op, amount, key)
      PROVE  Booked'
  <2>1. /\ \A q \in Request \ {r} : args'[q] = args[q] /\ pc'[q] = pc[q]
        /\ pc'[r] = "read" /\ r \notin executed /\ answer[r] = "none"
        /\ UNCHANGED <<executed, refundedPaise, refunds>>
    BY <1>2 DEF Inv, TypeOK, ExecutedInv, receive, go, row, gateway
  <2>2. \A q \in Request \ {r} : Lone(q)' => Lone(q)
    BY <2>1 DEF Inv, TypeOK, Lone
  <2>3. \A f \in refunds : f.request \in Request \ {r}
    <3> SUFFICES ASSUME NEW f \in refunds PROVE f.request \in Request /\ f.request # r
      OBVIOUS
    <3>1. f.request \in Request /\ (f.request \in executed \/ answer[f.request] = "failed")
      BY <1>0, Zenon
    <3>2. r \notin executed /\ answer[r] # "failed"
      BY <2>1
    <3> QED
      BY <3>1, <3>2, Zenon
  <2>4. \A q \in Request : pc'[q] \in {"amountWritten", "succeeded"} =>
          q # r /\ pc[q] = pc'[q] /\ args'[q] = args[q]
    BY <2>1
  <2>5. \A q \in Request : pc'[q] \in {"amountWritten", "succeeded"} /\ args'[q].op = "refund"
          /\ Lone(q)' /\ ~ FailedByStatus("refund")' => refundedPaise' = args'[q].amount
    BY <1>0, <2>1, <2>2, <2>4 DEF Booked
  <2>6. \A f \in refunds' : args'[f.request].op = "refund"
    BY <2>1, <2>3 DEF Booked
  <2>7. \A q \in Request : pc'[q] = "succeeded" /\ args'[q].op = "refund" =>
          \E f \in refunds' : f.request = q
    BY <2>1, <2>4 DEF Booked
  <2> QED
    BY <2>5, <2>6, <2>7 DEF Booked
<1>3. ASSUME NEW r \in Request,
             \/ initiate(r) \/ refuse(r) \/ gatewayExecutes(r) \/ gatewayDeclines(r) \/ settleError(r)
             \/ settleAnswer(r) \/ settleRefused(r) \/ writeCaptured(r) \/ crash(r)
      PROVE  Booked'
  <2>1. /\ UNCHANGED <<args, refundedPaise, refunds>> /\ executed \subseteq executed'
        /\ \A q \in Request \ {r} : pc'[q] = pc[q]
    BY <1>3 DEF Inv, TypeOK, initiate, refuse, gatewayExecutes, gatewayDeclines, settleError, settleAnswer,
                settleRefused, writeCaptured, crash, go, row, gateway
  <2>2. pc'[r] \in {"amountWritten", "succeeded"} => args[r].op # "refund"
    BY <1>3 DEF Inv, TypeOK, initiate, refuse, gatewayExecutes, gatewayDeclines, settleError, settleAnswer,
                settleRefused, writeCaptured, crash, go
  <2>3. \A q \in Request : Lone(q)' => Lone(q)
    BY <2>1 DEF Lone
  <2> QED
    BY <1>0, <2>1, <2>2, <2>3 DEF Booked
<1>4. ASSUME NEW r \in Request, writeRefunded(r) PROVE Booked'
  <2>1. /\ pc[r] = "settled" /\ args[r].op = "refund"
        /\ UNCHANGED <<args, executed, refunds>>
        /\ pc' = [pc EXCEPT ![r] = "amountWritten"]
    BY <1>4 DEF writeRefunded, go, gateway
  <2>2. refundedPaise' = args[r].amount
    BY <1>4, <2>1 DEF Inv, TypeOK, RefundedInv, writeRefunded, appendedTo
  <2>3. ~ FailedByStatus("refund")' => r \in executed
    BY <1>0, <2>1 DEF Inv, AnswerInv, Vouched, FailedByStatus
  <2>4. ~ FailedByStatus("refund")' => \A q \in Request : Lone(q)' => Lone(q) /\ q = r
    BY <2>1, <2>3 DEF Lone
  <2>5. \A q \in Request : pc'[q] = "succeeded" => pc[q] = "succeeded"
    BY <2>1 DEF Inv, TypeOK
  <2> QED
    BY <2>1, <2>2, <2>4, <2>5 DEF Booked
<1>5. ASSUME NEW r \in Request, insertRefund(r) PROVE Booked'
  <2>1. /\ pc[r] = "amountWritten" /\ args[r].op = "refund"
        /\ UNCHANGED <<args, executed, refundedPaise>>
        /\ pc' = [pc EXCEPT ![r] = "succeeded"]
    BY <1>5 DEF Inv, AnswerInv, insertRefund, go, gateway
  <2>2. PICK f \in refunds' : f.request = r /\ refunds' = refunds \cup {f}
    BY <1>5 DEF insertRefund
  <2>3. \A q \in Request : Lone(q)' <=> Lone(q)
    BY <2>1 DEF Lone
  <2>4. \A q \in Request \ {r} : pc'[q] = pc[q]
    BY <2>1 DEF Inv, TypeOK
  <2> QED
    BY <1>0, <2>1, <2>2, <2>3, <2>4 DEF Booked
<1> QED
  BY <1>1, <1>2, <1>3, <1>4, <1>5 DEF Next

(* A payment that was refunded once, and of which no refund was answered   *)
(* "failed", has the total on the row, the refunds table and the gateway's *)
(* books agree.                                                            *)
THEOREM LoneRefundsAreBooked == Spec => []LoneRefundIsBooked
<1>1. Init => GivenBack /\ Booked
  BY DEF Init, GivenBack, Booked
<1>2. Inv /\ RefundedInv /\ GivenBack /\ Booked /\ [Next]_vars => (GivenBack /\ Booked)'
  BY StepGivenBack, StepBooked
<1>3. ASSUME Inv, GivenBack, Booked PROVE LoneRefundIsBooked
  <2> SUFFICES ASSUME NEW r \in Request, pc[r] = "succeeded", args[r].op = "refund", Lone(r),
                      ~ FailedByStatus("refund")
               PROVE  refundedPaise = gwRefunded /\ {f.request : f \in refunds} = {r}
    BY DEF LoneRefundIsBooked, Lone
  <2>1. r \in executed
    BY <1>3 DEF Inv, AnswerInv, Vouched, FailedByStatus
  <2>2. refundedPaise = gwRefunded
    BY <1>3, <2>1 DEF GivenBack, Booked
  <2>3. \A f \in refunds : f.request = r
    <3> SUFFICES ASSUME NEW f \in refunds PROVE f.request = r
      OBVIOUS
    <3>1. f.request \in Request /\ args[f.request].op = "refund"
      BY <1>3 DEF Inv, TypeOK, Booked
    <3>2. f.request \in executed
      BY <1>3, <3>1 DEF Inv, AmountsAreBacked, FailedByStatus
    <3> QED
      BY <3>1, <3>2 DEF Lone
  <2>4. \E f \in refunds : f.request = r
    BY <1>3 DEF Booked
  <2> QED
    BY <2>2, <2>3, <2>4
<1> QED
  BY <1>1, <1>2, <1>3, InvariantHolds, PTL DEF Spec
==============================================================================
