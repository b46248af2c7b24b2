--------------------------- MODULE GatewayAdapters ---------------------------
(***************************************************************************)
(* The eight gateway adapters and the reading of the gateways' webhooks.   *)
(* An adapter operation is a function of how its call ends, either with a  *)
(* word in the body of the answer or without an answer, and its value is   *)
(* the status it returns or the exception it throws.                       *)
(***************************************************************************)
EXTENDS TransactionStates

Mocks  == {"RAZORPAY", "STRIPE", "PAYU", "UPI"}
Hosted == {"PAYSTACK", "FLUTTERWAVE", "INTERSWITCH", "OPAY"}
PaymentGateway == Mocks \cup Hosted

(* What an operation may answer, apart from its exceptions. *)
StatusOf ==
  [authorise   |-> {"authorised", "declined", "pending"},
   capture     |-> {"captured", "partially_captured", "failed"},
   refund      |-> {"refunded", "partially_refunded", "failed"},
   void        |-> {"voided", "failed"},
   fetchStatus |-> {"authorised", "captured", "failed", "refunded", "expired"}]

Exceptions == {"GatewayTimeoutException", "GatewayUnavailableException", "AxiosError"}

------------------------------------------------------------------------------
(* Calls over HTTP that bring no body.  An adapter that is not configured  *)
(* sends nothing.                                                          *)
NoAnswer == {"unconfigured", "timeout", "noConnection", "5xx", "429", "4xx"}

loadConfig == "GatewayUnavailableException"

(* Settings that an adapter needs beyond these. *)
requireMetadata == "GatewayUnavailableException"

request(end) ==
  IF end = "unconfigured" THEN loadConfig
  ELSE IF end = "timeout" THEN "GatewayTimeoutException"
  ELSE IF end \in {"noConnection", "5xx", "429"} THEN "GatewayUnavailableException"
  ELSE "AxiosError"

overHttp(read) ==
  [end \in DOMAIN read \cup NoAnswer |->
     IF end \in DOMAIN read THEN read[end] ELSE request(end)]

(* An operation that calls nobody. *)
local(status) == [end \in {"notSent"} |-> status]

(* The status words of the hosted gateways; "other" is any other word, and *)
(* a body without one.                                                     *)
PaystackWord    == {"success", "failed", "abandoned", "other"}
FlutterwaveWord == {"successful", "failed", "pending", "other"}
InterswitchCode == {"00", "09", "Z25", "other"}
OpayWord        == {"SUCCESS", "FAIL", "PENDING", "CLOSE", "other"}

(* Whether the gateway says the money was taken.                           *)
verify(words, success) ==
  overHttp([w \in words |-> IF w = success THEN "captured" ELSE "failed"])

(* The body of an accepted refund is not looked at. *)
refundAccepted == overHttp([w \in {"processed", "pending", "other"} |-> "refunded"])

paystackStatus ==
  overHttp([w \in PaystackWord |->
    IF w = "success" THEN "captured" ELSE IF w = "abandoned" THEN "expired" ELSE "failed"])

paystack ==
  [authorise   |-> overHttp([w \in {"initialized"} |-> "pending"]),
   capture     |-> verify(PaystackWord, "success"),
   refund      |-> refundAccepted,
   void        |-> local("failed"),
   fetchStatus |-> paystackStatus]

flutterwaveStatus ==
  overHttp([w \in FlutterwaveWord |->
    IF w = "successful" THEN "captured" ELSE IF w = "pending" THEN "authorised" ELSE "failed"])

flutterwave ==
  [authorise   |-> overHttp([w \in {"initialized"} |-> "pending"]),
   capture     |-> verify(FlutterwaveWord, "successful"),
   refund      |-> refundAccepted,
   void        |-> local("failed"),
   fetchStatus |-> flutterwaveStatus]

(* In progress, and not found, are not failures. *)
interswitchStatus ==
  overHttp([w \in InterswitchCode |->
    IF w = "00" THEN "captured" ELSE IF w \in {"09", "Z25"} THEN "authorised" ELSE "failed"])

(* The payer is sent to a page of this server, so authorise calls nobody.  *)
interswitch ==
  [authorise   |-> [end \in {"notSent", "unconfigured", "incomplete"} |->
                      IF end = "notSent" THEN "pending"
                      ELSE IF end = "unconfigured" THEN loadConfig ELSE requireMetadata],
   capture     |-> verify(InterswitchCode, "00"),
   refund      |-> local("failed"),
   void        |-> local("failed"),
   fetchStatus |-> interswitchStatus]

opayStatus ==
  overHttp([w \in OpayWord |->
    IF w = "SUCCESS" THEN "captured" ELSE IF w = "PENDING" THEN "authorised"
    ELSE IF w = "CLOSE" THEN "expired" ELSE "failed"])

opay ==
  [authorise   |-> overHttp([w \in {"initialized"} |-> "pending"]),
   capture     |-> verify(OpayWord, "SUCCESS"),
   refund      |-> refundAccepted,
   void        |-> local("failed"),
   fetchStatus |-> opayStatus]

------------------------------------------------------------------------------
(* The mock adapters do in process what a header of the request asks for;  *)
(* only authorise gets to see that header.                                 *)
MockControl == {"success", "timeout", "server-error", "decline", "rate-limit", "gateway-down"}

applyMockBehaviour ==
  [control \in MockControl |->
     IF control = "timeout" THEN "GatewayTimeoutException"
     ELSE IF control \in {"gateway-down", "server-error", "rate-limit"}
     THEN "GatewayUnavailableException" ELSE "none"]

mockAuthorise ==
  [control \in MockControl |->
     IF applyMockBehaviour[control] # "none" THEN applyMockBehaviour[control]
     ELSE IF control = "decline" THEN "declined" ELSE "authorised"]

razorpay ==
  [authorise |-> mockAuthorise, capture |-> local("captured"), refund |-> local("refunded"),
   void |-> local("voided"), fetchStatus |-> local("captured")]
stripe == razorpay
payU   == razorpay
upi    == razorpay

adapters ==
  [RAZORPAY |-> razorpay, STRIPE |-> stripe, PAYU |-> payU, UPI |-> upi, PAYSTACK |-> paystack,
   FLUTTERWAVE |-> flutterwave, OPAY |-> opay, INTERSWITCH |-> interswitch]

(* The name under which a gateway's API knows a payment, and the one that  *)
(* authorise leaves in gatewayReference: Opay's own order number is not    *)
(* the merchant's reference.                                               *)
gatewayPaymentId(g) == IF g = "OPAY" THEN "orderNo" ELSE "reference"

------------------------------------------------------------------------------
(***************************************************************************)
(* A notification: what happened ("event", for PayU, UPI and Opay a status *)
(* word), whether its response code approves, the id of the notification   *)
(* itself, the amount compared with the row's, and the field in which the  *)
(* gateway passes on the name that authorise gave the payment.  One        *)
(* payment is at stake, so its name is a constant.                         *)
(***************************************************************************)
ThisPayment == "payment"

\* Faulty variant: Opay's notifications go by the reference alone.
eventIdWithoutStatus(g, n) == IF g = "OPAY" THEN <<ThisPayment>> ELSE <<ThisPayment, n.event>>

(* The composite ids that several notifications of a payment share.        *)
extractEventId(g, n) ==
  IF g \in {"RAZORPAY", "PAYSTACK", "FLUTTERWAVE"} THEN <<n.event, ThisPayment>>
  ELSE IF g \in {"STRIPE", "INTERSWITCH"} THEN <<n.uuid>>
  ELSE IF g \in {"PAYU", "UPI"} THEN <<ThisPayment>> ELSE <<ThisPayment, n.event>>

extractEventType(g, n) ==
  IF g = "INTERSWITCH" /\ n.event = "TRANSACTION.COMPLETED"
  THEN IF n.approved THEN "TRANSACTION.COMPLETED:SUCCESS" ELSE "TRANSACTION.COMPLETED:FAILURE"
  ELSE n.event

extractTransactionId(g, n) ==
  LET field == [RAZORPAY |-> "notes", STRIPE |-> "metadata", PAYU |-> "udf1",
                UPI |-> "merchantTransactionId", PAYSTACK |-> "metadata", FLUTTERWAVE |-> "meta",
                INTERSWITCH |-> "merchantReference", OPAY |-> "reference"]
  IN  IF n.namedIn = field[g] THEN ThisPayment ELSE "null"

(* UPI's amount is never looked at. *)
extractAmount(g, n) == IF g = "UPI" THEN "null" ELSE n.amount

(* An amount that is missing, or zero, passes. *)
validateWebhookPayload(g, n) == extractAmount(g, n) \in {"null", "zero", "expected"}

WebhookTransitions ==
  UNION {
    {"RAZORPAY"} \X {<<"payment.authorized", "AUTHORISED">>, <<"payment.captured", "CAPTURED">>,
                     <<"payment.failed", "AUTH_FAILED">>, <<"refund.processed", "REFUNDED">>,
                     <<"payment.dispute.created", "DISPUTE_OPENED">>},
    {"STRIPE"} \X {<<"payment_intent.amount_capturable_updated", "AUTHORISED">>,
                   <<"payment_intent.succeeded", "AUTHORISED">>,
                   <<"payment_intent.payment_failed", "AUTH_FAILED">>,
                   <<"charge.refunded", "REFUNDED">>, <<"charge.dispute.created", "DISPUTE_OPENED">>},
    {"PAYU"} \X {<<"SUCCESS", "CAPTURED">>, <<"FAILED", "AUTH_FAILED">>, <<"REFUNDED", "REFUNDED">>},
    {"UPI"} \X {<<"SUCCESS", "CAPTURED">>, <<"FAILURE", "AUTH_FAILED">>, <<"EXPIRED", "AUTH_EXPIRED">>},
    {"PAYSTACK"} \X {<<"charge.success", "CAPTURED">>, <<"charge.failed", "AUTH_FAILED">>,
                     <<"refund.processed", "REFUNDED">>},
    {"FLUTTERWAVE"} \X {<<"charge.completed", "CAPTURED">>, <<"charge.failed", "AUTH_FAILED">>,
                        <<"transfer.refund", "REFUNDED">>},
    {"INTERSWITCH"} \X {<<"TRANSACTION.COMPLETED:SUCCESS", "CAPTURED">>,
                        <<"TRANSACTION.COMPLETED:FAILURE", "AUTH_FAILED">>},
    {"OPAY"} \X {<<"SUCCESS", "CAPTURED">>, <<"FAIL", "AUTH_FAILED">>, <<"CLOSE", "AUTH_EXPIRED">>} }

(* The state an event stands for, or "none". *)
resolveTransition(g, type) ==
  IF \E to \in TransactionState : <<g, <<type, to>>>> \in WebhookTransitions
  THEN CHOOSE to \in TransactionState : <<g, <<type, to>>>> \in WebhookTransitions
  ELSE "none"
==============================================================================
