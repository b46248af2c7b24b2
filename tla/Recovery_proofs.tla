---------------------------- MODULE Recovery_proofs ----------------------------
(* Theorems about Recovery, for any number of webhook workers, checkout     *)
(* pages, reconciliation runs, failures and crashes.                        *)
EXTENDS Recovery, TLAPS

(* What the hosted gateways' adapters answer, as far as the outcome of the  *)
(* payment decides it.                                                      *)
LEMMA HttpCall ==
  ASSUME NEW read, NEW end \in DOMAIN read \cup NoAnswer
  PROVE  overHttp(read)[end] = IF end \in DOMAIN read THEN read[end] ELSE request(end)
BY DEF overHttp

LEMMA NoAnswerIsException == \A end \in NoAnswer : request(end) \in Exceptions
BY DEF NoAnswer, request, loadConfig, Exceptions

LEMMA StatusAnswers ==
  /\ \A end \in NoAnswer \cup PaystackWord :
       paystackStatus[end] =
         IF end \in NoAnswer THEN request(end)
         ELSE IF end = "success" THEN "captured" ELSE IF end = "abandoned" THEN "expired" ELSE "failed"
  /\ \A end \in NoAnswer \cup FlutterwaveWord :
       flutterwaveStatus[end] =
         IF end \in NoAnswer THEN request(end)
         ELSE IF end = "successful" THEN "captured" ELSE IF end = "pending" THEN "authorised" ELSE "failed"
  /\ \A end \in NoAnswer \cup InterswitchCode :
       interswitchStatus[end] =
         IF end \in NoAnswer THEN request(end)
         ELSE IF end = "00" THEN "captured"
         ELSE IF end \in {"09", "Z25"} THEN "authorised" ELSE "failed"
  /\ \A end \in NoAnswer \cup OpayWord :
       opayStatus[end] =
         IF end \in NoAnswer THEN request(end)
         ELSE IF end = "SUCCESS" THEN "captured" ELSE IF end = "PENDING" THEN "authorised"
         ELSE IF end = "CLOSE" THEN "expired" ELSE "failed"
<1>1. \A end \in NoAnswer : end \notin PaystackWord \cup FlutterwaveWord \cup InterswitchCode \cup OpayWord
  BY DEF NoAnswer, PaystackWord, FlutterwaveWord, InterswitchCode, OpayWord
<1>2. \A end \in NoAnswer \cup PaystackWord :
       paystackStatus[end] =
         IF end \in NoAnswer THEN request(end)
         ELSE IF end = "success" THEN "captured" ELSE IF end = "abandoned" THEN "expired" ELSE "failed"
  BY <1>1, HttpCall DEF paystackStatus
<1>3. \A end \in NoAnswer \cup FlutterwaveWord :
       flutterwaveStatus[end] =
         IF end \in NoAnswer THEN request(end)
         ELSE IF end = "successful" THEN "captured" ELSE IF end = "pending" THEN "authorised" ELSE "failed"
  BY <1>1, HttpCall DEF flutterwaveStatus
<1>4. \A end \in NoAnswer \cup InterswitchCode :
       interswitchStatus[end] =
         IF end \in NoAnswer THEN request(end)
         ELSE IF end = "00" THEN "captured"
         ELSE IF end \in {"09", "Z25"} THEN "authorised" ELSE "failed"
  BY <1>1, HttpCall DEF interswitchStatus
<1>5. \A end \in NoAnswer \cup OpayWord :
       opayStatus[end] =
         IF end \in NoAnswer THEN request(end)
         ELSE IF end = "SUCCESS" THEN "captured" ELSE IF end = "PENDING" THEN "authorised"
         ELSE IF end = "CLOSE" THEN "expired" ELSE "failed"
  BY <1>1, HttpCall DEF opayStatus
<1> QED
  BY <1>2, <1>3, <1>4, <1>5

LEMMA AdapterOf ==
  /\ adapters["PAYSTACK"] = paystack /\ adapters["FLUTTERWAVE"] = flutterwave
  /\ adapters["INTERSWITCH"] = interswitch /\ adapters["OPAY"] = opay
BY DEF adapters

(* The words by which a gateway answers, given what became of the payment.  *)
LEMMA WordsOf ==
  ASSUME gateway \in Hosted, atGateway \in Outcome,
         NEW known \in BOOLEAN,
         NEW word \in words[gateway][IF known THEN atGateway ELSE "unknown"]
  PROVE  /\ gateway = "PAYSTACK" => /\ word \in NoAnswer \cup PaystackWord
                                    /\ word = "success" <=> known /\ atGateway = "paid"
                                    /\ word = "abandoned" => atGateway = "closed"
         /\ gateway = "FLUTTERWAVE" => /\ word \in NoAnswer \cup FlutterwaveWord
                                       /\ word = "successful" <=> known /\ atGateway = "paid"
         /\ gateway = "INTERSWITCH" => /\ word \in InterswitchCode
                                       /\ word = "00" <=> known /\ atGateway = "paid"
         /\ gateway = "OPAY" => /\ word \in NoAnswer \cup OpayWord
                                /\ word = "SUCCESS" <=> known /\ atGateway = "paid"
                                /\ word = "CLOSE" => atGateway = "closed"
<1> USE DEF Outcome, NoAnswer
<1>1. CASE gateway = "PAYSTACK"
  BY <1>1 DEF words, PaystackWord
<1>2. CASE gateway = "FLUTTERWAVE"
  BY <1>2 DEF words, FlutterwaveWord
<1>3. CASE gateway = "INTERSWITCH"
  BY <1>3 DEF words, InterswitchCode
<1>4. CASE gateway = "OPAY"
  BY <1>4 DEF words, OpayWord
<1> QED
  BY <1>1, <1>2, <1>3, <1>4 DEF Hosted

(* fetchStatus says captured only of a paid and expired only of a closed    *)
(* payment.                                                                 *)
LEMMA StatusIsTrue ==
  ASSUME gateway \in Hosted, atGateway \in Outcome, NEW name,
         NEW said \in asking(adapters[gateway].fetchStatus, name)
  PROVE  /\ said \in Exceptions \cup {"authorised", "captured", "failed", "expired"}
         /\ said = "captured" => atGateway = "paid"
         /\ said = "expired" => atGateway = "closed"
<1> DEFINE known == name = gatewayPaymentId(gateway)
           answer == adapters[gateway].fetchStatus
<1>1. PICK end \in NoAnswer \cup words[gateway][IF known THEN atGateway ELSE "unknown"] :
        said = answer[end]
  BY DEF asking
<1>2. known \in BOOLEAN
  OBVIOUS
<1>3. ASSUME end \in NoAnswer PROVE said \in Exceptions
  <2>1. /\ paystackStatus[end] = request(end) /\ flutterwaveStatus[end] = request(end)
        /\ interswitchStatus[end] = request(end) /\ opayStatus[end] = request(end)
    BY <1>3, StatusAnswers
  <2>2. answer \in {paystackStatus, flutterwaveStatus, interswitchStatus, opayStatus}
    BY AdapterOf DEF Hosted, paystack, flutterwave, interswitch, opay
  <2> QED
    BY <1>1, <1>3, <2>1, <2>2, NoAnswerIsException
<1>4. ASSUME end \notin NoAnswer
      PROVE  /\ said \in {"authorised", "captured", "failed", "expired"}
             /\ said = "captured" => atGateway = "paid"
             /\ said = "expired" => atGateway = "closed"
  <2>0. end \in words[gateway][IF known THEN atGateway ELSE "unknown"]
    BY <1>1, <1>4
  <2> HIDE DEF known
  <2>1. CASE gateway = "PAYSTACK"
    BY <1>1, <1>2, <1>4, <2>0, <2>1, WordsOf, StatusAnswers, AdapterOf DEF paystack
  <2>2. CASE gateway = "FLUTTERWAVE"
    BY <1>1, <1>2, <1>4, <2>0, <2>2, WordsOf, StatusAnswers, AdapterOf DEF flutterwave
  <2>3. CASE gateway = "INTERSWITCH"
    BY <1>1, <1>2, <1>4, <2>0, <2>3, WordsOf, StatusAnswers, AdapterOf DEF interswitch
  <2>4. CASE gateway = "OPAY"
    BY <1>1, <1>2, <1>4, <2>0, <2>4, WordsOf, StatusAnswers, AdapterOf DEF opay
  <2> QED
    BY <2>1, <2>2, <2>3, <2>4 DEF Hosted
<1>5. \A x \in Exceptions : x \notin {"captured", "expired"}
  BY DEF Exceptions
<1> QED
  BY <1>3, <1>4, <1>5

(* And the words when it is asked under the name it knows.                  *)
LEMMA WordsWhenKnown ==
  ASSUME gateway \in Hosted, atGateway \in Outcome, NEW word \in words[gateway][atGateway]
  PROVE  /\ gateway = "PAYSTACK" => /\ word \in NoAnswer \cup PaystackWord
                                    /\ word = "success" <=> atGateway = "paid"
         /\ gateway = "FLUTTERWAVE" => /\ word \in NoAnswer \cup FlutterwaveWord
                                       /\ word = "successful" <=> atGateway = "paid"
         /\ gateway = "INTERSWITCH" => /\ word \in InterswitchCode
                                       /\ word = "00" <=> atGateway = "paid"
         /\ gateway = "OPAY" => /\ word \in NoAnswer \cup OpayWord
                                /\ word = "SUCCESS" <=> atGateway = "paid"
<1> DEFINE known == TRUE
<1>1. known \in BOOLEAN /\ word \in words[gateway][IF known THEN atGateway ELSE "unknown"] /\ known
  OBVIOUS
<1> HIDE DEF known
<1> QED
  BY <1>1, WordsOf

(* A capture asked for under the right name succeeds exactly when the payer *)
(* has paid, or brings an exception.                                        *)
LEMMA CaptureIsTrue ==
  ASSUME gateway \in Hosted, atGateway \in Outcome,
         NEW said \in asking(adapters[gateway].capture, gatewayPaymentId(gateway))
  PROVE  \/ said \in Exceptions
         \/ said = "captured" /\ atGateway = "paid"
         \/ said = "failed" /\ atGateway # "paid"
<1> DEFINE answer == adapters[gateway].capture
<1>1. PICK end \in NoAnswer \cup words[gateway][atGateway] :
        said = answer[end]
  BY DEF asking
<1>2. /\ \A end_1 \in NoAnswer : end_1 \notin PaystackWord \cup FlutterwaveWord \cup InterswitchCode \cup OpayWord
      /\ DOMAIN [w \in PaystackWord |-> IF w = "success" THEN "captured" ELSE "failed"] = PaystackWord
  BY DEF NoAnswer, PaystackWord, FlutterwaveWord, InterswitchCode, OpayWord
<1>3. answer \in {verify(PaystackWord, "success"), verify(FlutterwaveWord, "successful"),
                  verify(InterswitchCode, "00"), verify(OpayWord, "SUCCESS")}
  BY AdapterOf DEF Hosted, paystack, flutterwave, interswitch, opay
<1>4. ASSUME end \in NoAnswer PROVE said \in Exceptions
  BY <1>1, <1>2, <1>3, <1>4, HttpCall, NoAnswerIsException DEF verify
<1>5. ASSUME end \notin NoAnswer
      PROVE  said = IF atGateway = "paid" THEN "captured" ELSE "failed"
  <2>0. end \in words[gateway][atGateway]
    BY <1>1, <1>5
  <2>1. CASE gateway = "PAYSTACK"
    <3>1. answer = verify(PaystackWord, "success") /\ end \in PaystackWord
          /\ (end = "success" <=> atGateway = "paid")
      BY <1>5, <2>0, <2>1, WordsWhenKnown, AdapterOf DEF paystack
    <3> QED
      BY <1>1, <3>1, HttpCall DEF verify
  <2>2. CASE gateway = "FLUTTERWAVE"
    <3>1. answer = verify(FlutterwaveWord, "successful") /\ end \in FlutterwaveWord
          /\ (end = "successful" <=> atGateway = "paid")
      BY <1>5, <2>0, <2>2, WordsWhenKnown, AdapterOf DEF flutterwave
    <3> QED
      BY <1>1, <3>1, HttpCall DEF verify
  <2>3. CASE gateway = "INTERSWITCH"
    <3>1. answer = verify(InterswitchCode, "00") /\ end \in InterswitchCode
          /\ (end = "00" <=> atGateway = "paid")
      BY <1>5, <2>0, <2>3, WordsWhenKnown, AdapterOf DEF interswitch
    <3> QED
      BY <1>1, <3>1, HttpCall DEF verify
  <2>4. CASE gateway = "OPAY"
    <3>1. answer = verify(OpayWord, "SUCCESS") /\ end \in OpayWord
          /\ (end = "SUCCESS" <=> atGateway = "paid")
      BY <1>5, <2>0, <2>4, WordsWhenKnown, AdapterOf DEF opay
    <3> QED
      BY <1>1, <3>1, HttpCall DEF verify
  <2> QED
    BY <2>1, <2>2, <2>3, <2>4 DEF Hosted
<1> QED
  BY <1>4, <1>5

(* The state a notification of a hosted gateway stands for.                 *)
Meaning(what) == resolveTransition(gateway, extractEventType(gateway, notification(what)))

LEMMA HostedTransitions ==
  ASSUME NEW g \in Hosted, NEW type, NEW to
  PROVE  <<g, <<type, to>>>> \in WebhookTransitions <=>
           \/ g = "PAYSTACK" /\ \/ type = "charge.success" /\ to = "CAPTURED"
                                \/ type = "charge.failed" /\ to = "AUTH_FAILED"
                                \/ type = "refund.processed" /\ to = "REFUNDED"
           \/ g = "FLUTTERWAVE" /\ \/ type = "charge.completed" /\ to = "CAPTURED"
                                   \/ type = "charge.failed" /\ to = "AUTH_FAILED"
                                   \/ type = "transfer.refund" /\ to = "REFUNDED"
           \/ g = "INTERSWITCH" /\ \/ type = "TRANSACTION.COMPLETED:SUCCESS" /\ to = "CAPTURED"
                                   \/ type = "TRANSACTION.COMPLETED:FAILURE" /\ to = "AUTH_FAILED"
           \/ g = "OPAY" /\ \/ type = "SUCCESS" /\ to = "CAPTURED"
                            \/ type = "FAIL" /\ to = "AUTH_FAILED"
                            \/ type = "CLOSE" /\ to = "AUTH_EXPIRED"
BY DEF WebhookTransitions, Hosted

LEMMA NotificationIsTrue ==
  ASSUME gateway \in Hosted, atGateway \in Outcome, amount \in {"expected", "other"},
         NEW what \in occasions[gateway][atGateway]
  PROVE  /\ Meaning(what) \in {"none", "CAPTURED", "AUTH_FAILED", "AUTH_EXPIRED"}
         /\ Meaning(what) = "CAPTURED" => atGateway = "paid" /\ what # "PENDING"
         /\ Meaning(what) = "AUTH_FAILED" => atGateway = "declined"
         /\ Meaning(what) = "AUTH_EXPIRED" => atGateway = "closed"
         /\ Meaning(what) = "CAPTURED" /\ validateWebhookPayload(gateway, notification(what))
              => amount = "expected"
<1> DEFINE type == extractEventType(gateway, notification(what))
<1>1. /\ notification(what).event = what
      /\ notification(what).approved = (atGateway = "paid")
      /\ what # "PENDING" => notification(what).amount = amount
  BY DEF notification
<1>2. /\ gateway = "PAYSTACK" => \/ what = "charge.success" /\ atGateway = "paid"
                                 \/ what = "charge.failed" /\ atGateway = "declined"
      /\ gateway = "FLUTTERWAVE" => \/ what = "charge.completed" /\ atGateway = "paid"
                                    \/ what = "charge.failed" /\ atGateway = "declined"
      /\ gateway = "INTERSWITCH" => what = "TRANSACTION.COMPLETED" /\ atGateway \in {"paid", "declined"}
      /\ gateway = "OPAY" => \/ what = "PENDING"
                             \/ what = "SUCCESS" /\ atGateway = "paid"
                             \/ what = "FAIL" /\ atGateway = "declined"
                             \/ what = "CLOSE" /\ atGateway = "closed"
  BY DEF occasions, Outcome, Hosted
<1>3. /\ gateway # "INTERSWITCH" => type = what
      /\ gateway = "INTERSWITCH" => type = IF atGateway = "paid" THEN "TRANSACTION.COMPLETED:SUCCESS"
                                           ELSE "TRANSACTION.COMPLETED:FAILURE"
  BY <1>1, <1>2 DEF extractEventType
<1>4. \A to : <<gateway, <<type, to>>>> \in WebhookTransitions =>
        \/ to = "CAPTURED" /\ atGateway = "paid" /\ what # "PENDING"
        \/ to = "AUTH_FAILED" /\ atGateway = "declined"
        \/ to = "AUTH_EXPIRED" /\ atGateway = "closed"
  BY <1>2, <1>3, HostedTransitions DEF Hosted
<1>5. \/ Meaning(what) = "none"
      \/ <<gateway, <<type, Meaning(what)>>>> \in WebhookTransitions
  BY DEF Meaning, resolveTransition
<1>6. what # "PENDING" /\ validateWebhookPayload(gateway, notification(what)) => amount = "expected"
  BY <1>1 DEF validateWebhookPayload, extractAmount, Hosted
<1> QED
  BY <1>4, <1>5, <1>6

-------------------------------------------------------------------------------
(* Where the transitions of a walker can have got to.                       *)
CapturePath == {<<"AUTHORISED", "CAPTURE_INITIATED", "CAPTURED">>,
                <<"CAPTURE_INITIATED", "CAPTURED">>, <<"CAPTURED">>}
Path == CapturePath \cup {<<>>, <<"AUTH_FAILED">>, <<"AUTH_EXPIRED">>}

PaidInFull == atGateway = "paid" /\ amount = "expected"

(* A walker's transitions are what happened at the gateway, where nothing   *)
(* happens twice; so they stay true however old the copy is.                *)
WalkerOK(w) ==
  /\ todo[w] \in Path
  /\ pc[w] = "walking" <=> todo[w] # <<>>
  /\ todo[w] \in CapturePath => PaidInFull
  /\ todo[w] = <<"AUTH_FAILED">> => atGateway = "declined"
  /\ todo[w] = <<"AUTH_EXPIRED">> => atGateway = "closed"
  /\ pc[w] = "asking" => copy[w] = "AUTH_INITIATED" /\ gateway = "INTERSWITCH"
  /\ pc[w] = "read" => event[w] \in occasions[gateway][atGateway]

WalkerInv == \A w \in Walker : WalkerOK(w)

(* A capture in progress comes from a walker or from the merchant, whose    *)
(* request leaves the states before it for good.                            *)
RowInv ==
  /\ state = "CAPTURE_INITIATED" => PaidInFull \/ captureCall # "none"
  /\ captureCall # "none" => state \notin {"AUTH_INITIATED", "AUTHORISED"}
  /\ captureCall = "captured" => atGateway = "paid"

(* After a capture that took nothing nobody can capture any more: no walker *)
(* has the beginning of a capture in hand that the row would accept.        *)
NoNewCapture(w) ==
  /\ todo[w] # <<"CAPTURE_INITIATED", "CAPTURED">>
  /\ pc[w] = "read" /\ event[w] # "PENDING" /\ atGateway = "paid" => copy[w] # "AUTHORISED"

AfterZero == {"PARTIALLY_CAPTURED", "REFUND_INITIATED", "REFUNDED", "PARTIALLY_REFUNDED", "REFUND_FAILED"}

ZeroInv ==
  /\ captureCall = "writingZero" => state \in AfterZero
  /\ captureCall \in {"failed", "writingZero"} => \A w \in Walker : NoNewCapture(w)

(* What a run has been told is true of the payment.                         *)
RunInv ==
  \A j \in Job :
    /\ run[j].said \in {"none", "authorised", "captured", "failed", "expired"}
    /\ run[j].stage \in {"resolvable", "resolved", "flagged"} => run[j].said # "none"
    /\ run[j].said = "captured" => atGateway = "paid"
    /\ run[j].said = "expired" => atGateway = "closed"

Inv ==
  /\ TypeOK /\ WalkerInv /\ RowInv /\ ZeroInv /\ RunInv
  /\ OutcomeAgreesWithGateway /\ CaptureIsBooked /\ OverridesAreLogged

LEMMA Edges ==
  ASSUME NEW from, NEW to, assertValidTransition(from, to)
  PROVE  /\ to # "AUTH_INITIATED" \/ from = "ROUTE_SELECTED"
         /\ to = "AUTHORISED" => from = "AUTH_INITIATED"
         /\ to = "AUTH_FAILED" => from = "AUTH_INITIATED"
         /\ to = "AUTH_EXPIRED" => from \in {"AUTH_INITIATED", "AUTHORISED"}
         /\ to = "FAILED" => from \in {"AUTH_FAILED", "AUTH_TIMEOUT"}
         /\ to = "CAPTURE_INITIATED" =>
              from \in {"AUTHORISED", "PARTIALLY_CAPTURED", "CAPTURE_FAILED", "VOID_INITIATED"}
         /\ to \in {"CAPTURED", "PARTIALLY_CAPTURED", "CAPTURE_FAILED"} => from = "CAPTURE_INITIATED"
         /\ to = "VOID_INITIATED" => from \in {"AUTHORISED", "CAPTURE_FAILED"}
         /\ to = "VOIDED" => from = "VOID_INITIATED"
         /\ to # "none" /\ to \in TransactionState
BY DEF assertValidTransition, VALID_TRANSITIONS, TransactionState

LEMMA PathStep ==
  ASSUME NEW p \in Path, p # <<>>
  PROVE  /\ Tail(p) \in Path
         /\ Tail(p) # <<>> => p \in CapturePath /\ Tail(p) \in CapturePath
         /\ Head(p) \in {"AUTHORISED", "CAPTURE_INITIATED"} => Tail(p) # <<>>
         /\ Tail(p) = <<"CAPTURE_INITIATED", "CAPTURED">> => Head(p) = "AUTHORISED"
         /\ Head(p) \in {"AUTHORISED", "CAPTURE_INITIATED", "CAPTURED", "AUTH_FAILED", "AUTH_EXPIRED"}
         /\ Head(p) \in {"AUTHORISED", "CAPTURE_INITIATED", "CAPTURED"} => p \in CapturePath
         /\ Head(p) = "CAPTURE_INITIATED" => p = <<"CAPTURE_INITIATED", "CAPTURED">>
         /\ Head(p) = "CAPTURED" => Tail(p) = <<>>
         /\ Head(p) = "AUTH_FAILED" => p = <<"AUTH_FAILED">>
         /\ Head(p) = "AUTH_EXPIRED" => p = <<"AUTH_EXPIRED">>
<1>1. CASE p = <<"AUTHORISED", "CAPTURE_INITIATED", "CAPTURED">>
  <2>1. Head(p) = "AUTHORISED" /\ Tail(p) = <<"CAPTURE_INITIATED", "CAPTURED">>
    BY <1>1
  <2> QED
    BY <1>1, <2>1 DEF Path, CapturePath
<1>2. CASE p = <<"CAPTURE_INITIATED", "CAPTURED">>
  <2>1. Head(p) = "CAPTURE_INITIATED" /\ Tail(p) = <<"CAPTURED">>
    BY <1>2
  <2> QED
    BY <1>2, <2>1 DEF Path, CapturePath
<1>3. CASE p = <<"CAPTURED">>
  <2>1. Head(p) = "CAPTURED" /\ Tail(p) = <<>>
    BY <1>3
  <2> QED
    BY <1>3, <2>1 DEF Path, CapturePath
<1>4. CASE p = <<"AUTH_FAILED">>
  <2>1. Head(p) = "AUTH_FAILED" /\ Tail(p) = <<>>
    BY <1>4
  <2> QED
    BY <1>4, <2>1 DEF Path, CapturePath
<1>5. CASE p = <<"AUTH_EXPIRED">>
  <2>1. Head(p) = "AUTH_EXPIRED" /\ Tail(p) = <<>>
    BY <1>5
  <2> QED
    BY <1>5, <2>1 DEF Path, CapturePath
<1> QED
  BY <1>1, <1>2, <1>3, <1>4, <1>5 DEF Path, CapturePath

LEMMA PathTo ==
  ASSUME NEW from, NEW to \in {"none", "CAPTURED", "AUTH_FAILED", "AUTH_EXPIRED"}
  PROVE  /\ pathTo(from, to) \in Path
         /\ pathTo(from, to) \in CapturePath => to = "CAPTURED"
         /\ pathTo(from, to) = <<"AUTH_FAILED">> => to = "AUTH_FAILED"
         /\ pathTo(from, to) = <<"AUTH_EXPIRED">> => to = "AUTH_EXPIRED"
         /\ pathTo(from, to) = <<"CAPTURE_INITIATED", "CAPTURED">> => from = "AUTHORISED"
<1>1. assertValidTransition(from, to) => to # "none" /\ pathTo(from, to) = <<to>>
  BY Edges DEF pathTo
<1>2. ~ assertValidTransition(from, to) =>
        \/ pathTo(from, to) = <<>>
        \/ to = "CAPTURED" /\ pathTo(from, to) = <<"AUTHORISED", "CAPTURE_INITIATED", "CAPTURED">>
        \/ /\ to = "CAPTURED" /\ from = "AUTHORISED"
           /\ pathTo(from, to) = <<"CAPTURE_INITIATED", "CAPTURED">>
  BY DEF pathTo
<1> QED
  BY <1>1, <1>2 DEF Path, CapturePath

LEMMA PathIsOfStates == Path \subseteq Seq(TransactionState)
BY DEF Path, CapturePath, TransactionState

-------------------------------------------------------------------------------
(* TypeOK in three parts. *)
RowType ==
  /\ gateway \in Gateways /\ state \in TransactionState
  /\ reference \in Reference /\ captureBooked \in BOOLEAN
  /\ atGateway \in Outcome /\ amount \in {"expected", "other"}
  /\ captureCall \in {"none", "calling", "captured", "failed", "error", "writing", "writingZero", "done"}
  /\ touched \in BOOLEAN /\ cut \in BOOLEAN

WalkerType ==
  /\ pc \in [Walker -> {"idle", "read", "asking", "walking", "booking", "catching"}]
  /\ copy \in [Walker -> TransactionState \cup {NoRow}]
  /\ event \in [Walker -> {"none"} \cup Notice]
  /\ tries \in [Walker -> 0 .. 3]
  /\ todo \in [Walker -> Seq(TransactionState)]

RunType ==
  /\ run \in [Job -> [stage : {"idle", "asking", "resolvable", "resolved", "flagged", "over"},
                      from : RECONCILABLE_STATES \cup {NoRow}, asks : Reference,
                      said : StatusOf.fetchStatus \cup {"none"}]]
  /\ log \subseteq [discrepancyType : {"INTERNAL_PENDING_GATEWAY_SUCCEEDED", "STATUS_MISMATCH"},
                   internalState : RECONCILABLE_STATES \cup {NoRow},
                   gatewayState : StatusOf.fetchStatus \cup {"none"},
                   requiresReview : BOOLEAN, resolved : BOOLEAN]
  /\ overrides \subseteq TransactionState

LEMMA TypeParts == TypeOK <=> RowType /\ WalkerType /\ RunType
BY DEF TypeOK, RowType, WalkerType, RunType

LEMMA InitInv == Init => Inv
<1> SUFFICES ASSUME Init PROVE Inv
  OBVIOUS
<1> USE RecoveryAssumption DEF Init
<1>1. RowType
  BY DEF RowType, TransactionState, Reference, Outcome
<1>2. WalkerType
  BY DEF WalkerType
<1>3. RunType
  BY DEF RunType, Idle, Reference
<1>4. WalkerInv
  BY DEF WalkerInv, WalkerOK, Path, CapturePath
<1>5. RunInv
  BY DEF RunInv, Idle
<1>6. RowInv /\ ZeroInv /\ OutcomeAgreesWithGateway /\ CaptureIsBooked /\ OverridesAreLogged
  BY DEF RowInv, ZeroInv, OutcomeAgreesWithGateway, CaptureIsBooked, OverridesAreLogged
<1> QED
  BY <1>1, <1>2, <1>3, <1>4, <1>5, <1>6, TypeParts DEF Inv

(* The steps of a walker, of a run and of the merchant. *)
WalkerStep(w) ==
  \/ w \in Worker /\ \E what \in occasions[gateway][atGateway] : receive(w, what)
  \/ ignoreDuplicate(w) \/ claim(w) \/ releaseMarker(w)
  \/ openCheckout(w, 1) \/ openCheckout(w, 3) \/ check(w)
  \/ advance(w) \/ refused(w) \/ book(w) \/ statementFails(w) \/ crash(w)

RunStep(j) ==
  findStaleTransaction(j) \/ compare(j) \/ override(j) \/ createMany(j) \/ runIsLost(j)

MerchantStep ==
  \/ initiateCapture \/ captureAnswered \/ settleCapture \/ writeCaptured
  \/ \E to \in OthersTo : othersMove(to)

LEMMA Steps ==
  Next => \/ \E outcome \in Outcome, paid \in {"expected", "other"} : payerActs(outcome, paid)
          \/ \E w \in Walker : WalkerStep(w)
          \/ \E j \in Job : RunStep(j)
          \/ \E entry \in log : resolveAnomaly(entry)
          \/ MerchantStep
BY DEF Next, WalkerStep, RunStep, MerchantStep, Walker

(* What a walker never touches, and what no walker but the moving one sees  *)
(* changed.                                                                 *)
LEMMA WalkerFrame ==
  ASSUME NEW w \in Walker, WalkerStep(w)
  PROVE  /\ UNCHANGED <<gateway, atGateway, amount, run, log, overrides, captureCall, touched>>
         /\ cut => cut'
         /\ ~ (advance(w) \/ book(w)) => UNCHANGED <<state, reference, captureBooked>>
<1> DEFINE Keeps ==
             /\ UNCHANGED <<gateway, atGateway, amount, run, log, overrides, captureCall, touched>>
             /\ cut => cut'
           KeepsRow == UNCHANGED <<state, reference, captureBooked>>
<1> USE DEF row, external, recon, merchant, trouble
<1>1. ASSUME NEW what, receive(w, what) PROVE Keeps /\ KeepsRow
  BY <1>1 DEF receive
<1>2. ASSUME ignoreDuplicate(w) \/ claim(w) \/ releaseMarker(w) \/ refused(w) PROVE Keeps /\ KeepsRow
  BY <1>2 DEF ignoreDuplicate, claim, releaseMarker, refused
<1>3. ASSUME openCheckout(w, 1) \/ openCheckout(w, 3) \/ check(w) PROVE Keeps /\ KeepsRow
  BY <1>3 DEF openCheckout, check
<1>4. ASSUME advance(w) \/ book(w) PROVE Keeps
  BY <1>4 DEF advance, book
<1>5. ASSUME statementFails(w) PROVE Keeps /\ KeepsRow
  <2>1. UNCHANGED <<row, external, recon, merchant>> /\ cut' = (cut \/ pc[w] = "booking")
    BY <1>5 DEF statementFails
  <2>2. cut => cut'
    BY <2>1, Zenon
  <2> QED
    BY <2>1, <2>2
<1>6. ASSUME crash(w) PROVE Keeps /\ KeepsRow
  BY <1>6 DEF crash
<1> HIDE DEF Keeps, KeepsRow
<1>7. Keeps /\ (~ (advance(w) \/ book(w)) => KeepsRow)
  BY <1>1, <1>2, <1>3, <1>4, <1>5, <1>6 DEF WalkerStep
<1> QED
  BY <1>7 DEF Keeps, KeepsRow

(* The idle walker, as every action that ends a walk leaves it.             *)
LEMMA Leaves ==
  ASSUME Inv, NEW w \in Walker, leave(w)
  PROVE  /\ WalkerType'
         /\ pc'[w] = "idle" /\ todo'[w] = <<>>
         /\ \A x \in Walker \ {w} : /\ pc'[x] = pc[x] /\ copy'[x] = copy[x] /\ event'[x] = event[x]
                                     /\ todo'[x] = todo[x]
<1> USE DEF leave, go
<1>1. WalkerType
  BY TypeParts DEF Inv
<1>2. <<>> \in Seq(TransactionState)
  OBVIOUS
<1>3. pc' \in [Walker -> {"idle", "read", "asking", "walking", "booking", "catching"}]
      /\ copy' \in [Walker -> TransactionState \cup {NoRow}]
      /\ event' \in [Walker -> {"none"} \cup Notice]
  BY <1>1 DEF WalkerType
<1>4. tries' \in [Walker -> 0 .. 3] /\ todo' \in [Walker -> Seq(TransactionState)]
  BY <1>1, <1>2 DEF WalkerType
<1> QED
  BY <1>1, <1>3, <1>4 DEF WalkerType

LEMMA GatewayFacts == Inv => /\ gateway \in Hosted /\ atGateway \in Outcome
                             /\ amount \in {"expected", "other"}
BY RecoveryAssumption, TypeParts DEF Inv, RowType

(* A step of a walker keeps what is known of the walkers.                   *)
LEMMA WalkerKeepsWalkers ==
  ASSUME Inv, NEW w \in Walker, WalkerStep(w)
  PROVE  /\ WalkerType' /\ WalkerInv'
         /\ captureCall \in {"failed", "writingZero"} => \A x \in Walker : NoNewCapture(x)'
<1>0. /\ WalkerType /\ WalkerInv /\ RowInv /\ ZeroInv /\ RowType
      /\ gateway \in Hosted /\ atGateway \in Outcome /\ amount \in {"expected", "other"}
  BY TypeParts, GatewayFacts DEF Inv
<1>f. UNCHANGED <<gateway, atGateway, amount, captureCall>>
  BY WalkerFrame
<1> DEFINE Others == \A x \in Walker \ {w} : /\ pc'[x] = pc[x] /\ copy'[x] = copy[x]
                                            /\ event'[x] = event[x] /\ todo'[x] = todo[x]
           Zero == captureCall \in {"failed", "writingZero"}
<1>g. ASSUME Others, WalkerType', WalkerOK(w)', Zero => NoNewCapture(w)'
      PROVE  /\ WalkerType' /\ WalkerInv'
             /\ Zero => \A x \in Walker : NoNewCapture(x)'
  <2>1. ASSUME NEW x \in Walker, x # w PROVE WalkerOK(x)' /\ (Zero => NoNewCapture(x)')
    BY <1>0, <1>f, <1>g, <2>1 DEF WalkerInv, WalkerOK, ZeroInv, NoNewCapture, PaidInFull
  <2> QED
    BY <1>g, <2>1 DEF WalkerInv
<1>i. ASSUME leave(w) PROVE Others /\ WalkerType' /\ WalkerOK(w)' /\ NoNewCapture(w)'
  <2>1. Others /\ WalkerType' /\ pc'[w] = "idle" /\ todo'[w] = <<>>
    BY <1>i, Leaves
  <2>2. WalkerOK(w)' /\ NoNewCapture(w)'
    BY <2>1 DEF WalkerOK, NoNewCapture, Path, CapturePath
  <2> QED
    BY <2>1, <2>2
<1>1. ASSUME NEW what \in occasions[gateway][atGateway], receive(w, what)
      PROVE  Others /\ WalkerType' /\ WalkerOK(w)' /\ (Zero => NoNewCapture(w)')
  <2>1. what \in Notice
    BY <1>0 DEF occasions, Notice, Hosted, Outcome
  <2>2. WalkerType' /\ Others
    BY <1>0, <1>1, <2>1 DEF receive, go, WalkerType, RowType
  <2>3. /\ pc'[w] = "read" /\ event'[w] = what /\ copy'[w] = state /\ todo'[w] = todo[w]
        /\ pc[w] = "idle"
    BY <1>0, <1>1 DEF receive, go, WalkerType
  <2>4. WalkerOK(w)'
    BY <1>0, <1>1, <1>f, <2>3 DEF WalkerInv, WalkerOK, PaidInFull
  <2>5. Zero => NoNewCapture(w)'
    BY <1>0, <1>f, <2>3 DEF NoNewCapture, ZeroInv, RowInv
  <2> QED
    BY <2>2, <2>4, <2>5
<1>2. ASSUME ignoreDuplicate(w) \/ releaseMarker(w) \/ book(w) \/ crash(w)
      PROVE  Others /\ WalkerType' /\ WalkerOK(w)' /\ (Zero => NoNewCapture(w)')
  BY <1>2, <1>i DEF ignoreDuplicate, releaseMarker, book, crash
<1>3. ASSUME claim(w)
      PROVE  Others /\ WalkerType' /\ WalkerOK(w)' /\ (Zero => NoNewCapture(w)')
  <2>1. pc[w] = "read" /\ event[w] \in occasions[gateway][atGateway]
    BY <1>0, <1>3 DEF claim, WalkerInv, WalkerOK
  <2>2. CASE leave(w)
    BY <1>i, <2>2
  <2>3. CASE go(w, "catching") /\ UNCHANGED <<copy, event, tries, todo>>
    <3>1. pc'[w] = "catching" /\ WalkerType' /\ Others
      BY <1>0, <2>3 DEF go, WalkerType
    <3> QED
      BY <1>0, <1>f, <2>1, <2>3, <3>1 DEF WalkerInv, WalkerOK, NoNewCapture, ZeroInv, PaidInFull
  <2>4. CASE /\ validateWebhookPayload(gateway, notification(event[w])) /\ way(w) # <<>>
             /\ todo' = [todo EXCEPT ![w] = way(w)] /\ go(w, "walking")
             /\ UNCHANGED <<copy, event, tries>>
    <3>1. way(w) = pathTo(copy[w], Meaning(event[w]))
      BY DEF way, Meaning
    <3>2. /\ Meaning(event[w]) \in {"none", "CAPTURED", "AUTH_FAILED", "AUTH_EXPIRED"}
          /\ Meaning(event[w]) = "CAPTURED" => PaidInFull /\ event[w] # "PENDING"
          /\ Meaning(event[w]) = "AUTH_FAILED" => atGateway = "declined"
          /\ Meaning(event[w]) = "AUTH_EXPIRED" => atGateway = "closed"
      BY <1>0, <2>1, <2>4, NotificationIsTrue DEF PaidInFull
    <3>3. /\ way(w) \in Path
          /\ way(w) \in CapturePath => PaidInFull /\ event[w] # "PENDING"
          /\ way(w) = <<"AUTH_FAILED">> => atGateway = "declined"
          /\ way(w) = <<"AUTH_EXPIRED">> => atGateway = "closed"
          /\ way(w) = <<"CAPTURE_INITIATED", "CAPTURED">> => copy[w] = "AUTHORISED"
      BY <3>1, <3>2, PathTo
    <3>4. pc'[w] = "walking" /\ todo'[w] = way(w) /\ WalkerType' /\ Others
      BY <1>0, <2>4, <3>3, PathIsOfStates DEF go, WalkerType
    <3>5. WalkerOK(w)'
      BY <1>f, <2>4, <3>3, <3>4 DEF WalkerOK, PaidInFull
    <3>6. Zero => NoNewCapture(w)'
      <4>1. <<"CAPTURE_INITIATED", "CAPTURED">> \in CapturePath
        BY DEF CapturePath
      <4> QED
        BY <1>0, <2>1, <3>3, <3>4, <4>1 DEF NoNewCapture, ZeroInv, PaidInFull
    <3> QED
      BY <3>4, <3>5, <3>6
  <2> QED
    BY <1>3, <2>2, <2>3, <2>4 DEF claim
<1>4. ASSUME NEW n \in {1, 3}, openCheckout(w, n)
      PROVE  Others /\ WalkerType' /\ WalkerOK(w)' /\ (Zero => NoNewCapture(w)')
  <2>1. /\ WalkerType' /\ Others
        /\ pc[w] = "idle" /\ pc'[w] = "asking" /\ todo'[w] = todo[w]
        /\ copy'[w] = "AUTH_INITIATED" /\ gateway = "INTERSWITCH"
    BY <1>0, <1>4 DEF openCheckout, go, WalkerType, RowType
  <2> QED
    BY <1>0, <1>f, <2>1 DEF WalkerInv, WalkerOK, NoNewCapture, ZeroInv, PaidInFull
<1>5. ASSUME check(w)
      PROVE  Others /\ WalkerType' /\ WalkerOK(w)' /\ (Zero => NoNewCapture(w)')
  <2>1. /\ pc[w] = "asking" /\ copy[w] = "AUTH_INITIATED" /\ gateway = "INTERSWITCH" /\ todo[w] = <<>>
        /\ tries[w] \in 0 .. 3
    BY <1>0, <1>5 DEF check, WalkerInv, WalkerOK, WalkerType
  <2>2. interswitchStatus = adapters[gateway].fetchStatus
    BY <2>1, AdapterOf DEF interswitch
  <2>3. PICK said \in asking(interswitchStatus, "reference") :
          \/ tries[w] > 1 /\ tries' = [tries EXCEPT ![w] = @ - 1] /\ UNCHANGED <<pc, copy, event, todo>>
          \/ /\ said = "captured" /\ amount = "expected"
             /\ todo' = [todo EXCEPT ![w] = pathTo(copy[w], "CAPTURED")]
             /\ go(w, "walking") /\ UNCHANGED <<copy, event, tries>>
          \/ leave(w)
    BY <1>5 DEF check
  <2>4. said = "captured" => atGateway = "paid"
    BY <1>0, <2>2, StatusIsTrue
  <2>5. CASE tries[w] > 1 /\ tries' = [tries EXCEPT ![w] = @ - 1] /\ UNCHANGED <<pc, copy, event, todo>>
    <3>1. WalkerType' /\ Others
      BY <1>0, <2>1, <2>5 DEF WalkerType
    <3> QED
      BY <1>0, <1>f, <2>1, <2>5, <3>1 DEF WalkerInv, WalkerOK, NoNewCapture, ZeroInv, PaidInFull
  <2>6. CASE /\ said = "captured" /\ amount = "expected"
             /\ todo' = [todo EXCEPT ![w] = pathTo(copy[w], "CAPTURED")]
             /\ go(w, "walking") /\ UNCHANGED <<copy, event, tries>>
    <3> DEFINE p == <<"AUTHORISED", "CAPTURE_INITIATED", "CAPTURED">>
    <3>1. pathTo(copy[w], "CAPTURED") = p
      BY <2>1, Edges DEF pathTo
    <3>2. p \in CapturePath /\ p \in Path /\ p # <<"CAPTURE_INITIATED", "CAPTURED">> /\ p # <<>>
          /\ p # <<"AUTH_FAILED">> /\ p # <<"AUTH_EXPIRED">>
      BY DEF CapturePath, Path
    <3>3. /\ WalkerType' /\ Others /\ pc'[w] = "walking" /\ todo'[w] = p
      BY <1>0, <2>6, <3>1, <3>2, PathIsOfStates DEF go, WalkerType
    <3> HIDE DEF p
    <3> QED
      BY <1>0, <1>f, <2>4, <2>6, <3>2, <3>3 DEF WalkerOK, NoNewCapture, PaidInFull
  <2>7. CASE leave(w)
    BY <1>i, <2>7
  <2> QED
    BY <2>3, <2>5, <2>6, <2>7
<1>6. ASSUME advance(w)
      PROVE  Others /\ WalkerType' /\ WalkerOK(w)' /\ (Zero => NoNewCapture(w)')
  <2>1. pc[w] = "walking" /\ todo[w] # <<>> /\ WalkerOK(w) /\ accepts(Head(todo[w]))
    BY <1>0, <1>6 DEF advance, WalkerInv, WalkerOK
  <2>2. CASE Tail(todo[w]) # <<>>
    <3>1. todo' = [todo EXCEPT ![w] = Tail(todo[w])] /\ UNCHANGED <<pc, copy, event, tries>>
      BY <1>6, <2>2 DEF advance
    <3>2. /\ Tail(todo[w]) \in Path /\ Tail(todo[w]) \in CapturePath /\ todo[w] \in CapturePath
          /\ Tail(todo[w]) = <<"CAPTURE_INITIATED", "CAPTURED">> => Head(todo[w]) = "AUTHORISED"
      BY <2>1, <2>2, PathStep DEF WalkerOK
    <3>3. WalkerType' /\ Others /\ todo'[w] = Tail(todo[w])
      BY <1>0, <3>1, <3>2, PathIsOfStates DEF WalkerType
    <3>4. <<"AUTH_FAILED">> \notin CapturePath /\ <<"AUTH_EXPIRED">> \notin CapturePath
      BY DEF CapturePath
    <3>5. WalkerOK(w)'
      BY <1>f, <2>1, <2>2, <3>1, <3>2, <3>3, <3>4 DEF WalkerOK, PaidInFull
    <3>6. Zero => Head(todo[w]) # "AUTHORISED"
      BY <1>0, <2>1, Edges DEF RowInv, accepts
    <3>7. Zero => NoNewCapture(w)'
      BY <2>1, <3>1, <3>2, <3>3, <3>6 DEF NoNewCapture
    <3> QED
      BY <3>3, <3>5, <3>7
  <2>3. CASE Tail(todo[w]) = <<>> /\ Head(todo[w]) = "CAPTURED"
    <3>1. todo' = [todo EXCEPT ![w] = <<>>] /\ go(w, "booking") /\ UNCHANGED <<copy, event, tries>>
      BY <1>6, <2>3 DEF advance
    <3>2. <<>> \in Seq(TransactionState)
      OBVIOUS
    <3>3. WalkerType' /\ Others /\ todo'[w] = <<>> /\ pc'[w] = "booking"
      BY <1>0, <3>1, <3>2 DEF WalkerType, go
    <3> QED
      BY <3>3 DEF WalkerOK, NoNewCapture, Path, CapturePath
  <2>4. CASE Tail(todo[w]) = <<>> /\ Head(todo[w]) # "CAPTURED"
    BY <1>6, <1>i, <2>4 DEF advance
  <2> QED
    BY <2>2, <2>3, <2>4
<1>7. ASSUME refused(w) \/ statementFails(w)
      PROVE  Others /\ WalkerType' /\ WalkerOK(w)' /\ (Zero => NoNewCapture(w)')
  <2>1. CASE leave(w)
    BY <1>i, <2>1
  <2>2. CASE go(w, "catching") /\ todo' = [todo EXCEPT ![w] = <<>>] /\ UNCHANGED <<copy, event, tries>>
    <3>1. <<>> \in Seq(TransactionState)
      OBVIOUS
    <3>2. WalkerType' /\ Others /\ todo'[w] = <<>> /\ pc'[w] = "catching"
      BY <1>0, <2>2, <3>1 DEF WalkerType, go
    <3> QED
      BY <3>2 DEF WalkerOK, NoNewCapture, Path, CapturePath
  <2> QED
    BY <1>7, <2>1, <2>2 DEF refused, statementFails
<1> HIDE DEF Others, Zero
<1>8. Others /\ WalkerType' /\ WalkerOK(w)' /\ (Zero => NoNewCapture(w)')
  BY <1>1, <1>2, <1>3, <1>4, <1>5, <1>6, <1>7 DEF WalkerStep
<1> QED
  BY <1>8, <1>g DEF Zero

(* Where an accepted transition of a walker leads to.                       *)
LEMMA AdvanceIsTrue ==
  ASSUME Inv, NEW w \in Walker, advance(w)
  PROVE  LET to == Head(todo[w]) IN
         /\ to \in {"AUTHORISED", "CAPTURE_INITIATED", "CAPTURED", "AUTH_FAILED", "AUTH_EXPIRED"}
         /\ state' = to /\ (state = to \/ assertValidTransition(state, to))
         /\ to \in {"AUTHORISED", "CAPTURE_INITIATED", "CAPTURED"} => PaidInFull
         /\ to = "AUTH_FAILED" => atGateway = "declined"
         /\ to = "AUTH_EXPIRED" => atGateway = "closed"
         /\ to = "CAPTURED" => pc'[w] = "booking"
         /\ captureCall \in {"failed", "writingZero"} => to # "CAPTURE_INITIATED"
         /\ captureBooked' = captureBooked
<1>1. /\ pc[w] = "walking" /\ accepts(Head(todo[w])) /\ state' = Head(todo[w])
      /\ captureBooked' = captureBooked
  BY DEF advance, transition
<1>2. /\ WalkerOK(w) /\ todo[w] # <<>> /\ todo[w] \in Path
      /\ captureCall \in {"failed", "writingZero"} => NoNewCapture(w)
  BY <1>1 DEF Inv, WalkerInv, WalkerOK, ZeroInv
<1>3. Head(todo[w]) = "CAPTURED" => pc'[w] = "booking"
  BY <1>2, PathStep, TypeParts DEF advance, go, Inv, WalkerType
<1> QED
  BY <1>1, <1>2, <1>3, PathStep DEF accepts, WalkerOK, NoNewCapture

LEMMA WalkerKeepsRow ==
  ASSUME Inv, NEW w \in Walker, WalkerStep(w)
  PROVE  RowType' /\ RowInv' /\ OutcomeAgreesWithGateway' /\ (captureCall = "writingZero" => state' \in AfterZero)
<1>0. RowType /\ RowInv /\ OutcomeAgreesWithGateway /\ ZeroInv
  BY TypeParts DEF Inv
<1>f. UNCHANGED <<gateway, atGateway, amount, captureCall, touched>>
  BY WalkerFrame
<1>c. cut' \in BOOLEAN
  <2>1. CASE UNCHANGED cut
    BY <1>0, <2>1 DEF RowType
  <2>2. CASE cut' = TRUE \/ cut' = (cut \/ pc[w] = "booking")
    BY <2>2, Zenon
  <2> QED
    BY <2>1, <2>2 DEF WalkerStep, receive, ignoreDuplicate, claim, releaseMarker, openCheckout, check,
                      advance, refused, book, statementFails, crash, trouble
<1>1. CASE advance(w)
  <2>1. state' \in TransactionState /\ reference' \in Reference /\ captureBooked' = captureBooked
    BY <1>0, <1>1, AdvanceIsTrue DEF advance, transition, Reference, TransactionState, RowType
  <2>2. RowType'
    BY <1>0, <1>f, <1>c, <2>1 DEF RowType
  <2>3. RowInv'
    BY <1>0, <1>1, <1>f, AdvanceIsTrue, Edges DEF RowInv, PaidInFull
  <2>4. OutcomeAgreesWithGateway'
    BY <1>0, <1>1, <1>f, AdvanceIsTrue DEF OutcomeAgreesWithGateway, PaidInFull
  <2>5. captureCall = "writingZero" => state' \in AfterZero
    BY <1>0, <1>1, AdvanceIsTrue, Edges DEF ZeroInv, AfterZero
  <2> QED
    BY <2>2, <2>3, <2>4, <2>5
<1>2. CASE book(w)
  <2>1. UNCHANGED <<state, reference>> /\ captureBooked' = TRUE
    BY <1>2 DEF book
  <2> QED
    BY <1>0, <1>f, <1>c, <2>1 DEF RowType, RowInv, OutcomeAgreesWithGateway, ZeroInv, PaidInFull
<1>3. CASE ~ (advance(w) \/ book(w))
  <2>1. UNCHANGED <<state, reference, captureBooked>>
    BY <1>3, WalkerFrame
  <2> QED
    BY <1>0, <1>f, <1>c, <2>1 DEF RowType, RowInv, OutcomeAgreesWithGateway, ZeroInv, PaidInFull
<1> QED
  BY <1>1, <1>2, <1>3

LEMMA WalkerKeepsBooks ==
  ASSUME Inv, NEW w \in Walker, WalkerStep(w)
  PROVE  CaptureIsBooked'
<1>0. CaptureIsBooked /\ WalkerType
  BY TypeParts DEF Inv
<1>f. UNCHANGED <<overrides, captureCall>> /\ (cut => cut')
  BY WalkerFrame
<1>1. CASE advance(w)
  BY <1>1, AdvanceIsTrue DEF CaptureIsBooked
<1>2. CASE book(w)
  BY <1>2 DEF book, CaptureIsBooked
<1>3. CASE pc[w] = "booking" /\ (statementFails(w) \/ crash(w))
  <2>1. cut' = (cut \/ pc[w] = "booking") \/ cut' = TRUE
    BY <1>3 DEF statementFails, crash
  <2>2. cut'
    BY <1>3, <2>1, Zenon
  <2> QED
    BY <2>2 DEF CaptureIsBooked
<1>4. CASE ~ (advance(w) \/ book(w)) /\ ~ (pc[w] = "booking" /\ (statementFails(w) \/ crash(w)))
  <2>1. UNCHANGED <<state, captureBooked>>
    BY <1>4, WalkerFrame
  <2>2. \A x \in Walker \ {w} : pc'[x] = pc[x]
    BY <1>0 DEF WalkerStep, receive, ignoreDuplicate, claim, releaseMarker, openCheckout, check,
                advance, refused, book, statementFails, crash, go, leave, WalkerType
  <2>3. pc[w] # "booking"
    BY <1>4 DEF WalkerStep, receive, ignoreDuplicate, claim, releaseMarker, openCheckout, check,
                refused
  <2>4. \A x \in Walker : pc[x] = "booking" => pc'[x] = "booking"
    BY <2>2, <2>3
  <2> QED
    BY <1>0, <1>f, <2>1, <2>4 DEF CaptureIsBooked
<1> QED
  BY <1>1, <1>2, <1>3, <1>4

LEMMA WalkerKeepsRuns ==
  ASSUME Inv, NEW w \in Walker, WalkerStep(w)
  PROVE  RunType' /\ RunInv' /\ OverridesAreLogged'
<1>1. UNCHANGED <<atGateway, run, log, overrides>> /\ (cut => cut')
  BY WalkerFrame
<1>2. RunType /\ RunInv /\ OverridesAreLogged
  BY TypeParts DEF Inv
<1>3. RunType' /\ RunInv'
  BY <1>1, <1>2 DEF RunType, RunInv
<1>4. OverridesAreLogged'
  BY <1>1, <1>2 DEF OverridesAreLogged, mapped
<1> QED
  BY <1>3, <1>4

LEMMA WalkerKeepsInv ==
  ASSUME Inv, NEW w \in Walker, WalkerStep(w)
  PROVE  Inv'
<1>1. captureCall' = captureCall
  BY WalkerFrame
<1>2. ZeroInv'
  BY <1>1, WalkerKeepsWalkers, WalkerKeepsRow DEF ZeroInv
<1>3. RowType' /\ WalkerType' /\ RunType'
  BY WalkerKeepsWalkers, WalkerKeepsRow, WalkerKeepsRuns
<1>4. TypeOK'
  BY <1>3 DEF TypeOK, RowType, WalkerType, RunType
<1>5. WalkerInv' /\ RowInv' /\ RunInv' /\ OutcomeAgreesWithGateway' /\ CaptureIsBooked' /\ OverridesAreLogged'
  BY WalkerKeepsWalkers, WalkerKeepsRow, WalkerKeepsBooks, WalkerKeepsRuns
<1> QED
  BY <1>2, <1>4, <1>5 DEF Inv

-------------------------------------------------------------------------------
(* The payer's decision makes true more notifications than before.          *)
LEMMA PayerKeepsInv ==
  ASSUME Inv, NEW outcome \in Outcome, NEW paid \in {"expected", "other"}, payerActs(outcome, paid)
  PROVE  Inv'
<1>1. /\ RowType /\ WalkerType /\ RunType /\ gateway \in Hosted
      /\ WalkerInv /\ RowInv /\ ZeroInv /\ RunInv
      /\ OutcomeAgreesWithGateway /\ CaptureIsBooked /\ OverridesAreLogged
  BY TypeParts, GatewayFacts DEF Inv
<1>2. /\ atGateway = "unpaid" /\ atGateway' = outcome /\ amount' = paid
      /\ UNCHANGED <<gateway, state, reference, captureBooked, pc, copy, event, tries, todo,
                     run, log, overrides, captureCall, touched, cut>>
  BY DEF payerActs, row, walkers, recon, merchant, trouble
<1>3. RowType' /\ WalkerType' /\ RunType'
  BY <1>1, <1>2 DEF RowType, WalkerType, RunType
<1>4. TypeOK'
  BY <1>3 DEF TypeOK, RowType, WalkerType, RunType
<1>5. \A w \in Walker : pc[w] = "read" => event[w] = "PENDING" /\ event[w] \in occasions[gateway][outcome]
  BY <1>1, <1>2 DEF WalkerInv, WalkerOK, occasions, Hosted, Outcome, payerActs
<1>6. WalkerInv'
  <2> SUFFICES ASSUME NEW w \in Walker PROVE WalkerOK(w)'
    BY DEF WalkerInv
  <2> QED
    BY <1>1, <1>2, <1>5 DEF WalkerInv, WalkerOK, PaidInFull
<1>7. RowInv' /\ RunInv'
  BY <1>1, <1>2 DEF RowInv, RunInv, PaidInFull
<1>8. ZeroInv'
  BY <1>1, <1>2, <1>5 DEF ZeroInv, NoNewCapture
<1>9. OutcomeAgreesWithGateway' /\ CaptureIsBooked' /\ OverridesAreLogged'
  BY <1>1, <1>2 DEF OutcomeAgreesWithGateway, CaptureIsBooked, OverridesAreLogged, mapped
<1> QED
  BY <1>4, <1>6, <1>7, <1>8, <1>9 DEF Inv

(* A run that is asked for its mapped state has been answered.              *)
LEMMA MappedStates ==
  ASSUME Inv, NEW j \in Job, run[j].stage \in {"resolvable", "resolved", "flagged"}
  PROVE  /\ mapped(j) \in {"AUTHORISED", "CAPTURED", "FAILED", "AUTH_EXPIRED"}
         /\ mapped(j) = "CAPTURED" => atGateway = "paid"
         /\ mapped(j) = "AUTH_EXPIRED" => atGateway = "closed"
BY DEF Inv, RunInv, mapped, GATEWAY_STATUS_MAP

(* What a run leaves alone.                                                 *)
LEMMA RunFrame ==
  ASSUME NEW j \in Job, RunStep(j)
  PROVE  /\ UNCHANGED <<gateway, reference, captureBooked, atGateway, amount, pc, copy, event, tries,
                        todo, captureCall, touched>>
         /\ cut' = cut \/ cut' = TRUE
         /\ ~ override(j) => UNCHANGED <<state, overrides>>
BY DEF RunStep, findStaleTransaction, compare, override, createMany, runIsLost, row, external, walkers,
       merchant, trouble

(* A run keeps its own facts true: fetchStatus does not lie.                *)
LEMMA RunKeepsRuns ==
  ASSUME Inv, NEW j \in Job, RunStep(j)
  PROVE  RunType' /\ RunInv'
<1>0. RunType /\ RowType /\ RunInv /\ gateway \in Hosted /\ atGateway \in Outcome
  BY TypeParts, GatewayFacts DEF Inv
<1>1. atGateway' = atGateway
  BY RunFrame
<1> DEFINE Stage == {"idle", "asking", "resolvable", "resolved", "flagged", "over"}
           Said == StatusOf.fetchStatus \cup {"none"}
           Run == [stage : Stage, from : RECONCILABLE_STATES \cup {NoRow}, asks : Reference, said : Said]
           Entry == [discrepancyType : {"INTERNAL_PENDING_GATEWAY_SUCCEEDED", "STATUS_MISMATCH"},
                     internalState : RECONCILABLE_STATES \cup {NoRow}, gatewayState : Said,
                     requiresReview : BOOLEAN, resolved : BOOLEAN]
           True(r) == /\ r.said \in {"none", "authorised", "captured", "failed", "expired"}
                      /\ r.stage \in {"resolvable", "resolved", "flagged"} => r.said # "none"
                      /\ r.said = "captured" => atGateway = "paid"
                      /\ r.said = "expired" => atGateway = "closed"
<1>2. run \in [Job -> Run] /\ log \subseteq Entry /\ overrides \subseteq TransactionState /\ True(run[j])
  BY <1>0 DEF RunType, RunInv
<1>3. SUFFICES ASSUME log' \subseteq Entry, overrides' \subseteq TransactionState,
                      NEW r \in Run, True(r), run' = [run EXCEPT ![j] = r]
               PROVE  RunType' /\ RunInv'
  <2>1. Over \in Run /\ True(Over)
    BY DEF Over, Idle, Reference
  <2>2. CASE findStaleTransaction(j)
    <3> DEFINE r == [stage |-> "asking", from |-> state, asks |-> reference, said |-> "none"]
    <3>1. r \in Run /\ True(r) /\ run' = [run EXCEPT ![j] = r] /\ UNCHANGED <<log, overrides>>
      BY <1>0, <2>2 DEF findStaleTransaction, RowType
    <3> QED
      BY <1>2, <1>3, <3>1
  <2>3. CASE compare(j)
    <3>1. PICK said \in asking(adapters[gateway].fetchStatus, run[j].asks) :
            \/ run' = [run EXCEPT ![j] = Over]
            \/ /\ said \notin Exceptions
               /\ run' = [run EXCEPT ![j] = [run[j] EXCEPT !.said = said, !.stage = "resolvable"]]
            \/ /\ said \notin Exceptions
               /\ run' = [run EXCEPT ![j] = [run[j] EXCEPT !.said = said, !.stage = "flagged"]]
      BY <1>2, <2>3 DEF compare
    <3>2. UNCHANGED <<log, overrides>>
      BY <2>3 DEF compare
    <3>3. /\ said \notin Exceptions => said \in {"authorised", "captured", "failed", "expired"}
          /\ said = "captured" => atGateway = "paid"
          /\ said = "expired" => atGateway = "closed"
      BY <1>0, StatusIsTrue
    <3>4. ASSUME said \notin Exceptions, NEW s \in {"resolvable", "flagged"}
          PROVE  LET r == [run[j] EXCEPT !.said = said, !.stage = s] IN r \in Run /\ True(r)
      <4> DEFINE next == [run[j] EXCEPT !.said = said, !.stage = s]
      <4>1. said \in Said
        BY <3>3, <3>4 DEF StatusOf
      <4>2. next \in Run
        BY <1>2, <4>1
      <4>3. next.said = said
        BY <1>2
      <4>4. True(next)
        BY <3>3, <3>4, <4>3
      <4> QED
        BY <4>2, <4>4
    <3> HIDE DEF Run, True, Entry
    <3> QED
      BY <1>2, <1>3, <2>1, <3>1, <3>2, <3>4
  <2>4. CASE override(j)
    <3>1. UNCHANGED log /\ overrides' \subseteq TransactionState
      <4>1. mapped(j) \in TransactionState
        BY <2>4, MappedStates DEF override, TransactionState
      <4> QED
        BY <1>2, <2>4, <4>1 DEF override, recon
    <3>2. \/ run' = [run EXCEPT ![j] = [run[j] EXCEPT !.stage = "resolved"]]
          \/ run' = [run EXCEPT ![j] = [run[j] EXCEPT !.stage = "flagged"]]
      BY <1>2, <2>4 DEF override
    <3>3. ASSUME NEW s \in {"resolved", "flagged"}
          PROVE  LET r == [run[j] EXCEPT !.stage = s] IN r \in Run /\ True(r)
      BY <1>2, <2>4 DEF override
    <3> HIDE DEF Run, True, Entry
    <3> QED
      BY <1>2, <1>3, <3>1, <3>2, <3>3
  <2>5. CASE createMany(j)
    <3>1. entryOf(j) \in Entry
      <4>1. run[j].from \notin {"CAPTURED", "PARTIALLY_CAPTURED", "SETTLED"}
        BY <1>2 DEF RECONCILABLE_STATES, NoRow
      <4>2. classifyDiscrepancy(run[j].from, run[j].said)
              \in {"INTERNAL_PENDING_GATEWAY_SUCCEEDED", "STATUS_MISMATCH"}
        BY <4>1 DEF classifyDiscrepancy
      <4> QED
        BY <1>2, <4>2 DEF entryOf
    <3>2. log' \subseteq Entry /\ UNCHANGED overrides /\ run' = [run EXCEPT ![j] = Over]
      BY <1>2, <2>5, <3>1 DEF createMany
    <3> QED
      BY <1>2, <1>3, <2>1, <3>2
  <2>6. CASE runIsLost(j)
    BY <1>2, <1>3, <2>1, <2>6 DEF runIsLost
  <2> QED
    BY <2>2, <2>3, <2>4, <2>5, <2>6 DEF RunStep
<1>4. RunType'
  BY <1>2, <1>3 DEF RunType
<1>5. RunInv'
  <2> SUFFICES ASSUME NEW k \in Job PROVE True(run[k])'
    BY DEF RunInv
  <2>1. True(run[k])
    BY <1>0 DEF RunInv
  <2> QED
    BY <1>1, <1>2, <1>3, <2>1
<1> QED
  BY <1>4, <1>5

(* Where a run moves the row, its answer allows it.                         *)
LEMMA OverrideIsTrue ==
  ASSUME Inv, NEW j \in Job, override(j), state' # state
  PROVE  /\ state' = mapped(j) /\ assertValidTransition(state, state')
         /\ state' \in {"AUTHORISED", "CAPTURED", "FAILED", "AUTH_EXPIRED"}
         /\ state' = "CAPTURED" => atGateway = "paid"
         /\ state' = "AUTH_EXPIRED" => atGateway = "closed"
         /\ overrides' = overrides \cup {mapped(j)}
BY MappedStates DEF override, accepts

LEMMA RunKeepsInv ==
  ASSUME Inv, NEW j \in Job, RunStep(j)
  PROVE  Inv'
<1>0. /\ RowType /\ WalkerType /\ RunType
      /\ WalkerInv /\ RowInv /\ ZeroInv /\ RunInv
      /\ OutcomeAgreesWithGateway /\ CaptureIsBooked /\ OverridesAreLogged
  BY TypeParts DEF Inv
<1>f. /\ UNCHANGED <<gateway, reference, captureBooked, atGateway, amount, pc, copy, event, tries,
                     todo, captureCall, touched>>
      /\ cut' = cut \/ cut' = TRUE
      /\ ~ override(j) => UNCHANGED <<state, overrides>>
  BY RunFrame
<1>m. state' # state =>
        /\ override(j) /\ state' = mapped(j) /\ assertValidTransition(state, state')
        /\ state' \in {"AUTHORISED", "CAPTURED", "FAILED", "AUTH_EXPIRED"}
        /\ state' = "CAPTURED" => atGateway = "paid"
        /\ state' = "AUTH_EXPIRED" => atGateway = "closed"
        /\ overrides' = overrides \cup {mapped(j)}
  BY <1>f, OverrideIsTrue
<1>1. RowType'
  <2>1. state' \in TransactionState
    BY <1>0, <1>m DEF RowType, TransactionState
  <2>2. cut' \in BOOLEAN
    BY <1>0, <1>f DEF RowType
  <2> QED
    BY <1>0, <1>f, <2>1, <2>2 DEF RowType
<1>2. WalkerType' /\ WalkerInv'
  BY <1>0, <1>f DEF WalkerType, WalkerInv, WalkerOK, PaidInFull
<1>3. RunType' /\ RunInv'
  BY RunKeepsRuns
<1>4. TypeOK'
  BY <1>1, <1>2, <1>3 DEF TypeOK, RowType, WalkerType, RunType
<1>5. RowInv' /\ ZeroInv'
  <2>1. \A w \in Walker : NoNewCapture(w) => NoNewCapture(w)'
    BY <1>f DEF NoNewCapture
  <2>2. state' # state => state \notin AfterZero /\ (state' = "AUTHORISED" => state = "AUTH_INITIATED")
    BY <1>m, Edges DEF AfterZero
  <2> QED
    BY <1>0, <1>f, <1>m, <2>1, <2>2 DEF RowInv, ZeroInv, PaidInFull
<1>6. OutcomeAgreesWithGateway'
  BY <1>0, <1>f, <1>m, Edges DEF OutcomeAgreesWithGateway, RowInv, PaidInFull
<1>7. CaptureIsBooked'
  <2>1. overrides \subseteq overrides' /\ (state' # state => state' \in overrides')
    BY <1>f, <1>m DEF override
  <2>2. cut => cut'
    BY <1>f
  <2> QED
    BY <1>0, <1>f, <2>1, <2>2 DEF CaptureIsBooked
<1>8. OverridesAreLogged'
  <2> SUFFICES ASSUME NEW to \in overrides',
                      ~ \E entry \in log' : /\ ~ entry.requiresReview
                                            /\ GATEWAY_STATUS_MAP[entry.gatewayState] = to
               PROVE  (\E k \in Job : run'[k].stage = "resolved" /\ mapped(k)' = to) \/ cut'
    BY DEF OverridesAreLogged
  <2>1. CASE override(j)
    <3>1. log' = log
      BY <2>1 DEF override
    <3>2. CASE to \in overrides
      <4>1. cut \/ \E k \in Job : run[k].stage = "resolved" /\ mapped(k) = to
        BY <1>0, <3>1, <3>2 DEF OverridesAreLogged
      <4>2. \A k \in Job : run[k].stage = "resolved" => run'[k] = run[k]
        BY <1>0, <2>1 DEF override, RunType
      <4> QED
        BY <1>f, <4>1, <4>2 DEF mapped
    <3>3. CASE to \notin overrides
      <4>1. to = mapped(j) /\ run'[j].stage = "resolved" /\ run'[j].said = run[j].said
        BY <1>0, <2>1, <3>3 DEF override, RunType
      <4> QED
        BY <4>1 DEF mapped
    <3> QED
      BY <3>2, <3>3
  <2>2. CASE createMany(j)
    <3>1. log' = log \cup {entryOf(j)} /\ to \in overrides
      BY <1>f, <2>2 DEF createMany, override
    <3>2. cut \/ \E k \in Job : run[k].stage = "resolved" /\ mapped(k) = to
      BY <1>0, <3>1 DEF OverridesAreLogged
    <3>3. run[j].stage = "resolved" => mapped(j) # to
      <4>1. entryOf(j).gatewayState = run[j].said /\ (run[j].stage = "resolved" => ~ entryOf(j).requiresReview)
        BY DEF entryOf
      <4> QED
        BY <3>1, <4>1 DEF mapped
    <3>4. \A k \in Job : k # j => run'[k] = run[k]
      BY <1>0, <2>2 DEF createMany, RunType
    <3> QED
      BY <1>f, <3>2, <3>3, <3>4 DEF mapped
  <2>3. CASE runIsLost(j)
    BY <2>3 DEF runIsLost
  <2>4. CASE findStaleTransaction(j) \/ compare(j)
    <3>1. UNCHANGED <<log, overrides>>
      BY <2>4 DEF findStaleTransaction, compare
    <3>2. \A k \in Job : run[k].stage = "resolved" => run'[k] = run[k]
      BY <1>0, <2>4 DEF findStaleTransaction, compare, RunType
    <3> QED
      BY <1>0, <1>f, <3>1, <3>2 DEF OverridesAreLogged, mapped
  <2> QED
    BY <2>1, <2>2, <2>3, <2>4 DEF RunStep
<1> QED
  BY <1>2, <1>3, <1>4, <1>5, <1>6, <1>7, <1>8 DEF Inv

(* Resolving an entry by hand keeps what it says.                           *)
LEMMA ResolveKeepsInv ==
  ASSUME Inv, NEW entry \in log, resolveAnomaly(entry)
  PROVE  Inv'
<1>0. /\ RowType /\ WalkerType /\ RunType
      /\ WalkerInv /\ RowInv /\ ZeroInv /\ RunInv
      /\ OutcomeAgreesWithGateway /\ CaptureIsBooked /\ OverridesAreLogged
  BY TypeParts DEF Inv
<1>f. UNCHANGED <<gateway, state, reference, captureBooked, atGateway, amount, pc, copy, event, tries,
                  todo, run, overrides, captureCall, touched, cut>>
  BY DEF resolveAnomaly, row, external, walkers, merchant, trouble
<1> DEFINE solved == [entry EXCEPT !.resolved = TRUE]
<1>1. /\ log' = (log \ {entry}) \cup {solved}
      /\ solved \in [discrepancyType : {"INTERNAL_PENDING_GATEWAY_SUCCEEDED", "STATUS_MISMATCH"},
                     internalState : RECONCILABLE_STATES \cup {NoRow},
                     gatewayState : StatusOf.fetchStatus \cup {"none"},
                     requiresReview : BOOLEAN, resolved : BOOLEAN]
      /\ solved.gatewayState = entry.gatewayState /\ solved.requiresReview = entry.requiresReview
  BY <1>0 DEF resolveAnomaly, RunType
<1> HIDE DEF solved
<1>2. RunType' /\ RunInv'
  BY <1>0, <1>f, <1>1 DEF RunType, RunInv
<1>3. RowType' /\ WalkerType'
  BY <1>0, <1>f DEF RowType, WalkerType
<1>4. TypeOK'
  BY <1>2, <1>3 DEF TypeOK, RowType, WalkerType, RunType
<1>5. WalkerInv' /\ RowInv' /\ ZeroInv' /\ OutcomeAgreesWithGateway' /\ CaptureIsBooked'
  BY <1>0, <1>f DEF WalkerInv, WalkerOK, RowInv, ZeroInv, NoNewCapture, PaidInFull,
                    OutcomeAgreesWithGateway, CaptureIsBooked
<1>6. OverridesAreLogged'
  <2>1. \A e \in log : \E x \in log' : /\ x.gatewayState = e.gatewayState
                                       /\ x.requiresReview = e.requiresReview
    BY <1>1
  <2> QED
    BY <1>0, <1>f, <2>1 DEF OverridesAreLogged, mapped
<1> QED
  BY <1>2, <1>4, <1>5, <1>6 DEF Inv

-------------------------------------------------------------------------------
(* What the merchant's requests never touch.                                *)
LEMMA MerchantFrame ==
  ASSUME MerchantStep
  PROVE  UNCHANGED <<gateway, atGateway, amount, pc, copy, event, tries, todo, run, log, overrides, cut>>
BY DEF MerchantStep, initiateCapture, captureAnswered, settleCapture, writeCaptured, othersMove, row,
       external, walkers, recon, trouble

(* What the merchant's requests do to the row, and to what is known of it.  *)
LEMMA MerchantKeepsRow ==
  ASSUME Inv, MerchantStep
  PROVE  RowType' /\ RowInv' /\ ZeroInv' /\ OutcomeAgreesWithGateway' /\ CaptureIsBooked'
<1>0. /\ RowType /\ gateway \in Hosted /\ atGateway \in Outcome
      /\ WalkerInv /\ RowInv /\ ZeroInv /\ OutcomeAgreesWithGateway /\ CaptureIsBooked
  BY TypeParts, GatewayFacts DEF Inv
<1>f. UNCHANGED <<gateway, atGateway, amount, pc, copy, event, todo, overrides, cut>>
  BY MerchantFrame
<1>n. \A w \in Walker : NoNewCapture(w) => NoNewCapture(w)'
  BY <1>f DEF NoNewCapture
<1> USE DEF PaidInFull
<1>1. CASE initiateCapture
  <2>1. /\ state' = "CAPTURE_INITIATED" /\ captureCall' = "calling" /\ touched' = TRUE
        /\ UNCHANGED <<reference, captureBooked>>
    BY <1>1 DEF initiateCapture
  <2> QED
    BY <1>0, <1>f, <2>1 DEF RowType, TransactionState, RowInv, ZeroInv, OutcomeAgreesWithGateway,
                            CaptureIsBooked
<1>2. CASE captureAnswered
  <2>1. PICK answer \in asking(adapters[gateway].capture, gatewayPaymentId(gateway)) :
          captureCall' = IF answer \in Exceptions THEN "error" ELSE answer
    BY <1>2 DEF captureAnswered
  <2>2. \/ captureCall' = "error"
        \/ captureCall' = "captured" /\ atGateway = "paid"
        \/ captureCall' = "failed" /\ atGateway # "paid"
    BY <1>0, <2>1, CaptureIsTrue
  <2>3. captureCall = "calling" /\ UNCHANGED <<state, reference, captureBooked, touched>>
    BY <1>2 DEF captureAnswered, row
  <2>4. RowType' /\ RowInv' /\ OutcomeAgreesWithGateway' /\ CaptureIsBooked'
    BY <1>0, <1>f, <2>2, <2>3 DEF RowType, RowInv, OutcomeAgreesWithGateway, CaptureIsBooked
  <2>5. atGateway # "paid" => \A w \in Walker : NoNewCapture(w)
    <3>1. <<"CAPTURE_INITIATED", "CAPTURED">> \in CapturePath
      BY DEF CapturePath
    <3> QED
      BY <1>0, <3>1 DEF NoNewCapture, WalkerInv, WalkerOK
  <2>6. ZeroInv'
    BY <1>n, <2>2, <2>5 DEF ZeroInv
  <2> QED
    BY <2>4, <2>6
<1>3. CASE settleCapture
  <2>1. CASE captureCall' = "done" /\ UNCHANGED <<state, reference>>
    <3>1. UNCHANGED <<captureBooked, touched>> /\ captureCall \in {"captured", "failed", "error"}
      BY <1>3 DEF settleCapture
    <3> QED
      BY <1>0, <1>f, <2>1, <3>1 DEF RowType, RowInv, ZeroInv, OutcomeAgreesWithGateway, CaptureIsBooked
  <2>2. CASE captureCall' = "done" /\ state' = settledState /\ captureCall = "error" /\ UNCHANGED reference
    <3>1. UNCHANGED <<captureBooked, touched>> /\ state' = "CAPTURE_FAILED"
      BY <1>3, <2>2 DEF settleCapture, settledState
    <3> QED
      BY <1>0, <1>f, <2>2, <3>1 DEF RowType, TransactionState, RowInv, ZeroInv,
                                    OutcomeAgreesWithGateway, CaptureIsBooked
  <2>3. CASE captureCall = "captured" /\ captureCall' = "writing" /\ transition(settledState, gatewayPaymentId(gateway))
    <3>1. /\ UNCHANGED <<captureBooked, touched>> /\ state' = "CAPTURED"
          /\ reference' \in {reference, "orderNo", "reference"}
      BY <1>3, <2>3 DEF settleCapture, settledState, transition, gatewayPaymentId
    <3> QED
      BY <1>0, <1>f, <2>3, <3>1 DEF RowType, TransactionState, Reference, RowInv, ZeroInv,
                                    OutcomeAgreesWithGateway, CaptureIsBooked
  <2>4. CASE captureCall = "failed" /\ captureCall' = "writingZero" /\ transition(settledState, gatewayPaymentId(gateway))
    <3>1. /\ UNCHANGED <<captureBooked, touched>> /\ state' = "PARTIALLY_CAPTURED"
          /\ reference' \in {reference, "orderNo", "reference"}
      BY <1>3, <2>4 DEF settleCapture, settledState, transition, gatewayPaymentId
    <3>2. ZeroInv'
      BY <1>0, <1>n, <2>4, <3>1 DEF ZeroInv, AfterZero
    <3> QED
      BY <1>0, <1>f, <2>4, <3>1, <3>2 DEF RowType, TransactionState, Reference, RowInv,
                                          OutcomeAgreesWithGateway, CaptureIsBooked
  <2> QED
    BY <1>3, <2>1, <2>2, <2>3, <2>4 DEF settleCapture
<1>4. CASE writeCaptured
  <2>1. /\ captureCall \in {"writing", "writingZero"} /\ captureCall' = "done"
        /\ UNCHANGED <<state, reference, touched>>
    BY <1>4 DEF writeCaptured
  <2>2. captureBooked' \in BOOLEAN /\ (captureCall = "writing" => captureBooked')
    BY <1>4 DEF writeCaptured
  <2>3. captureCall = "writingZero" => state # "CAPTURED"
    BY <1>0 DEF ZeroInv, AfterZero
  <2>4. CaptureIsBooked'
    BY <1>0, <1>f, <2>1, <2>2, <2>3 DEF CaptureIsBooked
  <2> QED
    BY <1>0, <1>f, <2>1, <2>2, <2>4 DEF RowType, RowInv, ZeroInv, OutcomeAgreesWithGateway
<1>5. CASE \E to \in OthersTo : othersMove(to)
  <2>1. PICK to \in OtherStates : othersMove(to)
    BY <1>5, RecoveryAssumption
  <2>2. /\ state' = to /\ assertValidTransition(state, to) /\ touched' = TRUE
        /\ UNCHANGED <<captureBooked, captureCall>> /\ reference' \in {reference, "refundId"}
    BY <2>1 DEF othersMove
  <2>3. state \in AfterZero => to \in AfterZero
    BY <2>1, <2>2, Edges DEF AfterZero, OtherStates
  <2>4. ZeroInv'
    BY <1>0, <1>n, <2>2, <2>3 DEF ZeroInv
  <2> QED
    BY <1>0, <1>f, <2>1, <2>2, <2>4 DEF RowType, Reference, TransactionState, OtherStates, RowInv,
                                        OutcomeAgreesWithGateway, CaptureIsBooked
<1> QED
  BY <1>1, <1>2, <1>3, <1>4, <1>5 DEF MerchantStep

LEMMA MerchantKeepsInv ==
  ASSUME Inv, MerchantStep
  PROVE  Inv'
<1>0. WalkerType /\ RunType /\ WalkerInv /\ RunInv /\ OverridesAreLogged
  BY TypeParts DEF Inv
<1>f. UNCHANGED <<gateway, atGateway, amount, pc, copy, event, tries, todo, run, log, overrides, cut>>
  BY MerchantFrame
<1>1. WalkerType' /\ RunType' /\ WalkerInv' /\ RunInv'
  BY <1>0, <1>f DEF WalkerType, RunType, WalkerInv, WalkerOK, RunInv, PaidInFull
<1>2. OverridesAreLogged'
  BY <1>0, <1>f DEF OverridesAreLogged, mapped
<1>3. RowType' /\ RowInv' /\ ZeroInv' /\ OutcomeAgreesWithGateway' /\ CaptureIsBooked'
  BY MerchantKeepsRow
<1>4. TypeOK'
  BY <1>1, <1>3 DEF TypeOK, RowType, WalkerType, RunType
<1> QED
  BY <1>1, <1>2, <1>3, <1>4 DEF Inv

LEMMA StutterKeepsInv == Inv /\ UNCHANGED vars => Inv'
<1> SUFFICES ASSUME Inv, UNCHANGED vars PROVE Inv'
  OBVIOUS
<1>f. UNCHANGED <<gateway, state, reference, captureBooked, atGateway, amount, pc, copy, event, tries,
                  todo, run, log, overrides, captureCall, touched, cut>>
  BY DEF vars, row, external, walkers, recon, merchant, trouble
<1>1. RowType' /\ WalkerType' /\ RunType'
  BY <1>f, TypeParts DEF Inv, RowType, WalkerType, RunType
<1>2. TypeOK'
  BY <1>1 DEF TypeOK, RowType, WalkerType, RunType
<1>3. WalkerInv' /\ RowInv' /\ ZeroInv' /\ RunInv'
  BY <1>f DEF Inv, WalkerInv, WalkerOK, RowInv, ZeroInv, NoNewCapture, RunInv, PaidInFull
<1>4. OutcomeAgreesWithGateway' /\ CaptureIsBooked' /\ OverridesAreLogged'
  BY <1>f DEF Inv, OutcomeAgreesWithGateway, CaptureIsBooked, OverridesAreLogged, mapped
<1> QED
  BY <1>2, <1>3, <1>4 DEF Inv

LEMMA InvHolds == Spec => []Inv
<1>1. Inv /\ [Next]_vars => Inv'
  BY Steps, PayerKeepsInv, WalkerKeepsInv, RunKeepsInv, ResolveKeepsInv, MerchantKeepsInv,
     StutterKeepsInv
<1> QED
  BY <1>1, InitInv, PTL DEF Spec

(* The variables keep their types: the columns of the row, what walkers and *)
(* runs hold in memory, and the reconciliation log.                         *)
THEOREM TypeCorrect == Spec => []TypeOK
<1>1. Inv => TypeOK
  BY DEF Inv
<1> QED
  BY <1>1, InvHolds, PTL

(* CAPTURED was paid, AUTH_FAILED declined and AUTH_EXPIRED closed at the   *)
(* gateway, whichever of advanceTransaction, reconcileOne and               *)
(* capturePayment moved the row, and from however old a copy.               *)
THEOREM OutcomeIsTrue == Spec => []OutcomeAgreesWithGateway
<1>1. Inv => OutcomeAgreesWithGateway
  BY DEF Inv
<1> QED
  BY <1>1, InvHolds, PTL

(* A CAPTURED row has capturedPaise, or a walker or the merchant's request  *)
(* is about to write it, unless a failure came before that write or a       *)
(* reconciliation run, which writes none, made the transition.              *)
THEOREM CapturesAreBooked == Spec => []CaptureIsBooked
<1>1. Inv => CaptureIsBooked
  BY DEF Inv
<1> QED
  BY <1>1, InvHolds, PTL

(* Each state a run has overridden is in reconciliation_logs, or in the     *)
(* entries a run still holds in memory, unless such a run was lost.         *)
THEOREM OverridesLeaveALog == Spec => []OverridesAreLogged
<1>1. Inv => OverridesAreLogged
  BY DEF Inv
<1> QED
  BY <1>1, InvHolds, PTL

(* No step of a reconciliation run changes the state of a payment that has  *)
(* been captured, however long ago the run asked the gateway.               *)
THEOREM RunsLeaveCapturedAlone == Spec => RunLeavesCapturedAlone
<1>1. ASSUME Inv, [Next]_vars
      PROVE  \A j \in Job : run[j] # run'[j] /\ state \in AfterCapture => UNCHANGED state
  <2> SUFFICES ASSUME state \in AfterCapture, run' # run PROVE UNCHANGED state
    OBVIOUS
  <2>1. CASE \E j \in Job : RunStep(j)
    <3>1. PICK j \in Job : RunStep(j)
      BY <2>1
    <3> QED
      BY <1>1, <3>1, RunFrame, OverrideIsTrue, Edges DEF AfterCapture
  <2>2. CASE \E outcome \in Outcome, paid \in {"expected", "other"} : payerActs(outcome, paid)
    BY <2>2 DEF payerActs, recon
  <2>3. CASE \E w \in Walker : WalkerStep(w)
    BY <2>3, WalkerFrame
  <2>4. CASE \E entry \in log : resolveAnomaly(entry)
    BY <2>4 DEF resolveAnomaly, row
  <2>5. CASE MerchantStep
    BY <2>5, MerchantFrame
  <2>6. CASE UNCHANGED vars
    BY <2>6 DEF vars, row
  <2> QED
    BY <1>1, <2>1, <2>2, <2>3, <2>4, <2>5, <2>6, Steps
<1> QED
  BY <1>1, InvHolds, PTL DEF Spec, RunLeavesCapturedAlone

-------------------------------------------------------------------------------
(* Why a payment that was paid is not stranded: until the merchant has a    *)
(* hand in it or something is cut short, nothing but an unpaid outcome      *)
(* leads off the way to CAPTURED, and a marker outlives its worker only     *)
(* when the worker has made the last transition, has found it made, or has  *)
(* processed a notification of something else.                              *)
Ahead == {"AUTH_INITIATED", "AUTHORISED", "CAPTURE_INITIATED"}

(* What the gateway notifies of when the payer has paid, and its event id.  *)
LastWord == occasions[gateway]["paid"] \ {"PENDING"}

EventId(what) ==
  IF gateway \in {"PAYSTACK", "FLUTTERWAVE"} THEN <<what, ThisPayment>>
  ELSE IF gateway = "INTERSWITCH" THEN <<what>> ELSE <<ThisPayment, what>>

InHand(what) == \E w \in Worker : event[w] = what /\ pc[w] \in {"walking", "catching"}

OnTheWay ==
  /\ captureCall = "none"
  /\ \A w \in Walker : pc[w] = "read" => w \in Worker
  /\ atGateway \in {"unpaid", "paid"} =>
       /\ state \in Ahead \cup {"CAPTURED"}
       /\ \A w \in Walker : pc[w] = "read" => /\ copy[w] \in Ahead \cup {"CAPTURED"}
                                              /\ copy[w] = "CAPTURED" => state = "CAPTURED"

WordNotLost ==
  /\ atGateway = "unpaid" => \A what \in LastWord : EventId(what) \notin markers
  /\ PaidInFull /\ state # "CAPTURED" =>
       \A what \in LastWord : EventId(what) \in markers => InHand(what)

UnstrandedInv == ~ touched /\ ~ cut => OnTheWay /\ WordNotLost

LEMMA EventIds ==
  ASSUME gateway \in Hosted
  PROVE  /\ \A what : extractEventId(gateway, notification(what)) = EventId(what)
         /\ \A a, b : EventId(a) = EventId(b) => a = b
BY DEF Hosted, EventId, extractEventId, notification

LEMMA UnpaidWords ==
  gateway \in Hosted => occasions[gateway]["unpaid"] \subseteq {"PENDING"}
BY DEF Hosted, occasions

LEMMA LastWordCaptures ==
  ASSUME gateway \in Hosted, PaidInFull, NEW what \in LastWord
  PROVE  /\ extractTransactionId(gateway, notification(what)) # "null"
         /\ validateWebhookPayload(gateway, notification(what))
         /\ Meaning(what) = "CAPTURED"
<1> DEFINE type == extractEventType(gateway, notification(what))
<1>1. /\ notification(what).event = what /\ notification(what).approved = TRUE
      /\ notification(what).namedIn = passedOn[gateway] /\ notification(what).amount = "expected"
  BY DEF notification, PaidInFull, LastWord
<1>2. /\ gateway = "PAYSTACK" => what = "charge.success"
      /\ gateway = "FLUTTERWAVE" => what = "charge.completed"
      /\ gateway = "INTERSWITCH" => what = "TRANSACTION.COMPLETED"
      /\ gateway = "OPAY" => what = "SUCCESS"
  BY DEF LastWord, occasions
<1>3. type = IF gateway = "INTERSWITCH" THEN "TRANSACTION.COMPLETED:SUCCESS" ELSE what
  BY <1>1, <1>2 DEF extractEventType
<1>4. \A to : <<gateway, <<type, to>>>> \in WebhookTransitions <=> to = "CAPTURED"
  <2> HIDE DEF type
  <2> QED
    BY <1>2, <1>3, HostedTransitions DEF Hosted
<1>5. Meaning(what) = "CAPTURED"
  <2>1. "CAPTURED" \in TransactionState
    BY DEF TransactionState
  <2> QED
    BY <1>4, <2>1 DEF Meaning, resolveTransition
<1>6. extractTransactionId(gateway, notification(what)) # "null"
  BY <1>1 DEF extractTransactionId, passedOn, Hosted, ThisPayment
<1>7. validateWebhookPayload(gateway, notification(what))
  BY <1>1 DEF validateWebhookPayload, extractAmount, Hosted
<1> QED
  BY <1>5, <1>6, <1>7

LEMMA WayToCaptured == \A from \in Ahead : pathTo(from, "CAPTURED") # <<>>
BY DEF Ahead, pathTo, assertValidTransition, VALID_TRANSITIONS, TERMINAL_STATES

(* Until it is paid no notification names it, and from then on it is only a *)
(* worker that claims the last word that could lose it.                     *)
LEMMA WalkerKeepsUnstranded ==
  ASSUME Inv, UnstrandedInv, NEW w \in Walker, WalkerStep(w)
  PROVE  UnstrandedInv'
<1> SUFFICES ASSUME ~ touched', ~ cut' PROVE OnTheWay' /\ WordNotLost'
  BY DEF UnstrandedInv
<1>f. UNCHANGED <<gateway, atGateway, amount, captureCall, touched>> /\ ~ touched /\ ~ cut
  BY WalkerFrame
<1>0. /\ OnTheWay /\ WordNotLost /\ WalkerType /\ WalkerOK(w)
      /\ gateway \in Hosted /\ atGateway \in Outcome /\ amount \in {"expected", "other"}
  BY <1>f, TypeParts, GatewayFacts DEF UnstrandedInv, Inv, WalkerInv
<1>1. \A what : EventId(what)' = EventId(what)
  BY <1>f DEF EventId
<1>2. LastWord' = LastWord /\ (PaidInFull' <=> PaidInFull)
  BY <1>f DEF LastWord, PaidInFull
<1>3. \A x \in Walker \ {w} : pc'[x] = pc[x] /\ copy'[x] = copy[x] /\ event'[x] = event[x]
  BY <1>0 DEF WalkerStep, receive, ignoreDuplicate, claim, releaseMarker, openCheckout, check, advance,
              refused, book, statementFails, crash, go, leave, WalkerType
<1>4. atGateway \in {"unpaid", "paid"} =>
        /\ state' \in Ahead \cup {"CAPTURED"}
        /\ state = "CAPTURED" => state' = "CAPTURED"
  <2>1. CASE advance(w)
    BY <1>0, <2>1, AdvanceIsTrue, Edges DEF OnTheWay, Ahead
  <2>2. CASE ~ advance(w)
    BY <1>0, <2>2, WalkerFrame DEF OnTheWay, book
  <2> QED
    BY <2>1, <2>2
<1>5. pc'[w] = "read" => w \in Worker /\ copy'[w] = state /\ state' = state
  BY <1>0 DEF WalkerStep, receive, ignoreDuplicate, claim, releaseMarker, openCheckout, check, advance,
              refused, book, statementFails, crash, go, leave, WalkerType, row
<1>6. OnTheWay'
  BY <1>0, <1>3, <1>4, <1>5, <1>f DEF OnTheWay
<1>7. \/ UNCHANGED markers
      \/ pc[w] = "read" /\ claim(w) /\ markers' = markers \cup {EventId(event[w])}
      \/ pc[w] = "catching" /\ releaseMarker(w) /\ markers' = markers \ {EventId(event[w])}
  BY <1>0, EventIds DEF WalkerStep, receive, ignoreDuplicate, claim, releaseMarker, openCheckout, check,
              advance, refused, book, statementFails, crash, eventId
<1>8. ASSUME atGateway = "unpaid" PROVE \A what \in LastWord : EventId(what) \notin markers'
  <2>1. pc[w] = "read" => event[w] = "PENDING"
    BY <1>0, <1>8, UnpaidWords DEF WalkerOK
  <2>2. \A what \in LastWord : EventId(what) # EventId("PENDING")
    BY <1>0, EventIds DEF LastWord
  <2> QED
    BY <1>0, <1>7, <1>8, <2>1, <2>2 DEF WordNotLost
<1>9. ASSUME PaidInFull, state' # "CAPTURED", NEW what \in LastWord, EventId(what) \in markers'
      PROVE  InHand(what)'
  <2>0. state # "CAPTURED" /\ state \in Ahead
    BY <1>0, <1>4, <1>9 DEF PaidInFull, OnTheWay
  <2>1. CASE EventId(what) \in markers
    <3>1. PICK x \in Worker : event[x] = what /\ pc[x] \in {"walking", "catching"}
      BY <1>0, <1>9, <2>0, <2>1 DEF WordNotLost, InHand
    <3>2. CASE x # w
      BY <1>3, <3>1, <3>2 DEF InHand, Walker
    <3>3. CASE x = w
      <4>1. ~ releaseMarker(w)
        BY <1>0, <1>9, <3>1, <3>3, EventIds DEF releaseMarker, eventId
      <4>2. CASE advance(w)
        <5>1. pc[w] = "walking" /\ todo[w] \in Path /\ todo[w] # <<>>
          BY <1>0, <4>2 DEF advance, WalkerOK
        <5>2. state' = Head(todo[w]) /\ Head(todo[w]) \notin {"CAPTURED", "AUTH_FAILED", "AUTH_EXPIRED"}
          BY <1>9, <4>2, AdvanceIsTrue DEF PaidInFull
        <5>3. Tail(todo[w]) # <<>>
          BY <5>1, <5>2, PathStep
        <5> QED
          BY <3>1, <3>3, <4>2, <5>3 DEF advance, InHand
      <4>3. CASE refused(w)
        BY <1>0, <3>1, <3>3, <4>3 DEF refused, go, InHand, WalkerType, Walker
      <4>4. CASE statementFails(w)
        BY <1>0, <3>1, <3>3, <4>4 DEF statementFails, go, InHand, WalkerType, Walker
      <4> QED
        BY <3>1, <3>3, <4>1, <4>2, <4>3, <4>4
        DEF WalkerStep, receive, ignoreDuplicate, claim, openCheckout, check, book, crash
    <3> QED
      BY <3>2, <3>3
  <2>2. CASE EventId(what) \notin markers
    <3>1. pc[w] = "read" /\ claim(w) /\ event[w] = what
      BY <1>0, <1>7, <1>9, <2>2, EventIds
    <3>2. copy[w] \in Ahead
      BY <1>0, <1>9, <2>0, <3>1 DEF OnTheWay, PaidInFull
    <3>3. /\ extractTransactionId(gateway, notification(event[w])) # "null"
          /\ way(w) # <<>>
      BY <1>0, <1>9, <3>1, <3>2, LastWordCaptures, WayToCaptured DEF way, Meaning
    <3>4. w \in Worker
      BY <1>0, <3>1 DEF OnTheWay
    <3> QED
      BY <1>0, <3>1, <3>3, <3>4 DEF claim, go, InHand, WalkerType
  <2> QED
    BY <2>1, <2>2
<1> QED
  BY <1>1, <1>2, <1>6, <1>8, <1>9, <1>f DEF WordNotLost

LEMMA UnstrandedHolds == Spec => []UnstrandedInv
<1>1. Init => UnstrandedInv
  BY DEF Init, UnstrandedInv, OnTheWay, WordNotLost, Ahead, PaidInFull
<1>2. ASSUME Inv, UnstrandedInv, [Next]_vars PROVE UnstrandedInv'
  <2>0. gateway \in Hosted
    BY <1>2, GatewayFacts
  <2>1. CASE \E outcome \in Outcome, paid \in {"expected", "other"} : payerActs(outcome, paid)
    <3>1. /\ atGateway = "unpaid"
          /\ UNCHANGED <<gateway, state, markers, pc, copy, event, captureCall, touched, cut>>
      BY <2>1 DEF payerActs, row, walkers, merchant, trouble
    <3>2. LastWord' = LastWord /\ \A what : EventId(what)' = EventId(what)
      BY <3>1 DEF LastWord, EventId
    <3>3. ~ touched /\ ~ cut => OnTheWay' /\ \A what \in LastWord' : EventId(what)' \notin markers'
      BY <1>2, <3>1, <3>2 DEF UnstrandedInv, OnTheWay, WordNotLost
    <3> QED
      BY <3>1, <3>3 DEF UnstrandedInv, WordNotLost
  <2>2. CASE \E w \in Walker : WalkerStep(w)
    BY <1>2, <2>2, WalkerKeepsUnstranded
  <2>3. CASE \E j \in Job : RunStep(j)
    <3>1. PICK j \in Job : RunStep(j)
      BY <2>3
    <3>2. /\ UNCHANGED <<gateway, atGateway, amount, markers, pc, copy, event, captureCall, touched>>
          /\ cut' = cut \/ cut' = TRUE
      BY <3>1, RunFrame DEF RunStep, findStaleTransaction, compare, override, createMany, runIsLost, walkers
    <3>3. atGateway \in {"unpaid", "paid"} /\ state \in Ahead \cup {"CAPTURED"} =>
            /\ state' \in Ahead \cup {"CAPTURED"}
            /\ state = "CAPTURED" => state' = "CAPTURED"
      BY <1>2, <3>1, RunFrame, OverrideIsTrue, Edges DEF Ahead
    <3>4. ~ touched' /\ ~ cut' => ~ touched /\ ~ cut
      BY <3>2
    <3> QED
      BY <1>2, <3>2, <3>3, <3>4
      DEF UnstrandedInv, OnTheWay, WordNotLost, LastWord, EventId, InHand, PaidInFull
  <2>4. CASE \E entry \in log : resolveAnomaly(entry)
    <3>1. UNCHANGED <<gateway, state, atGateway, amount, markers, pc, copy, event, captureCall, touched, cut>>
      BY <2>4 DEF resolveAnomaly, row, external, walkers, merchant, trouble
    <3> QED
      BY <1>2, <3>1 DEF UnstrandedInv, OnTheWay, WordNotLost, LastWord, EventId, InHand, PaidInFull
  <2>5. CASE MerchantStep
    <3>1. /\ UNCHANGED <<gateway, atGateway, amount, markers, pc, copy, event, cut>>
          /\ touched' = TRUE \/ (captureCall # "none" /\ touched' = touched)
      BY <2>5, MerchantFrame DEF MerchantStep, initiateCapture, captureAnswered, settleCapture,
         writeCaptured, othersMove, walkers
    <3> QED
      BY <1>2, <3>1 DEF UnstrandedInv, OnTheWay
  <2>6. CASE UNCHANGED vars
    <3>1. UNCHANGED <<gateway, state, atGateway, amount, markers, pc, copy, event, captureCall, touched, cut>>
      BY <2>6 DEF vars, row, external, walkers, merchant, trouble
    <3> QED
      BY <1>2, <3>1 DEF UnstrandedInv, OnTheWay, WordNotLost, LastWord, EventId, InHand, PaidInFull
  <2> QED
    BY <1>2, <2>1, <2>2, <2>3, <2>4, <2>5, <2>6, Steps
<1> QED
  BY <1>1, <1>2, InvHolds, PTL DEF Spec

(* A payment paid in full, which neither the merchant nor a failure has     *)
(* touched, is on the way to CAPTURED, and no marker in                     *)
(* processed_webhook_events keeps the worker of a later delivery from       *)
(* taking it there: whoever wrote the marker of the last notification is    *)
(* about to advance the payment or to delete the marker.                    *)
THEOREM PaidIsWithinReach == Spec => []PaidIsNotStranded
<1>1. Inv /\ UnstrandedInv => PaidIsNotStranded
  <2> SUFFICES ASSUME Inv, UnstrandedInv, atGateway = "paid", amount = "expected",
                      state \notin AfterCapture, ~ touched, ~ cut
               PROVE  /\ state \in {"AUTH_INITIATED", "AUTHORISED", "CAPTURE_INITIATED"}
                      /\ \A what \in LastWord :
                           extractEventId(gateway, notification(what)) \in markers => InHand(what)
    BY DEF PaidIsNotStranded, LastWord, InHand
  <2>1. state # "CAPTURED" /\ PaidInFull /\ OnTheWay /\ WordNotLost /\ gateway \in Hosted
    BY GatewayFacts DEF AfterCapture, PaidInFull, UnstrandedInv
  <2>2. state \in Ahead
    BY <2>1 DEF OnTheWay
  <2>3. \A what \in LastWord :
          extractEventId(gateway, notification(what)) \in markers => InHand(what)
    BY <2>1, EventIds DEF WordNotLost
  <2> QED
    BY <2>2, <2>3 DEF Ahead
<1> QED
  BY <1>1, InvHolds, UnstrandedHolds, PTL
================================================================================
