------------------------- MODULE GatewayAdapters_proofs ----------------------
(***************************************************************************)
(* What any of the eight adapters may answer, which is what the modules of *)
(* the request handlers assume of them, and what the answers are worth.    *)
(*                                                                         *)
(* The argument: a hosted adapter's operation is a reading of words that   *)
(* overHttp extends to the calls without an answer, and overHttp turns     *)
(* each of those into an exception; a mock, and an operation that calls    *)
(* nobody, is a constant or a table of the mock header.                    *)
(***************************************************************************)
EXTENDS GatewayAdapters, TLAPS

(* The reading decides alone of an answer, the missing answer is thrown. *)
LEMMA OverHttp ==
  ASSUME NEW read, DOMAIN read \cap NoAnswer = {}, NEW end \in DOMAIN overHttp(read)
  PROVE  IF end \in NoAnswer THEN overHttp(read)[end] \in Exceptions
         ELSE end \in DOMAIN read /\ overHttp(read)[end] = read[end]
BY DEF overHttp, request, loadConfig, Exceptions

LEMMA AdapterTable ==
  /\ adapters["RAZORPAY"] = razorpay /\ adapters["STRIPE"] = stripe
  /\ adapters["PAYU"] = payU /\ adapters["UPI"] = upi
  /\ adapters["PAYSTACK"] = paystack /\ adapters["FLUTTERWAVE"] = flutterwave
  /\ adapters["INTERSWITCH"] = interswitch /\ adapters["OPAY"] = opay
BY DEF adapters

(* The statuses of an operation that is carried out as a whole, or not at all. *)
Whole(op) == StatusOf[op] \ {"partially_captured", "partially_refunded"}

Operation == {"authorise", "capture", "refund", "void", "fetchStatus"}

(* The word of each hosted gateway for money taken. *)
paidWord == [PAYSTACK |-> "success", FLUTTERWAVE |-> "successful", INTERSWITCH |-> "00",
             OPAY |-> "SUCCESS"]

------------------------------------------------------------------------------
(***************************************************************************)
(* An operation of a hosted gateway, by the shape of its definition: it    *)
(* reads an answer, calls nobody, or is Interswitch's authorise, which     *)
(* only puts together the address of a page.                               *)
(***************************************************************************)
LEMMA HostedShape ==
  ASSUME NEW g \in Hosted, NEW op \in Operation
  PROVE  \/ \E read : /\ DOMAIN read \cap NoAnswer = {}
                      /\ \A end \in DOMAIN read : read[end] \in Whole(op)
                      /\ op \in {"capture", "fetchStatus"} =>
                           \A end \in DOMAIN read : read[end] = "captured" => end = paidWord[g]
                      /\ adapters[g][op] = overHttp(read)
         \/ /\ op \in {"refund", "void"} /\ adapters[g][op] = local("failed")
         \/ op = "authorise" /\ adapters[g] = interswitch
<1> DEFINE Reads(f) ==
      \E read : /\ DOMAIN read \cap NoAnswer = {}
                /\ \A end \in DOMAIN read : read[end] \in Whole(op)
                /\ op \in {"capture", "fetchStatus"} =>
                     \A end \in DOMAIN read : read[end] = "captured" => end = paidWord[g]
                /\ f = overHttp(read)
<1>1. ASSUME op = "authorise" PROVE Reads(overHttp([w \in {"initialized"} |-> "pending"]))
  BY <1>1 DEF StatusOf, Whole, NoAnswer
<1>2. ASSUME op = "refund" PROVE Reads(refundAccepted)
  BY <1>2 DEF refundAccepted, StatusOf, Whole, NoAnswer
<1>3. ASSUME op = "capture", NEW words, words \cap NoAnswer = {}, NEW success,
             success = paidWord[g]
      PROVE  Reads(verify(words, success))
  <2> DEFINE read == [w \in words |-> IF w = success THEN "captured" ELSE "failed"]
  <2>1. /\ DOMAIN read \cap NoAnswer = {}
        /\ \A end \in DOMAIN read : read[end] \in Whole(op)
        /\ \A end \in DOMAIN read : read[end] = "captured" => end = paidWord[g]
    BY <1>3 DEF StatusOf, Whole
  <2> QED
    BY <2>1 DEF verify
<1>4. CASE g = "PAYSTACK"
  <2>1. ASSUME op = "fetchStatus" PROVE Reads(paystackStatus)
    BY <1>4, <2>1 DEF paystackStatus, PaystackWord, StatusOf, Whole, NoAnswer, paidWord
  <2>2. PaystackWord \cap NoAnswer = {} /\ paidWord[g] = "success"
    BY <1>4 DEF PaystackWord, NoAnswer, paidWord
  <2>3. op = "capture" => Reads(verify(PaystackWord, "success"))
    BY <1>3, <2>2
  <2> QED
    BY <1>1, <1>2, <1>4, <2>1, <2>3, AdapterTable DEF paystack, Operation
<1>5. CASE g = "FLUTTERWAVE"
  <2>1. ASSUME op = "fetchStatus" PROVE Reads(flutterwaveStatus)
    BY <1>5, <2>1 DEF flutterwaveStatus, FlutterwaveWord, StatusOf, Whole, NoAnswer, paidWord
  <2>2. FlutterwaveWord \cap NoAnswer = {} /\ paidWord[g] = "successful"
    BY <1>5 DEF FlutterwaveWord, NoAnswer, paidWord
  <2>3. op = "capture" => Reads(verify(FlutterwaveWord, "successful"))
    BY <1>3, <2>2
  <2> QED
    BY <1>1, <1>2, <1>5, <2>1, <2>3, AdapterTable DEF flutterwave, Operation
<1>6. CASE g = "INTERSWITCH"
  <2>1. ASSUME op = "fetchStatus" PROVE Reads(interswitchStatus)
    BY <1>6, <2>1 DEF interswitchStatus, InterswitchCode, StatusOf, Whole, NoAnswer, paidWord
  <2>2. InterswitchCode \cap NoAnswer = {} /\ paidWord[g] = "00"
    BY <1>6 DEF InterswitchCode, NoAnswer, paidWord
  <2>3. op = "capture" => Reads(verify(InterswitchCode, "00"))
    BY <1>3, <2>2
  <2>4. adapters[g] = interswitch
    BY <1>6, AdapterTable
  <2>5. /\ interswitch["capture"] = verify(InterswitchCode, "00")
        /\ interswitch["fetchStatus"] = interswitchStatus
        /\ interswitch["refund"] = local("failed") /\ interswitch["void"] = local("failed")
    BY DEF interswitch
  <2>6. op = "capture" \/ op = "fetchStatus" => Reads(adapters[g][op])
    BY <2>1, <2>3, <2>4, <2>5
  <2>7. op \in {"refund", "void"} => adapters[g][op] = local("failed")
    BY <2>4, <2>5
  <2> QED
    BY <2>4, <2>6, <2>7 DEF Operation
<1>7. CASE g = "OPAY"
  <2>1. ASSUME op = "fetchStatus" PROVE Reads(opayStatus)
    BY <1>7, <2>1 DEF opayStatus, OpayWord, StatusOf, Whole, NoAnswer, paidWord
  <2>2. OpayWord \cap NoAnswer = {} /\ paidWord[g] = "SUCCESS"
    BY <1>7 DEF OpayWord, NoAnswer, paidWord
  <2>3. op = "capture" => Reads(verify(OpayWord, "SUCCESS"))
    BY <1>3, <2>2
  <2> QED
    BY <1>1, <1>2, <1>7, <2>1, <2>3, AdapterTable DEF opay, Operation
<1> QED
  BY <1>4, <1>5, <1>6, <1>7 DEF Hosted

(* Interswitch's authorise, and the table of the mocks. *)
LEMMA InterswitchAuthorise ==
  ASSUME NEW end \in DOMAIN interswitch.authorise
  PROVE  /\ interswitch.authorise[end] \in {"pending"} \cup Exceptions
         /\ end \in NoAnswer => interswitch.authorise[end] \in Exceptions
BY DEF interswitch, loadConfig, requireMetadata, Exceptions, NoAnswer

LEMMA MockAnswers ==
  ASSUME NEW op \in Operation, NEW end \in DOMAIN razorpay[op]
  PROVE  razorpay[op][end] \in (Whole(op) \ {"failed", "pending"}) \cup Exceptions
<1>1. CASE op = "authorise"
  <2>1. end \in MockControl /\ razorpay[op][end] = mockAuthorise[end]
    BY <1>1 DEF razorpay, mockAuthorise
  <2>2. mockAuthorise[end] \in {"authorised", "declined"} \cup Exceptions
    BY <2>1 DEF mockAuthorise, applyMockBehaviour, MockControl, Exceptions
  <2> QED
    BY <1>1, <2>1, <2>2 DEF StatusOf, Whole
<1>2. CASE op # "authorise"
  BY <1>2 DEF Operation, razorpay, local, StatusOf, Whole
<1> QED
  BY <1>1, <1>2

------------------------------------------------------------------------------
(***************************************************************************)
(* Whatever adapter a payment has and however a call ends, the result is a *)
(* status that the interface declares for the operation, or an exception;  *)
(* and none of them carries out an operation in part.                      *)
(* This is what the handlers' models take for granted of their adapters:   *)
(* Answers of PaymentInitiation and of PaymentOperations.                  *)
(***************************************************************************)
THEOREM AnswersAreDeclared ==
  \A g \in PaymentGateway : \A op \in Operation :
    \A end \in DOMAIN adapters[g][op] : adapters[g][op][end] \in Whole(op) \cup Exceptions
<1> SUFFICES ASSUME NEW g \in PaymentGateway, NEW op \in Operation,
                    NEW end \in DOMAIN adapters[g][op]
             PROVE  adapters[g][op][end] \in Whole(op) \cup Exceptions
  OBVIOUS
<1>1. CASE g \in Mocks
  <2>1. adapters[g] = razorpay
    BY <1>1, AdapterTable DEF Mocks, stripe, payU, upi
  <2> QED
    BY <2>1, MockAnswers
<1>2. CASE g \in Hosted
  <2>1. ASSUME NEW read, DOMAIN read \cap NoAnswer = {}, adapters[g][op] = overHttp(read),
               \A w \in DOMAIN read : read[w] \in Whole(op)
        PROVE  adapters[g][op][end] \in Whole(op) \cup Exceptions
    BY <2>1, OverHttp
  <2>2. CASE op \in {"refund", "void"} /\ adapters[g][op] = local("failed")
    BY <2>2 DEF local, StatusOf, Whole
  <2>3. CASE op = "authorise" /\ adapters[g] = interswitch
    BY <2>3, InterswitchAuthorise DEF StatusOf, Whole
  <2> QED
    BY <1>2, <2>1, <2>2, <2>3, HostedShape
<1> QED
  BY <1>1, <1>2 DEF PaymentGateway

(***************************************************************************)
(* A call of a hosted gateway that brings no answer, be it a timeout, a    *)
(* lost connection or an error of the server, is never taken for one: it   *)
(* ends in an exception, whatever the operation.                           *)
(***************************************************************************)
THEOREM SilenceIsThrown ==
  \A g \in Hosted : \A op \in Operation :
    \A end \in DOMAIN adapters[g][op] \cap NoAnswer : adapters[g][op][end] \in Exceptions
<1> SUFFICES ASSUME NEW g \in Hosted, NEW op \in Operation,
                    NEW end \in DOMAIN adapters[g][op], end \in NoAnswer
             PROVE  adapters[g][op][end] \in Exceptions
  OBVIOUS
<1>1. ASSUME NEW read, DOMAIN read \cap NoAnswer = {}, adapters[g][op] = overHttp(read)
      PROVE  adapters[g][op][end] \in Exceptions
  BY <1>1, OverHttp
<1>2. CASE adapters[g][op] = local("failed")
  BY <1>2 DEF local, NoAnswer
<1>3. CASE op = "authorise" /\ adapters[g] = interswitch
  BY <1>3, InterswitchAuthorise
<1> QED
  BY <1>1, <1>2, <1>3, HostedShape

(***************************************************************************)
(* A hosted gateway's adapter reports money as taken, when it is asked to  *)
(* capture and when it is asked for the status, only at the gateway's own  *)
(* word for it: no other word, no missing body and no error reads so.      *)
(***************************************************************************)
THEOREM CapturedIsTheGatewaysWord ==
  \A g \in Hosted : \A op \in {"capture", "fetchStatus"} :
    \A end \in DOMAIN adapters[g][op] : adapters[g][op][end] = "captured" => end = paidWord[g]
<1> SUFFICES ASSUME NEW g \in Hosted, NEW op \in {"capture", "fetchStatus"},
                    NEW end \in DOMAIN adapters[g][op], adapters[g][op][end] = "captured"
             PROVE  end = paidWord[g]
  OBVIOUS
<1>1. PICK read : /\ DOMAIN read \cap NoAnswer = {}
                  /\ \A w \in DOMAIN read : read[w] = "captured" => w = paidWord[g]
                  /\ adapters[g][op] = overHttp(read)
  BY HostedShape DEF Operation
<1>2. "captured" \notin Exceptions
  BY DEF Exceptions
<1> QED
  BY <1>1, <1>2, OverHttp
==============================================================================
