------------------------------- MODULE Recovery -------------------------------
(***************************************************************************)
(* How a payment at a hosted checkout page gets from AUTH_INITIATED to its *)
(* outcome.  The payer pays, or does not, at the gateway; four parties     *)
(* then move the row without waiting for each other:                       *)
(*                                                                         *)
(*   the webhook workers     WebhookProcessorService.processOne            *)
(*   the checkout pages      CheckoutController.verifyAndAdvance           *)
(*   reconciliation runs     ReconciliationService.run                     *)
(*   the merchant            capturePayment, voids and refunds             *)
(*                                                                         *)
(* Workers and checkout pages walk the row with the same                   *)
(* advanceTransaction.  Everybody reads the row first and acts on the copy *)
(* later, after awaits; only transition() looks at the row again.          *)
(***************************************************************************)
EXTENDS GatewayAdapters, Naturals

CONSTANTS
  Gateways,        \* the hosted gateways that may have the payment
  Worker,          \* webhook workers
  Visit,           \* browsers of the payer on a checkout page or coming back
  Job,             \* reconciliation runs; nothing keeps two of them apart
  OthersTo,        \* where voids and refunds of the merchant move the row
  MaxDisturbances  \* bound: failing statements and crashes

(* Where voidPayment and refundPayment can take a row: the void of a hosted *)
(* gateway never throws.                                                   *)
OtherStates ==
  {"VOID_INITIATED", "VOIDED", "REFUND_INITIATED", "REFUNDED", "PARTIALLY_REFUNDED",
   "REFUND_FAILED"}

ASSUME RecoveryAssumption ==
  /\ Gateways \subseteq Hosted
  /\ Worker \cap Visit = {}
  /\ OthersTo \subseteq OtherStates
  /\ MaxDisturbances \in Nat

Walker == Worker \cup Visit

VARIABLES
  gateway,        \* columns of the transactions row
  state,
  reference,      \* whose name gatewayReference holds
  captureBooked,  \* capturedPaise is the amount of the payment
  atGateway,      \* what became of the payment at the gateway
  amount,         \* whether the payer paid what was expected
  markers,        \* processed_webhook_events
  pc,             \* of the walkers
  copy,           \* the state a walker read
  event,          \* the notification a worker processes
  tries,          \* status checks a checkout page has left
  todo,           \* the transitions a walker has still to make
  run,            \* a reconciliation run: stage, state read, answer
  log,            \* reconciliation_logs
  overrides,      \* log entries RECONCILIATION_OVERRIDE of the state machine
  captureCall,    \* the capture request of the merchant
  touched,        \* the merchant has captured or voided (history)
  cut,            \* a failure or crash has cut something short (history)
  disturbances

walkers  == <<markers, pc, copy, event, tries, todo>>
recon    == <<run, log, overrides>>
merchant == <<captureCall, touched>>
trouble  == <<cut, disturbances>>
external == <<atGateway, amount>>
row      == <<gateway, state, reference, captureBooked>>
vars     == <<row, external, walkers, recon, merchant, trouble>>

Outcome == {"unpaid", "paid", "declined", "closed"}

(* What gatewayReference may hold the name of: the merchant's reference,   *)
(* Opay's number of the order, an event, or a refund.                      *)
Reference == {"reference", "orderNo", "eventId", "refundId"}

RECONCILABLE_STATES ==
  {"AUTH_INITIATED", "CAPTURE_INITIATED", "REFUND_INITIATED", "VOID_INITIATED"}

GATEWAY_STATUS_MAP ==
  [authorised |-> "AUTHORISED", captured |-> "CAPTURED", failed |-> "FAILED",
   refunded |-> "REFUNDED", expired |-> "AUTH_EXPIRED"]

Idle == [stage |-> "idle", from |-> NoRow, asks |-> "reference", said |-> "none"]

Over == [Idle EXCEPT !.stage = "over"]

Init ==
  /\ gateway \in Gateways
  /\ state = "AUTH_INITIATED"
  /\ reference = "reference" /\ captureBooked = FALSE
  /\ atGateway = "unpaid" /\ amount = "expected"
  /\ markers = {}
  /\ pc = [w \in Walker |-> "idle"]
  /\ copy = [w \in Walker |-> NoRow]
  /\ event = [w \in Walker |-> "none"]
  /\ tries = [w \in Walker |-> 0]
  /\ todo = [w \in Walker |-> <<>>]
  /\ run = [j \in Job |-> Idle]
  /\ log = {} /\ overrides = {}
  /\ captureCall = "none" /\ touched = FALSE
  /\ cut = FALSE /\ disturbances = 0

------------------------------------------------------------------------------
(* The payer decides once, at the gateway. *)
payerActs(outcome, paid) ==
  /\ atGateway = "unpaid" /\ outcome # "unpaid"
  /\ outcome # "paid" => paid = "expected"
  /\ atGateway' = outcome /\ amount' = paid
  /\ UNCHANGED <<row, walkers, recon, merchant, trouble>>

(* What the gateways notify of; each is delivered any number of times.     *)
occasions ==
  [PAYSTACK    |-> [unpaid |-> {}, paid |-> {"charge.success"}, declined |-> {"charge.failed"},
                    closed |-> {}],
   FLUTTERWAVE |-> [unpaid |-> {}, paid |-> {"charge.completed"}, declined |-> {"charge.failed"},
                    closed |-> {}],
   INTERSWITCH |-> [unpaid |-> {}, paid |-> {"TRANSACTION.COMPLETED"},
                    declined |-> {"TRANSACTION.COMPLETED"}, closed |-> {}],
   OPAY        |-> [unpaid |-> {"PENDING"}, paid |-> {"PENDING", "SUCCESS"},
                    declined |-> {"PENDING", "FAIL"}, closed |-> {"PENDING", "CLOSE"}]]

Notice == {"charge.success", "charge.completed", "charge.failed", "TRANSACTION.COMPLETED",
           "PENDING", "SUCCESS", "FAIL", "CLOSE"}

(* Where they hand back the transaction's id that authorise has sent them. *)
passedOn ==
  [PAYSTACK |-> "metadata", FLUTTERWAVE |-> "meta", INTERSWITCH |-> "merchantReference",
   OPAY |-> "reference"]

notification(what) ==
  [event |-> what, namedIn |-> passedOn[gateway], approved |-> atGateway = "paid", uuid |-> what,
   amount |-> IF what = "PENDING" THEN "expected" ELSE amount]

(* The word of a status call, when the gateway is asked for the payment by *)
(* the name it knows, and when it is not.                                  *)
words ==
  [PAYSTACK    |-> [unpaid |-> {"other"}, paid |-> {"success"}, declined |-> {"failed"},
                    closed |-> {"abandoned"}, unknown |-> {"4xx"}],
   FLUTTERWAVE |-> [unpaid |-> {"pending", "4xx"}, paid |-> {"successful"}, declined |-> {"failed"},
                    closed |-> {"other"}, unknown |-> {"4xx"}],
   INTERSWITCH |-> [unpaid |-> {"09", "Z25"}, paid |-> {"00"}, declined |-> {"other"},
                    closed |-> {"other"}, unknown |-> {"Z25"}],
   OPAY        |-> [unpaid |-> {"PENDING"}, paid |-> {"SUCCESS"}, declined |-> {"FAIL"},
                    closed |-> {"CLOSE"}, unknown |-> {"other", "4xx"}]]

(* What an operation of the adapter may come to. *)
asking(operation, name) ==
  {operation[end] : end \in NoAnswer \cup
     words[gateway][IF name = gatewayPaymentId(gateway) THEN atGateway ELSE "unknown"]}

------------------------------------------------------------------------------
accepts(to) == state = to \/ assertValidTransition(state, to)

(* transition(): a duplicate changes nothing. *)
transition(to, name) ==
  /\ state' = to
  /\ reference' = IF state = to THEN reference ELSE name

go(w, where) == pc' = [pc EXCEPT ![w] = where]

(* A walker is done, or gives up: it forgets what it had in hand. *)
leave(w) ==
  /\ go(w, "idle")
  /\ copy' = [copy EXCEPT ![w] = NoRow]
  /\ event' = [event EXCEPT ![w] = "none"]
  /\ tries' = [tries EXCEPT ![w] = 0]
  /\ todo' = [todo EXCEPT ![w] = <<>>]

------------------------------------------------------------------------------
(* processOne, from the reading of the row on; what the queue does with an *)
(* entry, and its retries, are the subject of WebhookPipeline.             *)
receive(w, what) ==
  /\ pc[w] = "idle"
  /\ what \in occasions[gateway][atGateway]
  /\ copy' = [copy EXCEPT ![w] = state]
  /\ event' = [event EXCEPT ![w] = what]
  /\ go(w, "read")
  /\ UNCHANGED <<row, external, markers, tries, todo, recon, merchant, trouble>>

eventId(w) == extractEventId(gateway, notification(event[w]))

(* The transitions from the state read to the one the event stands for.    *)
way(w) ==
  pathTo(copy[w], resolveTransition(gateway, extractEventType(gateway, notification(event[w]))))

ignoreDuplicate(w) ==
  /\ pc[w] = "read" /\ eventId(w) \in markers
  /\ leave(w)
  /\ UNCHANGED <<row, external, markers, recon, merchant, trouble>>

(* The marker is in, and stays if nothing is to be done, or if it is not   *)
(* known to which payment.                                                 *)
claim(w) ==
  /\ pc[w] = "read" /\ eventId(w) \notin markers
  /\ markers' = markers \cup {eventId(w)}
  /\ IF extractTransactionId(gateway, notification(event[w])) = "null" THEN leave(w)
     ELSE IF ~ validateWebhookPayload(gateway, notification(event[w]))
     THEN go(w, "catching") /\ UNCHANGED <<copy, event, tries, todo>>
     ELSE IF way(w) = <<>> THEN leave(w)
     ELSE /\ todo' = [todo EXCEPT ![w] = way(w)]
          /\ go(w, "walking")
          /\ UNCHANGED <<copy, event, tries>>
  /\ UNCHANGED <<row, external, recon, merchant, trouble>>

\* Faulty variant: the catch block keeps the marker.
keepMarker(w) ==
  /\ pc[w] = "catching"
  /\ leave(w)
  /\ UNCHANGED <<row, external, markers, recon, merchant, trouble>>

releaseMarker(w) ==
  /\ pc[w] = "catching"
  /\ markers' = markers \ {eventId(w)}
  /\ leave(w)
  /\ UNCHANGED <<row, external, recon, merchant, trouble>>

------------------------------------------------------------------------------
(* The checkout page tries once, a return three times.                     *)
openCheckout(v, attempts) ==
  /\ pc[v] = "idle"
  /\ gateway = "INTERSWITCH" /\ state = "AUTH_INITIATED"
  /\ copy' = [copy EXCEPT ![v] = state]
  /\ tries' = [tries EXCEPT ![v] = attempts]
  /\ go(v, "asking")
  /\ UNCHANGED <<row, external, markers, event, todo, recon, merchant, trouble>>

\* Faulty variant: the amount is not compared with the expected one.
checkAnyAmount(v) ==
  /\ pc[v] = "asking"
  /\ \E said \in asking(interswitchStatus, "reference") :
       IF said = "authorised" /\ tries[v] > 1
       THEN tries' = [tries EXCEPT ![v] = @ - 1] /\ UNCHANGED <<pc, copy, event, todo>>
       ELSE IF said = "captured"
       THEN /\ todo' = [todo EXCEPT ![v] = pathTo(copy[v], "CAPTURED")]
            /\ go(v, "walking")
            /\ UNCHANGED <<copy, event, tries>>
       ELSE leave(v)
  /\ UNCHANGED <<row, external, markers, recon, merchant, trouble>>

\* Faulty variant: an answer that is pending is asked for again and again.
checkAgain(v) ==
  /\ pc[v] = "asking"
  /\ \E said \in asking(interswitchStatus, "reference") :
       IF said = "authorised"
       THEN tries' = [tries EXCEPT ![v] = @ - 1] /\ UNCHANGED <<pc, copy, event, todo>>
       ELSE leave(v)
  /\ UNCHANGED <<row, external, markers, recon, merchant, trouble>>

(* Asked for by the transaction's id, which Interswitch knows.  Only an    *)
(* approval of the right amount counts.                                    *)
check(v) ==
  /\ pc[v] = "asking"
  /\ \E said \in asking(interswitchStatus, "reference") :
       IF said = "authorised" /\ tries[v] > 1
       THEN tries' = [tries EXCEPT ![v] = @ - 1] /\ UNCHANGED <<pc, copy, event, todo>>
       ELSE IF said = "captured" /\ amount = "expected"
       THEN /\ todo' = [todo EXCEPT ![v] = pathTo(copy[v], "CAPTURED")]
            /\ go(v, "walking")
            /\ UNCHANGED <<copy, event, tries>>
       ELSE leave(v)
  /\ UNCHANGED <<row, external, markers, recon, merchant, trouble>>

------------------------------------------------------------------------------
\* Faulty variant: the amount is left to the API's own capture.
advanceUnbooked(w) ==
  /\ pc[w] = "walking" /\ accepts(Head(todo[w]))
  /\ transition(Head(todo[w]), IF w \in Worker THEN "eventId" ELSE "reference")
  /\ IF Tail(todo[w]) # <<>>
     THEN /\ todo' = [todo EXCEPT ![w] = Tail(@)]
          /\ UNCHANGED <<pc, copy, event, tries>>
     ELSE leave(w)
  /\ UNCHANGED <<gateway, captureBooked, external, markers, recon, merchant, trouble>>

(* advanceTransaction of both. *)
advance(w) ==
  /\ pc[w] = "walking" /\ accepts(Head(todo[w]))
  /\ transition(Head(todo[w]), IF w \in Worker THEN "eventId" ELSE "reference")
  /\ IF Tail(todo[w]) # <<>>
     THEN /\ todo' = [todo EXCEPT ![w] = Tail(@)]
          /\ UNCHANGED <<pc, copy, event, tries>>
     ELSE IF Head(todo[w]) = "CAPTURED"
     THEN /\ todo' = [todo EXCEPT ![w] = <<>>]
          /\ go(w, "booking")
          /\ UNCHANGED <<copy, event, tries>>
     ELSE leave(w)
  /\ UNCHANGED <<gateway, captureBooked, external, markers, recon, merchant, trouble>>

(* The row has moved on: transition() throws. *)
refused(w) ==
  /\ pc[w] = "walking" /\ ~ accepts(Head(todo[w]))
  /\ IF w \in Worker
     THEN go(w, "catching") /\ todo' = [todo EXCEPT ![w] = <<>>] /\ UNCHANGED <<copy, event, tries>>
     ELSE leave(w)
  /\ UNCHANGED <<row, external, markers, recon, merchant, trouble>>

book(w) ==
  /\ pc[w] = "booking"
  /\ captureBooked' = TRUE
  /\ leave(w)
  /\ UNCHANGED <<gateway, state, reference, external, markers, recon, merchant, trouble>>

disturbed == disturbances < MaxDisturbances /\ disturbances' = disturbances + 1

(* A statement fails.  A worker's catch block runs; a checkout page logs   *)
(* the error.  The booking is not made up for.                             *)
statementFails(w) ==
  /\ pc[w] \in {"walking", "booking"} /\ disturbed
  /\ cut' = (cut \/ pc[w] = "booking")
  /\ IF w \in Worker
     THEN go(w, "catching") /\ todo' = [todo EXCEPT ![w] = <<>>] /\ UNCHANGED <<copy, event, tries>>
     ELSE leave(w)
  /\ UNCHANGED <<row, external, markers, recon, merchant>>

(* The process dies: a marker stays. *)
crash(w) ==
  /\ pc[w] # "idle" /\ disturbed
  /\ cut' = TRUE
  /\ leave(w)
  /\ UNCHANGED <<row, external, markers, recon, merchant>>

------------------------------------------------------------------------------
(* run() and reconcileOne.  That a row is stale after some minutes is left *)
(* out: a run may begin whenever the state is one of the reconcilable.     *)
findStaleTransaction(j) ==
  /\ run[j].stage = "idle"
  /\ state \in RECONCILABLE_STATES
  /\ run' = [run EXCEPT ![j] = [stage |-> "asking", from |-> state, asks |-> reference,
                                said |-> "none"]]
  /\ UNCHANGED <<row, external, walkers, log, overrides, merchant, trouble>>

mapped(j) == GATEWAY_STATUS_MAP[run[j].said]

classifyDiscrepancy(internalState, gatewayStatus) ==
  IF /\ internalState \in {"CAPTURED", "PARTIALLY_CAPTURED", "SETTLED"}
     /\ gatewayStatus \in {"failed", "expired"}
  THEN "INTERNAL_CAPTURED_GATEWAY_FAILED"
  ELSE IF internalState \in {"AUTH_INITIATED", "CAPTURE_INITIATED"} /\ gatewayStatus = "captured"
  THEN "INTERNAL_PENDING_GATEWAY_SUCCEEDED"
  ELSE "STATUS_MISMATCH"

(* The gateway's answer, compared with the state read before.  An error    *)
(* and an answer that agrees end it.                                       *)
compare(j) ==
  /\ run[j].stage = "asking"
  /\ \E said \in asking(adapters[gateway].fetchStatus, run[j].asks) :
       run' = [run EXCEPT ![j] =
         IF said \in Exceptions \/ GATEWAY_STATUS_MAP[said] = run[j].from THEN Over
         ELSE [@ EXCEPT !.said = said,
                        !.stage = IF /\ classifyDiscrepancy(run[j].from, said)
                                          # "INTERNAL_CAPTURED_GATEWAY_FAILED"
                                     /\ assertValidTransition(run[j].from, GATEWAY_STATUS_MAP[said])
                                  THEN "resolvable" ELSE "flagged"]]
  /\ UNCHANGED <<row, external, walkers, log, overrides, merchant, trouble>>

\* Faulty variant: the answer is written over whatever the row has become.
overrideBlindly(j) ==
  /\ run[j].stage = "resolvable"
  /\ state' = mapped(j)
  /\ overrides' = overrides \cup {mapped(j)}
  /\ run' = [run EXCEPT ![j].stage = "resolved"]
  /\ UNCHANGED <<gateway, reference, captureBooked, external, walkers, log, merchant, trouble>>

(* RECONCILIATION_OVERRIDE carries no reference. *)
override(j) ==
  /\ run[j].stage = "resolvable"
  /\ IF accepts(mapped(j))
     THEN /\ state' = mapped(j)
          /\ overrides' = IF state = mapped(j) THEN overrides ELSE overrides \cup {mapped(j)}
          /\ run' = [run EXCEPT ![j].stage = "resolved"]
     ELSE /\ run' = [run EXCEPT ![j].stage = "flagged"]
          /\ UNCHANGED <<state, overrides>>
  /\ UNCHANGED <<gateway, reference, captureBooked, external, walkers, log, merchant, trouble>>

entryOf(j) ==
  [discrepancyType |-> classifyDiscrepancy(run[j].from, run[j].said),
   internalState |-> run[j].from, gatewayState |-> run[j].said,
   requiresReview |-> run[j].stage = "flagged", resolved |-> run[j].stage = "resolved"]

\* Faulty variant: only what needs review is written down.
createReviewsOnly(j) ==
  /\ run[j].stage \in {"resolved", "flagged"}
  /\ log' = IF run[j].stage = "flagged" THEN log \cup {entryOf(j)} ELSE log
  /\ run' = [run EXCEPT ![j] = Over]
  /\ UNCHANGED <<row, external, walkers, overrides, merchant, trouble>>

(* The entries are written when the whole run is over. *)
createMany(j) ==
  /\ run[j].stage \in {"resolved", "flagged"}
  /\ log' = log \cup {entryOf(j)}
  /\ run' = [run EXCEPT ![j] = Over]
  /\ UNCHANGED <<row, external, walkers, overrides, merchant, trouble>>

runIsLost(j) ==
  /\ run[j].stage \notin {"idle", "over"} /\ disturbed
  /\ cut' = TRUE
  /\ run' = [run EXCEPT ![j] = Over]
  /\ UNCHANGED <<row, external, walkers, log, overrides, merchant>>

resolveAnomaly(entry) ==
  /\ entry \in log /\ ~ entry.resolved
  /\ log' = (log \ {entry}) \cup {[entry EXCEPT !.resolved = TRUE]}
  /\ UNCHANGED <<row, external, walkers, run, overrides, merchant, trouble>>

------------------------------------------------------------------------------
(* capturePayment of the whole amount, as in PaymentOperations, with the   *)
(* answer of this gateway.                                                 *)
initiateCapture ==
  /\ captureCall = "none"
  /\ accepts("CAPTURE_INITIATED")
  /\ state' = "CAPTURE_INITIATED"
  /\ captureCall' = "calling" /\ touched' = TRUE
  /\ UNCHANGED <<gateway, reference, captureBooked, external, walkers, recon, trouble>>

captureAnswered ==
  /\ captureCall = "calling"
  /\ \E answer \in asking(adapters[gateway].capture, gatewayPaymentId(gateway)) :
       captureCall' = IF answer \in Exceptions THEN "error" ELSE answer
  /\ UNCHANGED <<row, external, walkers, recon, touched, trouble>>

(* A capture that takes nothing is a partial one; one that fails with an   *)
(* exception is CAPTURE_FAILED.                                            *)
settledState ==
  IF captureCall = "error" THEN "CAPTURE_FAILED"
  ELSE IF captureCall = "captured" THEN "CAPTURED" ELSE "PARTIALLY_CAPTURED"

settleCapture ==
  /\ captureCall \in {"captured", "failed", "error"}
  /\ IF ~ accepts(settledState)
     THEN captureCall' = "done" /\ UNCHANGED <<state, reference>>
     ELSE IF captureCall = "error"
     THEN captureCall' = "done" /\ state' = settledState /\ UNCHANGED reference
     ELSE /\ captureCall' = IF captureCall = "captured" THEN "writing" ELSE "writingZero"
          /\ transition(settledState, gatewayPaymentId(gateway))
  /\ UNCHANGED <<gateway, captureBooked, external, walkers, recon, touched, trouble>>

writeCaptured ==
  /\ captureCall \in {"writing", "writingZero"}
  /\ captureBooked' = (captureCall = "writing")
  /\ captureCall' = "done"
  /\ UNCHANGED <<gateway, state, reference, external, walkers, recon, touched, trouble>>

(* Voids and refunds: their first transitions and their second ones. *)
othersMove(to) ==
  /\ assertValidTransition(state, to)
  /\ state' = to
  /\ reference' = IF to \in {"REFUNDED", "PARTIALLY_REFUNDED"} THEN "refundId" ELSE reference
  /\ touched' = TRUE
  /\ UNCHANGED <<gateway, captureBooked, external, walkers, recon, captureCall, trouble>>

------------------------------------------------------------------------------
processOne(w) ==
  \/ ignoreDuplicate(w) \/ claim(w) \/ releaseMarker(w)
  \/ advance(w) \/ refused(w) \/ book(w)

Next ==
  \/ \E outcome \in Outcome, paid \in {"expected", "other"} : payerActs(outcome, paid)
  \/ \E w \in Worker : \E what \in occasions[gateway][atGateway] : receive(w, what)
  \/ \E w \in Worker : ignoreDuplicate(w) \/ claim(w) \/ releaseMarker(w)
  \/ \E v \in Visit : openCheckout(v, 1) \/ openCheckout(v, 3) \/ check(v)
  \/ \E w \in Walker : advance(w) \/ refused(w) \/ book(w) \/ statementFails(w) \/ crash(w)
  \/ \E j \in Job : findStaleTransaction(j) \/ compare(j) \/ override(j) \/ createMany(j) \/ runIsLost(j)
  \/ \E entry \in log : resolveAnomaly(entry)
  \/ initiateCapture \/ captureAnswered \/ settleCapture \/ writeCaptured
  \/ \E to \in OthersTo : othersMove(to)

Spec == Init /\ [][Next]_vars

(* Node.js runs its continuations, and the queue is drained in order: the  *)
(* last word of the gateway is not passed over for ever.                   *)
FairSpec ==
  /\ Spec
  /\ \A w \in Worker : WF_vars(processOne(w))
  /\ SF_vars(\E w \in Worker, what \in occasions[gateway][atGateway] \ {"PENDING"} :
               receive(w, what))

------------------------------------------------------------------------------
TypeOK ==
  /\ gateway \in Gateways /\ state \in TransactionState
  /\ reference \in Reference /\ captureBooked \in BOOLEAN
  /\ atGateway \in Outcome /\ amount \in {"expected", "other"}
  /\ pc \in [Walker -> {"idle", "read", "asking", "walking", "booking", "catching"}]
  /\ copy \in [Walker -> TransactionState \cup {NoRow}]
  /\ event \in [Walker -> {"none"} \cup Notice]
  /\ tries \in [Walker -> 0 .. 3]
  /\ todo \in [Walker -> Seq(TransactionState)]
  /\ run \in [Job -> [stage : {"idle", "asking", "resolvable", "resolved", "flagged", "over"},
                      from : RECONCILABLE_STATES \cup {NoRow}, asks : Reference,
                      said : StatusOf.fetchStatus \cup {"none"}]]
  /\ log \subseteq [discrepancyType : {"INTERNAL_PENDING_GATEWAY_SUCCEEDED", "STATUS_MISMATCH"},
                   internalState : RECONCILABLE_STATES \cup {NoRow},
                   gatewayState : StatusOf.fetchStatus \cup {"none"},
                   requiresReview : BOOLEAN, resolved : BOOLEAN]
  /\ overrides \subseteq TransactionState
  /\ captureCall \in {"none", "calling", "captured", "failed", "error", "writing", "writingZero", "done"}
  /\ touched \in BOOLEAN /\ cut \in BOOLEAN

(***************************************************************************)
(* What the row says of the payment is what became of it at the gateway,   *)
(* whoever said it: webhook, checkout page, reconciliation or merchant,    *)
(* each from a copy that may be old.  CAPTURED was paid, and in full as    *)
(* long as no capture of the merchant, which compares no amounts, had part *)
(* in it; AUTH_FAILED was declined, and AUTH_EXPIRED was closed, so that   *)
(* no paid payment ends in a state that nothing leads out of.              *)
(***************************************************************************)
OutcomeAgreesWithGateway ==
  /\ state = "CAPTURED" => atGateway = "paid" /\ (amount = "expected" \/ captureCall # "none")
  /\ state = "AUTH_FAILED" => atGateway = "declined"
  /\ state = "AUTH_EXPIRED" => atGateway = "closed"

(***************************************************************************)
(* A captured payment has its amount on the row, or somebody is about to   *)
(* write it.  Two ways out: a failure or crash right before the write, and *)
(* a reconciliation run that moves the row to CAPTURED, which writes none. *)
(***************************************************************************)
CaptureIsBooked ==
  state = "CAPTURED" /\ ~ captureBooked =>
    \/ \E w \in Walker : pc[w] = "booking"
    \/ captureCall = "writing"
    \/ cut \/ "CAPTURED" \in overrides

(***************************************************************************)
(* Whatever a run has overridden is in the reconciliation log as an        *)
(* automatic resolution, or will be when that run ends; only the loss of a *)
(* run, whose entries are kept in memory until its end, loses it.          *)
(***************************************************************************)
OverridesAreLogged ==
  \A to \in overrides :
    \/ \E entry \in log : ~ entry.requiresReview /\ GATEWAY_STATUS_MAP[entry.gatewayState] = to
    \/ \E j \in Job : run[j].stage = "resolved" /\ mapped(j) = to
    \/ cut

AfterCapture == {"CAPTURED", "SETTLED", "REFUND_INITIATED", "REFUND_FAILED", "REFUNDED",
                 "PARTIALLY_REFUNDED", "DISPUTE_OPENED", "DISPUTE_RESOLVED"}

(***************************************************************************)
(* architecture.md: reconciliation never starts a refund on a mismatch; it *)
(* does not touch a captured payment at all, although its answer may be    *)
(* about a state the payment has left since.                               *)
(***************************************************************************)
RunLeavesCapturedAlone ==
  [][\A j \in Job : run[j] # run'[j] /\ state \in AfterCapture => UNCHANGED state]_vars

(***************************************************************************)
(* A payer who has paid in full and is not captured yet can still be: the  *)
(* payment is in a state from which the gateway's notification leads to    *)
(* CAPTURED, and no delivery of it will be taken for a duplicate, unless a *)
(* worker has it in hand, which carries it through or gives it back.       *)
(***************************************************************************)
PaidIsNotStranded ==
  /\ atGateway = "paid" /\ amount = "expected" /\ state \notin AfterCapture
  /\ ~ touched /\ ~ cut
  => /\ state \in {"AUTH_INITIATED", "AUTHORISED", "CAPTURE_INITIATED"}
     /\ \A what \in occasions[gateway]["paid"] \ {"PENDING"} :
          extractEventId(gateway, notification(what)) \in markers =>
            \E w \in Worker : event[w] = what /\ pc[w] \in {"walking", "catching"}

(***************************************************************************)
(* A payer who has paid in full gets the payment captured, even after      *)
(* reconciliation has taken it for authorised, unless the merchant has     *)
(* captured or voided it or a crash came in between.                       *)
(***************************************************************************)
PaidIsCaptured ==
  (atGateway = "paid" /\ amount = "expected") ~> (state \in AfterCapture \/ touched \/ cut)

(***************************************************************************)
(* docs/state-machine.md: a payment becomes AUTHORISED because the gateway *)
(* says that authorisation succeeded.                                      *)
(***************************************************************************)
AuthorisedIsApproved == state = "AUTHORISED" => atGateway = "paid"
==============================================================================
