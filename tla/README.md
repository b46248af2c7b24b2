# A TLA+ model of the payment orchestration engine

The engine takes payments for merchants, routes each to one of eight gateways, and keeps a row per
payment whose `state` column moves through 23 states. HTTP requests, gateway webhooks, a
reconciliation job and the browser returning from a checkout page all move the same rows, several
processes at once. This directory models the parts of it in which an order of events nobody wrote a
test for can go wrong, checks the models with TLC on small instances, and proves the most important
properties for instances of any size with TLAPS.

Paths are relative to the repository root `src/`; the implementation is in `src/src/`.

## 1. Inventory

| Component | State | Operations | Talks to |
|---|---|---|---|
| Transaction state machine (`modules/transactions/state-machine`) | `transactions.state`; `transaction_state_log` | `transition` (row lock, duplicate, validation, update, log, commit) | everything below calls it |
| Payment initiation (`transactions.service.ts` `initiatePayment`) | the row it inserts; gateway columns | create, select a gateway, authorise, settle the outcome, mark the key | idempotency keys, router, adapters, state machine |
| Capture, refund, void (`transactions.service.ts`) | `captured_paise`, `refunded_paise`, `refunds` | read, X_INITIATED, gateway call, outcome, amount | adapters, state machine |
| Idempotency keys (`modules/idempotency`) | `idempotency_keys.status`, `transaction_id`, `expires_at` | `acquireOrReturn`, `markCompleted`, `markFailed`, `purgeExpired` | payment initiation, scheduler |
| Webhook pipeline (`modules/webhooks`) | `webhook_queue`, `processed_webhook_events`, the worker's `running` flag | `handleWebhook`, `drain`, `processOne`, `advanceTransaction`, DLQ replay | state machine |
| Reconciliation (`modules/reconciliation`) | `reconciliation_log` | `run`, `reconcileOne`, `resolveAnomaly` | adapters' `fetchStatus`, state machine |
| Circuit breaker (`modules/gateways/circuit-breaker`) | in-memory entry per gateway and method | `guardRequest`, `recordSuccess`, `recordFailure` | router, initiation |
| Gateway router (`modules/gateways/router`) | `gateway_routes` | `selectGateway` | breaker, health |
| Gateway health (`modules/gateways/health`) | sample buffer, `gateway_health_metrics` | `record`, `flush` | initiation, scheduler, router |
| Gateway adapters (`modules/gateways/adapters`) | none | `authorise`, `capture`, `refund`, `void`, `fetchStatus` | the gateways |
| Checkout (`modules/checkout`) | background verifications | `checkoutPage`, `handleReturn`, `verifyAndAdvance` | Interswitch, webhook processor |
| Auth, users, controllers, DTOs, filters | sessions, users | who may call, HTTP translation | services |

What is hard: a handler is a chain of awaits, so two handlers interleave between any two of its
steps; every chain holds a copy of the row it read first; the row's state, its amounts and the
idempotency key are written in separate database transactions; gateway calls time out after they
were carried out; webhooks overtake the answer to the call they report on; several processes run the
same timers. What makes each component correct:

* state machine: reads are isolated from other writers, the log and the row agree, lock release;
* initiation and keys: one authorisation per order and key, keys agree with payments, keys released;
* capture, refund, void: the row does not claim what the gateway did not do, no operation is left
  hanging, amounts add up;
* webhooks: each event takes effect once and is not lost; retries end; a late or early event does no
  harm;
* reconciliation: only moves along the map, never touches a captured payment, finishes what is
  stuck;
* breaker and router: an open gateway is not selected, a circuit is open when it should be, the
  stored decision explains the call, the metrics count every call once;
* adapters and checkout: a payment is never taken for paid, declined or expired when it is not.

The hazards, each at the line where it bites, are listed in `PROJECT.json`.

## 2. Modules

| Module | Models |
|---|---|
| `TransactionStates` | the states, the transition map, `assertValidTransition` |
| `TransactionLifecycle` | abstract specification: rows appear in CREATED and move along the map |
| `TransactionStateMachine` | `transition()` statement by statement; implements `TransactionLifecycle` |
| `PaymentOperations` | `capturePayment`, `refundPayment`, `voidPayment` by concurrent requests |
| `PaymentInitiation` | `initiatePayment` with idempotency keys; implements `TransactionLifecycle` |
| `EventDeduplication` | abstract specification of the dedup table: one holder at a time, never again once closed |
| `WebhookPipeline` | the webhook queue, its workers and `processOne`; implements `EventDeduplication` |
| `GatewayAdapters` | the eight adapters' operations as functions of how the call ends, the reading of each gateway's webhooks |
| `Recovery` | one hosted payment moved by webhooks, checkout pages, reconciliation runs and the merchant at once |
| `GatewayRouting` | scores, circuit breakers, health samples and configuration of one server process |
| `MC*` | instances for TLC |
| `*_proofs` | theorems and proofs about the module of the same name, seven in all |

`TransactionStateMachine` has the state of each row, its log and, per caller, the stage of its call,
its arguments and the state read under the lock. The columns `version` and `gateway_reference` are
left out: plain updates of the entity, which log nothing, write them as well
(transactions.service.ts:161, 253, 296, 389, 451, webhook-processor.service.ts:219), so that they
are no function of the log and nothing is claimed of them. Writes of an open database transaction
are invisible until `commit` applies them all; `rollback` may happen at every stage and stands for
exceptions, lost connections and dead processes. The other modules call `transition` as one atomic
step: that it may be taken for one is what `ReadStaysCurrent`, `LogIsAPath` and the refinement show.

`PaymentOperations` follows the handlers: `receive` is `findOrThrow`, `initiate` or `refuse` the
first `transition`, `gatewayExecutes` or `gatewayDeclines` the adapter call, `settleError` the catch
block, `settleAnswer` or `settleRefused` the second `transition`, `writeCaptured`, `writeRefunded`
and `insertRefund` the writes after it. `crash` may end a request between any two. The variables
`gwCaptured`, `gwRefunded`, `gwVoided` and `executed` are the gateway's own books and are read by no
action: properties compare the row with them. `receive` copies `refundedPaise`, because
`refundPayment` computes the new total from the entity it read first; as `pg` returns BIGINT columns
as strings, `+` concatenates there, which `appendedTo` models.

`PaymentInitiation` names a row after the request that inserts it. `lookUpKey` takes the advisory
lock and reads the key, `acquireKey`, `conflictKey` and `replayKey` end that database transaction;
`create` and `createRefused` meet the two unique indexes of migration 001; the rest follows
`initiatePayment` await by await. `advanceTransaction` is what webhooks, the checkout page and
reconciliation do to the row meanwhile, along any edge of the map into a state they report, as
reports may be late, early or stale; `operate` is what the merchant's captures, voids and refunds do
to it. `purgeExpired` removes keys older than a
day; no handler runs that long, so it does not take a key from a running owner.

`WebhookPipeline` is about one payment and any number of notifications, each delivered by one or
more rows of `webhook_queue`. `fetchDue` and `drained` are the worker's `drain`, one per server
process; `markProcessing` to `markCompleted` follow `processOne` await by await, `releaseMarker` and
`markFailed` are its catch block. What a payload means (`resolveTransition`, the amount check, the
transaction it names) is an input drawn from `Effects`, fixed per event. `othersMove` is any other
writer of the row. `statementFails` is an exception inside the try block, before the statement has
an effect; `drainEnds` an exception outside it or the death of the process, after which the worker
polls again with empty hands. `handled` and `abandoned` are history variables and guard nothing. In
the refinement the holder of an event is the worker whose `claimedDedupMarker` is set, and an event
is closed when its marker has no holder.

`GatewayAdapters` has no variables. An operation is a function whose domain is the ways its call may
end: a word in the answer's body, or one of `NoAnswer`. `extractEventId` to `resolveTransition` are
the readings that the webhook controller and processor make of a notification, as functions of what
the notification carries.

`Recovery` composes what the other modules treat apart. The payment waits in AUTH_INITIATED at the
page of one of the four hosted gateways (`Gateways`); `payerActs` decides its outcome there, once,
and `words`, `occasions` give what the gateway then answers and notifies. A worker goes through
`receive`, `claim`, `advance`, `book`, which is `processOne` from the reading of the row on (the
queue around it is `WebhookPipeline`'s subject); a browser through `openCheckout`, `check`,
`advance`, `book`, which is `verifyAndAdvance`; a run through `findStaleTransaction`, `compare`,
`override`, `createMany`, which is `run` with `reconcileOne`; the merchant through `initiateCapture`
to `writeCaptured` and `othersMove`. Every one of them keeps a copy of what it read first, and only
`accepts` looks at the row again, as `transition()` does. `reference` holds whose name is in
`gatewayReference`: each event overwrites it, and the poll goes out with it. `overrides` is what the
state machine's log has of reconciliation; `touched` and `cut` are history variables and guard
nothing.

`GatewayRouting` is one server process, as breakers and sample buffer are per process, and one
payment method and currency. A request reads the weights and metrics (`readMetrics`, one step, as
the two tables change independently of each other), scores the gateways (`score`: from the list of
enabled gateways on the code awaits nothing), stores the decision, moves the row, calls, and
reports. `answered` is everything after the answer, which runs without an await. `flush` is three
steps, because the table is written between the reading of the buffer and its clearing. That the
timeout of an open circuit elapses is an action (`timeoutElapses`) and a field of the entry that no
action of the router reads. Scores are
whole numbers with denominator `Scale`, so that rates of up to six samples are exact; below twenty
samples the 95th percentile of the code is the slowest one. `streak`, `earned`, `straggler` and
`unlucky` are history variables and guard nothing.

Lines marked "Faulty variant" define changed operators that no specification uses. Each stands for a
plausible bug; with the variant in place of the original, TLC finds the named property violated,
which shows that the property depends on the code being as it is.

Left out of the data: amounts are small numbers, references and payloads are either absent or
present, timestamps are order only. In `PaymentOperations` and `PaymentInitiation` the adapters are
their interface: any call may throw, or answer with one of the statuses of `gateway.interface.ts`.
`partially_captured` is left out because no adapter answers it and `capturePayment` does not read
the status.

## 3. Runs

| Run | Instance | Shows |
|---|---|---|
| `state_machine` | 1 row, 2 callers, 7 transitions | read isolation; log is a path; the row is where the log ends; implements the lifecycle; no way back to before a capture or an authorisation; a waiting call returns |
| `operations` | 3 concurrent requests, amounts 1 and 2 of 2, any status, lost answers, crashes | the row's claims and amounts are backed by the gateway's books, but for what was answered `failed` by status; success reports are real and no refund without capture, with the same exception; an X_INITIATED row has a request that will leave it, but for crashes and failed voids; a lone refund is booked everywhere |
| `initiation` | 3 requests with 1 key for 2 orders, webhooks, reconciliation, merchant, crashes, purges | one authorisation per order and per key, one owner per key, keys agree with payments, a payment whose gateway was asked is named and past routing, clients of one order are shown the same payment; rows follow the lifecycle; no key stays PROCESSING for ever |
| `webhooks` | 1 event, 2 deliveries, 2 processes, 2 attempts, 1 disturbance | an event is processed by one process and never again; no marker and no PROCESSING entry is orphaned but by a cut-off process; an amount is booked on captured payments only; implements the dedup table; every entry ends COMPLETED or DLQ unless a process was cut off while it had it |
| `recovery` | each of 4 gateways, 1 worker, 1 page, 1 run, 1 capture, voids and refunds, 1 disturbance | the row's outcome is the gateway's, whoever wrote it; a captured payment has its amount; overrides are in the reconciliation log; a run does not move a captured payment; a paid payment stays within reach of its notification, and gets captured |
| `routing` | 2 gateways, 3 requests, 2 overlapping flushes, 2 thresholds, 2 weightings, 1 configuration change or restart | a circuit opens exactly when failures have earned it and no late success closes it; only requests on their way call an open gateway; the stored decision explains the call; samples are lost in two named ways only |

Bounds. `MaxTransitions` bounds the log of a row: CAPTURED is the fifth entry of the
shortest path to it, so that with seven, calls begin on captured rows, and on refunds
and disputes of them. Two callers suffice for the state
machine because all conflicts are over one lock between a holder and a waiter; the proofs cover any
number. Three requests are what a double click plus a retry need, and let two requests be inside the
same operation while a third moves the row. Amounts 1 and 2 of 2 give full, partial and excessive
captures. `MaxLive` is the number of requests in progress at once, 1 in the runs whose violation
needs no concurrency.

In `webhooks` `MaxDisturbances` counts failing statements, cut-off processes and replayed entries
together: one of them, on top of the failures that need none (a wrong amount in every attempt, a row
moved by `othersMove` to where the worker's path is refused, or on from CAPTURED), already lets an
attempt fail on one process while the other holds the same entry, or an entry be replayed while it
is processed. `maxRetries` is 3 in `markFailedWithRetry`; 2 gives a first, a repeated and a last
attempt their turn. One event is enough because events meet only in the marker of their own
(gateway, event id), which the proofs confirm for any number. `findDue`'s limit of 50 is left out:
what is not fetched in one poll is in the next.

In `initiation` the three requests share a key and use it for two orders: keys meet only through an
order, and that two keys with one order are authorised once is `PaymentIsAuthorisedOnce`, proved for
any number of both. The reuse for two orders is what lets a replay meet a key of another order.

In `recovery` one of each party is enough for every pair of parties to race, and the worker comes
back for each notification, so that its marker meets later ones; a failing statement or a crash
costs a disturbance, refused transitions, lost answers and unconfigured gateways cost none.
`OthersTo` = {VOID_INITIATED, REFUND_INITIATED} takes the row away from the walkers in the
authorised and in the captured state. An instance with two runs and four states in `OthersTo` has
16.8 million states and was checked for the invariants without an error; any number of parties is
covered by the proofs.

In `routing` the thresholds 1 and 2 with three requests let a circuit open at once, after two
failures, or not at all because of a success in between; a threshold may change while a request is
under way. Requests and flushes are interchangeable, and no property of the run is temporal, so
symmetry is sound. `Latency` has one value: with {0, 1} the run has 10.8 million states and passes
as well. `degradedSkipThreshold` and `halfOpenRequests` matter to half-open circuits only, which do
not occur.

Deadlock checking is off in every run: each of these systems stops when the finite set of requests
is used up or a payment is in a terminal state.

Fairness. `state_machine`: PostgreSQL runs the statements of an open transaction to an end (weak
fairness of each step) and queues the waiters of a row lock (strong fairness of `lockRow`, which
other callers disable again and again). `initiation`: a handler's next step is taken because Node.js
runs its continuation and each gateway call ends with the adapter's timeout (weak fairness of
`step`), and the purge runs every six hours (weak fairness of `purgeExpired`). A crash is never
assumed nor excluded. `webhooks`: every worker polls each two seconds and Node.js runs its
continuations (weak fairness of `step`), and time passes (weak fairness of `backoffElapses`);
deliveries, replays and failures are not fair. `recovery`: a worker that holds a notification goes
on (weak fairness of `processOne`), and the gateway's last word is not passed over for ever in
favour of other notifications (strong fairness of receiving one that is not a mere "pending": the
queue is drained in order of arrival and gateways repeat what is not acknowledged). Checkout pages,
runs, the payer and the merchant may do nothing.

## 4. Disagreements between code and its documents

Six runs expect a violation, each of one property that quotes the repository; `PROJECT.json` lists
the quotes under `findings`.

| Run | What the trace shows |
|---|---|
| `refund_key` | a refund whose answer was lost is repeated with its key and carried out twice |
| `soft_failure` | a refund or void answered with `failed` is booked as REFUNDED or VOIDED |
| `retry_after_failure` | a FAILED key cannot be used again, the unique indexes refuse the second row |
| `webhook_lost` | a process dies after the dedup marker is committed; its entry stays PROCESSING, which `findDue` does not fetch, and the gateway's second delivery is completed as a duplicate |
| `recovery_authorised` | Interswitch's status query answers `authorised` for a payment nobody has begun to pay, and a reconciliation run moves the row to AUTHORISED |
| `circuit_stays_open` | the timeout of the only gateway's open circuit has elapsed, and a payment is still turned away |

The models contain more such behaviours, which no property of a passing run denies:

* `transition()` accepts a row that is in the target state already, so of two concurrent captures
  both reach the gateway (`initiate` of `PaymentOperations`), whereas architecture.md promises
  "absolute idempotency across retries";
* `capturePayment` compares the amount of the call, not the total, with the amount of the payment
  (transactions.service.ts:376), so that capturing the remainder ends in PARTIALLY_CAPTURED again and
  `capturedPaise` holds the remainder, whereas fs-05-partial-capture.spec.ts:91 expects CAPTURED
  (`settledState` and `writeCaptured` of `PaymentOperations`);
* no adapter answers `partially_refunded`, so a partial refund ends in REFUNDED, which is terminal;
* a request with a COMPLETED key is answered with the payment of its order, not of the key
  (`replayKey` and `alreadyStored` of `PaymentInitiation`);
* without an available gateway the key is left PROCESSING until the purge;
* with two processes ("load-balanced server instances", architecture.md:193) no crash is needed to
  lose an event: both fetch the entry, one fails and marks it FAILED for a retry, the other, which
  met the marker meanwhile, marks the same entry COMPLETED;
* an event whose state cannot be reached yet, or no more (a success after AUTH_TIMEOUT), is
  completed with its marker and never looked at again (`insertMarker` with an empty path);
* when the UPDATE of `capturedPaise` fails after the transition to CAPTURED, the retry finds no
  path, completes, and the amount stays unbooked (`bookCapture`);
* the event ids of PayU and UPI do not contain the status, so a second notification of the same
  payment is a duplicate of the first;
* a void that fails parks the payment in CAPTURE_INITIATED although nobody captures it.

Of reconciliation and checkout (`Recovery`):

* a run only ever overrides to AUTHORISED, AUTH_EXPIRED or CAPTURED. AUTH_INITIATED has no edge to
  CAPTURED, so a paid payment whose webhook was lost is flagged in each run and not resolved,
  although docs/DEPLOYMENT.md:35 names that poll as the other way to completion; `PaidIsCaptured`
  holds because of the webhook and fails without its fairness;
* once a run has taken a payment for AUTHORISED, the checkout page does not verify it any more
  (`openCheckout` wants AUTH_INITIATED), so that its completion then does depend on the webhook,
  which the header of `checkout.controller.ts` denies;
* an override to CAPTURED books no `capturedPaise` (the last disjunct of `CaptureIsBooked`);
* a merchant's capture of an AUTHORISED payment that nobody paid is answered `failed` and ends in
  PARTIALLY_CAPTURED with zero captured, from where it may be refunded; a merchant's capture
  compares no amounts;
* a crash after the first step of a walk leaves the row AUTHORISED, which no run looks at;
* the critical branch for payments captured here and failed there is never reached, as runs look at
  four other states only (`TypeOK` of `Recovery` says that its discrepancy type is never logged);
  the `internalState` of a log entry is the state read before the poll, and two runs may both log
  one override;
* Opay's status query sends `gatewayReference` under the field `orderNo`, where Opay's own number of
  the order is meant: that column holds the merchant's reference, and later the id of the last event.

Of breakers and routing (`GatewayRouting`):

* `guardRequest` is never called, although its comment (circuit-breaker.service.ts:31) says that the
  router does and docs/architecture.md:103 has HALF-OPEN follow OPEN: nothing takes an OPEN circuit to HALF_OPEN, and
  a gateway that has failed is out until the process restarts (the run `circuit_stays_open`). What
  `OpensWhenEarned` says of closing, that no late success does it, would hold with probes as well;
* samples that arrive while a flush awaits the database are lost (`unlucky`), and flushes that
  overlap count the same samples twice;
* a change of configuration reaches one process, and of two changes that overlap the older reading
  may stay in memory.

## 5. Proofs

TLAPS checks these for all values of the constants that satisfy the modules' `ASSUME`s.

* `TransactionStateMachine_proofs`: type correctness, `ReadIsIsolated`, `AuditLogIsAPath`,
  `RowAgreesWithLog`, `StateMachineRefinesLifecycle`, `ThereIsNoWayBack`, `LocksHaveHolders`. The
  inductive invariant says that a caller past `lockRow` owns the lock of its row, that a lock has
  one owner and that such an owner's `fromState` is the committed state. Without the ownership part
  the isolation is not inductive, and with it every `commit` extends the log by an edge that begins
  where the log ended. Refinement: `create` maps to `create`, `commit` to `move`, every other step
  to a stutter. `ThereIsNoWayBack` adds that two named sets of states are closed under the edges of
  the map. `LocksHaveHolders` is the converse of the ownership part (`HolderInv`): a locked row has
  a caller inside its transaction on it, so no lock is orphaned and, as a waiting caller holds none,
  callers never wait for each other in a circle. It is the safety half of `EveryCallReturns`.
* `GatewayAdapters_proofs`: facts about the functions of `GatewayAdapters`, without a state.
  `AnswersAreDeclared` is what `PaymentOperations` and `PaymentInitiation` assume of `Answers` (and
  why they leave `partially_captured` out), `SilenceIsThrown` that a call without an answer never
  returns a status, `CapturedIsTheGatewaysWord` that only the gateway's own word reads as money
  taken. The argument is one lemma on `overHttp` and one on the shape of each hosted operation.
* `PaymentOperations_proofs`: `RowClaimsAreBacked`, `RowAmountsAreBacked`, `RefundsNeedCaptures`,
  `ReportedSuccessIsReal`, `LoneRefundsAreBooked`, type correctness and `NoOperationIsOrphaned`, for
  any adapter: an exception is made only for an operation that was answered `failed` by status
  (`FailedByStatus`), which the `soft_failure` run shows to be needed. The strengthening says what a
  request knows that has its answer: it was executed and its amount is within the gateway's total,
  or its adapter said `failed` (`AnswerInv`); a refund on its way presupposes a capture (`CallInv`).
  Both survive interference because the gateway's books only grow and an answer, once given, stays
  (`FailuresStay`). Type correctness and the lone refund need that a refund to be booked read "0" as
  the total, as a refunded row is terminal (`RefundedInv`); `NoOperationIsOrphaned` that both
  outcomes of an operation are edges from its X_INITIATED (`InitiatedIsLeft`).
* `PaymentInitiation_proofs`: type correctness, `PaymentIsAuthorisedOnce`, `KeyHasOneOwner`,
  `KeysAgreeWithPayments`, `AskedGatewaysAreNamed`, `ClientsAreToldTheSame`,
  `InitiationRefinesLifecycle`. The invariant relates a request's program counter to its row and its
  key: an owner's key is PROCESSING, the row of a request past `create` is stored, and two stored
  rows differ in key and order; a request that asked a gateway has its row stored. `BookInv`, on top
  of it, follows a payment from the naming of its gateway to the completed key: its row is past
  routing, and where the client was told authorised it has been through AUTHORISED, behind which the
  map has no way back to a declined or unrouted payment, whoever moves the row (`OutsideMoves`,
  `OutsideInv`, `OutsideBook`). `AskedInv` carries the routing part beyond the end, or the crash, of
  the request; `ReplyInv` with `RowsStay`, that a row and its order stay as they were stored, makes
  a reply given once right for ever, and the unique order makes two replies the same.
* `WebhookPipeline_proofs`: type correctness with the bound on retries, `EventHandledOnce`,
  `NothingOrphaned`, `BookingsAreCaptures`, `PipelineImplementsDeduplication`. The invariant says
  that every copy of an entry a worker holds has attempts left (so that the count never passes the
  limit although it is computed from the copy), at which stages a claim may be held, and that a
  claim is exclusive, has its marker and is for an event nobody has finished. As far as claims go
  every step keeps them, makes one, gives one back or closes one (`StepClaims`); these four are the
  four cases of the safety proofs and of the refinement. `BookingInv` keeps what is left of a path
  to CAPTURED a tail of the path there: `transition()` accepts only a state that the row reaches by
  an edge, so a worker that arrives at the booking has made, or found made, the last step, and the
  row does not leave the captured states any more.
* `Recovery_proofs`: type correctness, `OutcomeIsTrue`, `CapturesAreBooked`, `OverridesLeaveALog`,
  `RunsLeaveCapturedAlone`, `PaidIsWithinReach`. The first part is about the adapters: of the four
  hosted gateways no status query says captured or expired, and no notification stands for CAPTURED,
  AUTH_FAILED or AUTH_EXPIRED, of a payment that is not (`StatusIsTrue`, `CaptureIsTrue`,
  `NotificationIsTrue`). The invariant carries that knowledge through the awaits: what a walker has
  still to walk is a path of the map that ends in the true outcome (`WalkerInv`), a capture that was
  answered `captured` was paid and a run that holds `captured` or `expired` holds the truth
  (`RowInv`, `RunInv`). It relies on the outcome at the gateway being final. `ZeroInv` says that a
  capture answered with nothing does not overwrite an amount that was booked. `PaidIsWithinReach` is
  the safety half of `PaidIsCaptured`: until the merchant has a hand in it or something is cut
  short, all that moves the row leads towards CAPTURED (`OnTheWay`), and the notification of the
  payment has a marker only while a worker carries it through or is about to give it back
  (`WordNotLost`), because no other notification has its event id (`EventIds`) and none comes before
  the payment (`UnpaidWords`).
* `GatewayRouting_proofs`: type correctness, `CircuitsOpenWhenEarned`, `OpenGatewaysGetStragglers`,
  `RoutesAreRecorded`, `SamplesAreCounted`. `BreakerInv` adds that a closed circuit's count is the
  number of failures in a row, whatever threshold they are compared with; `RequestInv` that a
  request on its way has selected a best gateway and has its decision stored before it calls;
  `SampleInv` that a sample's count and the flushes still to count it are together at most the
  number of flushes, which needs `Counting` and `Counted`, the flushes before and after their save.

Only model-checked: liveness (`EveryCallReturns`, `KeyIsReleased`, `EntrySettles`, `PaidIsCaptured`;
fairness is outside the prover). Every invariant, every action property and every refinement that a
passing run checks is proved, under the modules' `ASSUME`s only.

## 6. Assumptions and limits

`Recovery` assumes that the outcome at the gateway is final (no dispute, no reversal by the
gateway), that a gateway's "abandoned" is a page the payer has closed for good, and that the
merchant asks for one capture; several captures and refunds are the subject of `PaymentOperations`.
That a row has to be some minutes old before a run looks at it is left out, so the model has more
races than the system, never fewer. A run is one-shot: what one finds out it does not hand to the
next, and with one run in the instance two runs that override the same payment do not meet there;
the proofs allow any number. `PaidIsCaptured` assumes that the notification of a payment arrives.
Metrics never leave the window in `GatewayRouting`. The columns `version` and `gateway_reference`
are outside `TransactionStateMachine`.

Not modelled: authentication and user management (who may call; no state of a payment depends on
them), webhook signatures (a comparison of one request with a secret, without state), the
controllers and DTOs (translation between HTTP and the services), and the pages of the checkout. A
second payment method or currency, and a second process, would repeat `GatewayRouting` without a
variable in common but the tables of metrics and configuration. `guardRequest` of the breaker and
`getNormalisationBounds` of the health service have no caller.
