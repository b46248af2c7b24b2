--------------------------- MODULE PaymentInitiation -------------------------
(***************************************************************************)
(* initiatePayment of TransactionsService with the idempotency keys of     *)
(* IdempotencyService: concurrent requests of one merchant, which may      *)
(* repeat a key, repeat an order under another key, or die half way.       *)
(*                                                                         *)
(*   advisory lock on the key -> look the key up -> PROCESSING             *)
(*     -> insert the row -> select a gateway -> authorise                  *)
(*     -> transition to the outcome -> mark the key                        *)
(*                                                                         *)
(* The row a request inserts is named after the request.  Meanwhile        *)
(* webhooks, reconciliation and the merchant's captures, voids and refunds *)
(* move the row along, and a scheduled job purges expired keys.             *)
(* transition() is one atomic step (see TransactionStateMachine).          *)
(***************************************************************************)
EXTENDS TransactionStates

CONSTANTS
  Request,     \* POST /payments requests; a retry or a double click is a new one
  Key,         \* idempotency keys
  Order,       \* merchant order ids
  OrdersOf,    \* OrdersOf[k]: the orders for which clients use key k
  Answers,     \* statuses with which adapters answer authorise()
  Crashes,     \* may a request die with its process?
  NoRequest    \* no row: a key or a reply that names none

ASSUME InitiationAssumption ==
  /\ OrdersOf \in [Key -> SUBSET Order]
  /\ Answers \subseteq {"authorised", "declined", "pending"}
  /\ Crashes \in BOOLEAN
  /\ NoRequest \notin Request

VARIABLES
  keyStatus,      \* the idempotency_keys table: status and transactionId
  keyTxn,
  state,          \* state[r]: the row that request r inserted
  named,          \* rows whose gateway column is written
  referenced,     \* rows whose gateway references are written
  asked,          \* requests whose authorise() call reached a gateway
  pc,             \* how far each request has got
  args,           \* its key and order
  seen,           \* the key's status as read under the advisory lock
  answer,         \* what authorise() returned or threw
  reply           \* the row the client is shown

keys  == <<keyStatus, keyTxn>>
rows  == <<state, named, referenced>>
local == <<args, seen, answer, reply>>
vars  == <<keys, rows, asked, pc, local>>

KeyStatus == {"NONE", "PROCESSING", "COMPLETED", "FAILED"}

(* From the insertion of the key to its marking a request owns the key. *)
Owning == {"acquired", "created", "unrouted", "routed", "initiated", "calling",
           "answered", "unreferenced", "completing", "failing"}

Live == {"waiting", "locked", "replaying"} \cup Owning

Done == {"succeeded", "failed", "conflict", "duplicate", "crashed"}

Args == {[key |-> k, order |-> o] : k \in Key, o \in Order}

NoArgs == [key |-> "none"]

Init ==
  /\ keyStatus = [k \in Key |-> "NONE"]
  /\ keyTxn = [k \in Key |-> NoRequest]
  /\ state = [r \in Request |-> NoRow]
  /\ named = {} /\ referenced = {} /\ asked = {}
  /\ pc = [r \in Request |-> "new"]
  /\ args = [r \in Request |-> NoArgs]
  /\ seen = [r \in Request |-> "NONE"]
  /\ answer = [r \in Request |-> "none"]
  /\ reply = [r \in Request |-> NoRequest]

accepts(r, to) == state[r] = to \/ assertValidTransition(state[r], to)

go(r, where) == pc' = [pc EXCEPT ![r] = where]

(* A call of transition() that succeeds. *)
transition(r, to) == accepts(r, to) /\ state' = [state EXCEPT ![r] = to]

(* One that moves the row, where transition() also succeeds on a duplicate. *)
moveAlong(r, to) ==
  /\ assertValidTransition(state[r], to)
  /\ state' = [state EXCEPT ![r] = to]

------------------------------------------------------------------------------
receive(r) ==
  /\ pc[r] = "new"
  /\ \E k \in Key : \E o \in OrdersOf[k] :
       args' = [args EXCEPT ![r] = [key |-> k, order |-> o]]
  /\ go(r, "waiting")
  /\ UNCHANGED <<keys, rows, asked, seen, answer, reply>>

\* Faulty variant: no advisory lock.
neverLocked(k) == FALSE

(* pg_advisory_xact_lock(merchant:key) is held by an open transaction. *)
advisoryLocked(k) == \E q \in Request : pc[q] = "locked" /\ args[q].key = k

lookUpKey(r) ==
  /\ pc[r] = "waiting"
  /\ ~ advisoryLocked(args[r].key)
  /\ seen' = [seen EXCEPT ![r] = keyStatus[args[r].key]]
  /\ go(r, "locked")
  /\ UNCHANGED <<keys, rows, asked, args, answer, reply>>

(* COMPLETED: the transaction ends without a write. *)
replayKey(r) ==
  /\ pc[r] = "locked" /\ seen[r] = "COMPLETED"
  /\ go(r, "replaying")
  /\ UNCHANGED <<keys, rows, asked, local>>

(* INSERT ... ON CONFLICT DO NOTHING finds no row of the key: none was     *)
(* there, or the FAILED one was deleted just before.                       *)
canInsertKey(r) == seen[r] = "FAILED" \/ keyStatus[args[r].key] = "NONE"

conflictKey(r) ==
  /\ pc[r] = "locked"
  /\ seen[r] # "COMPLETED"
  /\ seen[r] = "PROCESSING" \/ ~ canInsertKey(r)
  /\ go(r, "conflict")
  /\ UNCHANGED <<keys, rows, asked, local>>

acquireKey(r) ==
  /\ pc[r] = "locked"
  /\ seen[r] \in {"NONE", "FAILED"}
  /\ canInsertKey(r)
  /\ keyStatus' = [keyStatus EXCEPT ![args[r].key] = "PROCESSING"]
  /\ keyTxn' = [keyTxn EXCEPT ![args[r].key] = NoRequest]
  /\ go(r, "acquired")
  /\ UNCHANGED <<rows, asked, local>>

Stored(q) == state[q] # NoRow

\* Faulty variant: the payment that the key names is returned.
replayCached(r) ==
  /\ pc[r] = "replaying"
  /\ keyTxn[args[r].key] # NoRequest
  /\ reply' = [reply EXCEPT ![r] = keyTxn[args[r].key]]
  /\ go(r, "succeeded")
  /\ UNCHANGED <<keys, rows, asked, args, seen, answer>>

(* The cached response is not what is returned: the row of the order is. *)
replayOrder(r) ==
  /\ pc[r] = "replaying"
  /\ \E q \in Request :
       /\ Stored(q) /\ args[q].order = args[r].order
       /\ reply' = [reply EXCEPT ![r] = q]
  /\ go(r, "succeeded")
  /\ UNCHANGED <<keys, rows, asked, args, seen, answer>>

\* Faulty variant: the migration creates neither of its unique indexes.
neverStored(r) == FALSE

(* The two unique constraints of the transactions table. *)
alreadyStored(r) ==
  \E q \in Request :
    Stored(q) /\ (args[q].key = args[r].key \/ args[q].order = args[r].order)

(* A replay whose order has no row goes on to insert one, like an owner. *)
inserts(r) ==
  \/ pc[r] = "acquired"
  \/ /\ pc[r] = "replaying"
     /\ \A q \in Request : Stored(q) => args[q].order # args[r].order

create(r) ==
  /\ inserts(r)
  /\ ~ alreadyStored(r)
  /\ state' = [state EXCEPT ![r] = "CREATED"]
  /\ go(r, "created")
  /\ UNCHANGED <<keys, named, referenced, asked, local>>

(* The constraint violation is thrown before the handler's try block. *)
createRefused(r) ==
  /\ inserts(r)
  /\ alreadyStored(r)
  /\ go(r, "duplicate")
  /\ UNCHANGED <<keys, rows, asked, local>>

(* selectGateway throws: the row goes through ROUTE_SELECTED all the same. *)
noGateway(r) ==
  /\ pc[r] = "created"
  /\ transition(r, "ROUTE_SELECTED")
  /\ go(r, "unrouted")
  /\ UNCHANGED <<keys, named, referenced, asked, local>>

routeFailed(r) ==
  /\ pc[r] = "unrouted"
  /\ transition(r, "ROUTE_FAILED")
  /\ go(r, "failed")
  /\ UNCHANGED <<keys, named, referenced, asked, local>>

\* Faulty variant: the row goes to AUTH_INITIATED in one step.
gatewaySelectedAtOnce(r) ==
  /\ pc[r] = "created"
  /\ state' = [state EXCEPT ![r] = "AUTH_INITIATED"]
  /\ go(r, "initiated")
  /\ UNCHANGED <<keys, named, referenced, asked, local>>

gatewaySelected(r) ==
  /\ pc[r] = "created"
  /\ transition(r, "ROUTE_SELECTED")
  /\ go(r, "routed")
  /\ UNCHANGED <<keys, named, referenced, asked, local>>

authInitiated(r) ==
  /\ pc[r] = "routed"
  /\ transition(r, "AUTH_INITIATED")
  /\ go(r, "initiated")
  /\ UNCHANGED <<keys, named, referenced, asked, local>>

\* Faulty variant: the update is not awaited, and lost.
nameGatewayLater(r) ==
  /\ pc[r] = "initiated"
  /\ go(r, "calling")
  /\ UNCHANGED <<keys, rows, asked, local>>

nameGateway(r) ==
  /\ pc[r] = "initiated"
  /\ named' = named \cup {r}
  /\ go(r, "calling")
  /\ UNCHANGED <<keys, state, referenced, asked, local>>

------------------------------------------------------------------------------
(* authorise() reaches the gateway, which authorises, declines or sends    *)
(* the customer to its own page; its answer arrives or is lost.            *)
authorise(r) ==
  /\ pc[r] = "calling"
  /\ asked' = asked \cup {r}
  /\ \E a \in {"timeout", "error"} \cup Answers : answer' = [answer EXCEPT ![r] = a]
  /\ go(r, "answered")
  /\ UNCHANGED <<keys, rows, args, seen, reply>>

ReportedStates ==
  {"AUTHORISED", "CAPTURE_INITIATED", "CAPTURED", "AUTH_FAILED", "AUTH_EXPIRED",
   "REFUNDED", "DISPUTE_OPENED"}

(* What webhooks report of a payment moves its row, one step of the walk   *)
(* at a time, and each step writes the reference of the report.  Reports   *)
(* come early, late, stale and out of order, so that any may come.  The    *)
(* checkout page walks the same way, and reconciliation, which asks for    *)
(* rows that have a reference already, moves them no other way.            *)
advanceTransaction(r) ==
  /\ r \in asked
  /\ \E to \in ReportedStates : moveAlong(r, to)
  /\ referenced' = referenced \cup {r}
  /\ UNCHANGED <<keys, named, asked, pc, local>>

OperationStates ==
  {"CAPTURE_INITIATED", "CAPTURED", "PARTIALLY_CAPTURED", "CAPTURE_FAILED",
   "VOID_INITIATED", "VOIDED",
   "REFUND_INITIATED", "REFUNDED", "PARTIALLY_REFUNDED", "REFUND_FAILED"}

(* The merchant captures, voids or refunds (see PaymentOperations). *)
operate(r) ==
  /\ \E to \in OperationStates : moveAlong(r, to)
  /\ UNCHANGED <<keys, named, referenced, asked, pc, local>>

------------------------------------------------------------------------------
Unsuccessful == {"timeout", "error", "declined"}

failureState(r) == IF answer[r] = "timeout" THEN "AUTH_TIMEOUT" ELSE "AUTH_FAILED"

\* Faulty variant: a refused transition is logged and ignored.
failAuthorisationAnyway(r) ==
  /\ pc[r] = "answered" /\ answer[r] \in Unsuccessful
  /\ state' = IF accepts(r, failureState(r)) THEN [state EXCEPT ![r] = failureState(r)] ELSE state
  /\ go(r, "failing")
  /\ UNCHANGED <<keys, named, referenced, asked, local>>

(* A declined answer carries a reference, an exception does not. *)
failAuthorisation(r) ==
  /\ pc[r] = "answered" /\ answer[r] \in Unsuccessful
  /\ transition(r, failureState(r))
  /\ referenced' = IF answer[r] = "declined" THEN referenced \cup {r} ELSE referenced
  /\ go(r, "failing")
  /\ UNCHANGED <<keys, named, asked, local>>

pendingAuthorisation(r) ==
  /\ pc[r] = "answered" /\ answer[r] = "pending"
  /\ referenced' = referenced \cup {r}
  /\ go(r, "completing")
  /\ UNCHANGED <<keys, state, named, asked, local>>

\* Faulty variant: the key is marked before the state is written.
completeAuthorisationUnchecked(r) ==
  /\ pc[r] = "answered" /\ answer[r] = "authorised"
  /\ go(r, "unreferenced")
  /\ UNCHANGED <<keys, rows, asked, local>>

completeAuthorisation(r) ==
  /\ pc[r] = "answered" /\ answer[r] = "authorised"
  /\ transition(r, "AUTHORISED")
  /\ referenced' = referenced \cup {r}
  /\ go(r, "unreferenced")
  /\ UNCHANGED <<keys, named, asked, local>>

updateReferences(r) ==
  /\ pc[r] = "unreferenced"
  /\ referenced' = referenced \cup {r}
  /\ go(r, "completing")
  /\ UNCHANGED <<keys, state, named, asked, local>>

(* A webhook was faster and the transition throws: the key is not marked. *)
outcomeRefused(r) ==
  /\ pc[r] = "answered"
  /\ \/ answer[r] \in Unsuccessful /\ ~ accepts(r, failureState(r))
     \/ answer[r] = "authorised" /\ ~ accepts(r, "AUTHORISED")
  /\ go(r, "failed")
  /\ UNCHANGED <<keys, rows, asked, local>>

(* UPDATE ... WHERE key: nothing happens to a key that was purged. *)
markedAs(k, status) ==
  IF keyStatus[k] = "NONE" THEN keyStatus ELSE [keyStatus EXCEPT ![k] = status]

markFailed(r) ==
  /\ pc[r] = "failing"
  /\ keyStatus' = markedAs(args[r].key, "FAILED")
  /\ go(r, "failed")
  /\ UNCHANGED <<keyTxn, rows, asked, local>>

markCompleted(r) ==
  LET k == args[r].key IN
  /\ pc[r] = "completing"
  /\ keyStatus' = markedAs(k, "COMPLETED")
  /\ keyTxn' = IF keyStatus[k] = "NONE" THEN keyTxn ELSE [keyTxn EXCEPT ![k] = r]
  /\ reply' = [reply EXCEPT ![r] = r]
  /\ go(r, "succeeded")
  /\ UNCHANGED <<rows, asked, args, seen, answer>>

(* The process dies; an open transaction and its advisory lock go with it. *)
crash(r) ==
  /\ Crashes
  /\ pc[r] \in Live
  /\ go(r, "crashed")
  /\ UNCHANGED <<keys, rows, asked, local>>

\* Faulty variant: the job cleans up failed keys only.
purgeFailed(k) ==
  /\ keyStatus[k] = "FAILED"
  /\ \A r \in Request : pc[r] \in Owning => args[r].key # k
  /\ keyStatus' = [keyStatus EXCEPT ![k] = "NONE"]
  /\ keyTxn' = [keyTxn EXCEPT ![k] = NoRequest]
  /\ UNCHANGED <<rows, asked, pc, local>>

\* Faulty variant: expired keys get a status of their own.
purgeSoftly(k) ==
  /\ keyStatus[k] \in {"PROCESSING", "FAILED"}
  /\ \A r \in Request : pc[r] \in Owning => args[r].key # k
  /\ keyStatus' = [keyStatus EXCEPT ![k] = "EXPIRED"]
  /\ UNCHANGED <<keyTxn, rows, asked, pc, local>>

(* A key expires after 24 hours: no request that owns it is running still. *)
purgeExpired(k) ==
  /\ keyStatus[k] \in {"PROCESSING", "FAILED"}
  /\ \A r \in Request : pc[r] \in Owning => args[r].key # k
  /\ keyStatus' = [keyStatus EXCEPT ![k] = "NONE"]
  /\ keyTxn' = [keyTxn EXCEPT ![k] = NoRequest]
  /\ UNCHANGED <<rows, asked, pc, local>>

(* What the handler of a request does next by itself. *)
step(r) ==
  \/ lookUpKey(r) \/ replayKey(r) \/ conflictKey(r) \/ acquireKey(r)
  \/ replayOrder(r) \/ create(r) \/ createRefused(r)
  \/ noGateway(r) \/ routeFailed(r)
  \/ gatewaySelected(r) \/ authInitiated(r) \/ nameGateway(r)
  \/ authorise(r)
  \/ failAuthorisation(r) \/ pendingAuthorisation(r)
  \/ completeAuthorisation(r) \/ updateReferences(r) \/ outcomeRefused(r)
  \/ markFailed(r) \/ markCompleted(r)

Next ==
  \/ \E r \in Request :
       receive(r) \/ step(r) \/ crash(r) \/ advanceTransaction(r) \/ operate(r)
  \/ \E k \in Key : purgeExpired(k)

Spec == Init /\ [][Next]_vars

(* The handler's process runs, every gateway call ends (at the latest with *)
(* the adapter's timeout) and the six-hourly purge keeps running.          *)
FairSpec ==
  /\ Spec
  /\ \A r \in Request : WF_vars(step(r))
  /\ \A k \in Key : WF_vars(purgeExpired(k))

------------------------------------------------------------------------------
TypeOK ==
  /\ keyStatus \in [Key -> KeyStatus]
  /\ keyTxn \in [Key -> Request \cup {NoRequest}]
  /\ state \in [Request -> TransactionState \cup {NoRow}]
  /\ named \subseteq Request /\ referenced \subseteq Request
  /\ asked \subseteq Request
  /\ pc \in [Request -> {"new"} \cup Live \cup Done]
  /\ args \in [Request -> Args \cup {NoArgs}]
  /\ \A r \in Request : pc[r] # "new" => args[r] \in Args
  /\ seen \in [Request -> KeyStatus]
  /\ answer \in [Request -> {"none", "authorised", "declined", "pending", "timeout", "error"}]
  /\ reply \in [Request -> Request \cup {NoRequest}]

(***************************************************************************)
(* A gateway is asked to authorise at most once for an order and at most   *)
(* once under a key, whatever double clicks, retries after a failure,      *)
(* crashes and purges of expired keys come together (FS-03, FS-09).        *)
(***************************************************************************)
AuthorisedOnce ==
  \A q, r \in asked :
    args[q].key = args[r].key \/ args[q].order = args[r].order => q = r

(***************************************************************************)
(* Of the requests in progress with the same key one owns it.  The others  *)
(* wait, are turned away or replay: what the advisory lock is for.         *)
(***************************************************************************)
OneOwnerPerKey ==
  \A q, r \in Request :
    pc[q] \in Owning /\ pc[r] \in Owning /\ args[q].key = args[r].key => q = r

(* The states a payment takes once it was authorised. *)
AfterAuthorisation ==
  TransactionState \ {"CREATED", "ROUTE_SELECTED", "ROUTE_FAILED", "ABANDONED",
                      "AUTH_INITIATED", "AUTH_FAILED", "AUTH_TIMEOUT", "FAILED"}

(***************************************************************************)
(* A key marked COMPLETED names a payment made under this very key, which  *)
(* has its gateway and reference on the row, so that webhooks and the      *)
(* reconciliation engine can find it.  Where the client was told that the  *)
(* payment is authorised, the row has been through AUTHORISED: it may have *)
(* expired, been disputed, voided or refunded since, but is not one that   *)
(* was turned down.                                                        *)
(***************************************************************************)
CompletedKeyHasPayment ==
  \A k \in Key : keyStatus[k] = "COMPLETED" =>
    LET q == keyTxn[k] IN
    /\ q \in Request /\ args[q].key = k
    /\ q \in named /\ q \in referenced
    /\ state[q] \notin {NoRow, "CREATED", "ROUTE_SELECTED", "ROUTE_FAILED", "AUTH_TIMEOUT"}
    /\ answer[q] = "authorised" => state[q] \in AfterAuthorisation

(***************************************************************************)
(* A key marked FAILED, which invites the client to pay again, has no      *)
(* payment that may still go through in our own books.                     *)
(***************************************************************************)
FailedKeyHasFailedPayment ==
  \A k \in Key : keyStatus[k] = "FAILED" =>
    \A r \in Request : Stored(r) /\ args[r].key = k =>
      state[r] \in {"AUTH_FAILED", "AUTH_TIMEOUT"}

(* What the idempotency table says of a payment, the transactions table    *)
(* bears out, however webhooks move the row before the key is marked.       *)
KeyAgreesWithPayment == CompletedKeyHasPayment /\ FailedKeyHasFailedPayment

(***************************************************************************)
(* A payment a gateway knows of has the gateway's name on its row and is   *)
(* past routing, from the first call and for ever: no crash and no late    *)
(* answer leaves one that reconciliation could not ask about, or that      *)
(* looks as if no gateway had been called.                                 *)
(***************************************************************************)
AskedGatewayIsNamed ==
  \A r \in asked :
    /\ r \in named
    /\ state[r] \notin {NoRow, "CREATED", "ROUTE_SELECTED", "ROUTE_FAILED"}

(***************************************************************************)
(* Whoever is answered with a payment is shown one of its own order, and   *)
(* all who ask for an order are shown the same one: the key's cached       *)
(* answer is not used, the row is looked up by order, and clients do use   *)
(* one key for two orders.                                                 *)
(***************************************************************************)
RepliesAgree ==
  /\ \A r \in Request : pc[r] = "succeeded" =>
       /\ reply[r] \in Request /\ Stored(reply[r])
       /\ args[reply[r]].order = args[r].order
  /\ \A q, r \in Request :
       pc[q] = "succeeded" /\ pc[r] = "succeeded" /\ args[q].order = args[r].order =>
         reply[q] = reply[r]

(* The rows of the requests follow the abstract lifecycle. *)
Lifecycle == INSTANCE TransactionLifecycle WITH Txn <- Request

ImplementsLifecycle == Lifecycle!Spec

(***************************************************************************)
(* No key stays PROCESSING, and so turns its client away, for ever: also   *)
(* not after a crash or when the handler throws without marking it.        *)
(***************************************************************************)
KeyIsReleased == \A k \in Key : keyStatus[k] = "PROCESSING" ~> keyStatus[k] # "PROCESSING"

(***************************************************************************)
(* idempotency.service.ts: a FAILED key lets "the client retry with the    *)
(* same key": the retry is not turned away as a duplicate.                 *)
(***************************************************************************)
RetryAfterFailure ==
  \A r \in Request : seen[r] = "FAILED" => pc[r] # "duplicate"
==============================================================================
