--------------------------- MODULE WebhookPipeline ---------------------------
(***************************************************************************)
(* The webhook pipeline of one payment: the controller enqueues what the   *)
(* gateways deliver, WebhookWorkerService of every server process drains   *)
(* the queue, and WebhookProcessorService.processOne takes one entry       *)
(* through                                                                 *)
(*                                                                         *)
(*   mark PROCESSING -> read the row -> insert the dedup marker            *)
(*     -> walk the row to the state the event stands for -> book a capture *)
(*     -> mark COMPLETED                                                   *)
(*                                                                         *)
(* with an await, and so other processes, API requests, failures and       *)
(* crashes, between any two of them.                                       *)
(***************************************************************************)
EXTENDS TransactionStates, Naturals, Sequences

CONSTANTS
  Event,         \* notifications of the gateway, one per (gateway, event id)
  Entry,         \* rows of webhook_queue
  eventOf,       \* the event that the entry delivers, perhaps once more
  Effects,       \* Effects[e]: what the event may say
  Worker,        \* server processes
  NoWorker,      \* the holder of an event nobody works on
  NoEntry,       \* the entry of a worker that is not processing
  maxRetries,    \* failed attempts until the dead letter queue
  OthersTo,      \* states to which others move the payment meanwhile
  MaxDisturbances  \* bound: failing statements, crashes and requeued entries

(* An event stands for a state of the payment, or for nothing; or its      *)
(* amount is wrong, or this database has no such payment.                  *)
Effect == TransactionState \cup {"none", "wrongAmount", "unknownPayment"}

ASSUME PipelineAssumption ==
  /\ eventOf \in [Entry -> Event]
  /\ Effects \in [Event -> SUBSET Effect]
  /\ NoWorker \notin Worker /\ NoEntry \notin Entry
  /\ OthersTo \subseteq TransactionState
  /\ maxRetries \in Nat \ {0} /\ MaxDisturbances \in Nat

VARIABLES
  state,          \* columns of the transactions row
  captureBooked,  \* capturedPaise holds the amount of the payment
  effect,         \* what each event says
  status,         \* columns of webhook_queue
  retryCount,
  backingOff,     \* next_retry_at is still to come
  markers,        \* rows of processed_webhook_events
  pc,             \* how far each worker is; "idle" is running = false
  due,            \* the entries it has fetched and not begun
  entry,          \* the entry it is processing, with the retryCount fetched
  attempt,
  readState,      \* the state it read
  path,           \* the transitions still to make
  claimed,        \* claimedDedupMarker
  handled,        \* events whose claimant has finished (history)
  abandoned,      \* entries some worker let go unfinished (history)
  disturbances

row     == <<state, captureBooked>>
queue   == <<status, retryCount, backingOff>>
work    == <<entry, attempt, readState, path, claimed>>
history == <<handled, abandoned>>
vars    == <<row, effect, queue, markers, pc, due, work, history, disturbances>>

Status == {"absent", "PENDING", "PROCESSING", "COMPLETED", "FAILED", "DLQ"}

(* Stages inside the try block and inside the catch block of processOne. *)
Trying   == {"found", "read", "advancing", "booking", "completing"}
Catching == {"catching", "failing"}

event(w) == eventOf[entry[w]]

go(w, where) == pc' = [pc EXCEPT ![w] = where]

Init ==
  /\ state = "AUTH_INITIATED" /\ captureBooked = FALSE
  /\ effect \in {f \in [Event -> UNION {Effects[e] : e \in Event}] :
                   \A e \in Event : f[e] \in Effects[e]}
  /\ status = [n \in Entry |-> "absent"]
  /\ retryCount = [n \in Entry |-> 0]
  /\ backingOff = [n \in Entry |-> FALSE]
  /\ markers = {}
  /\ pc = [w \in Worker |-> "idle"]
  /\ due = [w \in Worker |-> {}]
  /\ entry = [w \in Worker |-> NoEntry]
  /\ attempt = [w \in Worker |-> 0]
  /\ readState = [w \in Worker |-> NoRow]
  /\ path = [w \in Worker |-> <<>>]
  /\ claimed = [w \in Worker |-> FALSE]
  /\ handled = {} /\ abandoned = {}
  /\ disturbances = 0

------------------------------------------------------------------------------
(* handleWebhook: the gateway delivers, once or again, and is answered.    *)
enqueue(n) ==
  /\ status[n] = "absent"
  /\ status' = [status EXCEPT ![n] = "PENDING"]
  /\ UNCHANGED <<row, effect, retryCount, backingOff, markers, pc, due, work, history, disturbances>>

backoffElapses(n) ==
  /\ backingOff[n]
  /\ backingOff' = [backingOff EXCEPT ![n] = FALSE]
  /\ UNCHANGED <<row, effect, status, retryCount, markers, pc, due, work, history, disturbances>>

(* An UPDATE by id: it does not look at the status. *)
requeueFromDLQ(n) ==
  /\ status' = [status EXCEPT ![n] = "PENDING"]
  /\ retryCount' = [retryCount EXCEPT ![n] = 0]
  /\ backingOff' = [backingOff EXCEPT ![n] = FALSE]

(* An administrator replays an entry, whichever it is. *)
replayDLQ(n) ==
  /\ status[n] # "absent"
  /\ disturbances < MaxDisturbances
  /\ requeueFromDLQ(n)
  /\ disturbances' = disturbances + 1
  /\ UNCHANGED <<row, effect, markers, pc, due, work, history>>

(* API requests, reconciliation and checkout move the row as well. *)
othersMove(to) ==
  /\ assertValidTransition(state, to)
  /\ state' = to
  /\ UNCHANGED <<captureBooked, effect, queue, markers, pc, due, work, history, disturbances>>

------------------------------------------------------------------------------
(* findDue: the worker works through this list, in an order the model      *)
(* leaves open, however old the list gets meanwhile.                       *)
dueEntries == {n \in Entry : status[n] \in {"PENDING", "FAILED"} /\ ~ backingOff[n]}

fetchDue(w) ==
  /\ pc[w] = "idle" /\ dueEntries # {}
  /\ due' = [due EXCEPT ![w] = {[entry |-> n, attempt |-> retryCount[n]] : n \in dueEntries}]
  /\ go(w, "draining")
  /\ UNCHANGED <<row, effect, queue, markers, work, history, disturbances>>

markProcessing(w) ==
  /\ pc[w] = "draining"
  /\ \E d \in due[w] :
       /\ due' = [due EXCEPT ![w] = @ \ {d}]
       /\ entry' = [entry EXCEPT ![w] = d.entry]
       /\ attempt' = [attempt EXCEPT ![w] = d.attempt]
       /\ status' = [status EXCEPT ![d.entry] = "PROCESSING"]
  /\ go(w, "found")
  /\ UNCHANGED <<row, effect, retryCount, backingOff, markers, readState, path, claimed, history,
                 disturbances>>

drained(w) ==
  /\ pc[w] = "draining" /\ due[w] = {}
  /\ go(w, "idle")
  /\ UNCHANGED <<row, effect, queue, markers, due, work, history, disturbances>>

findById(w) ==
  /\ pc[w] = "found"
  /\ IF effect[event(w)] = "unknownPayment"
     THEN go(w, "completing") /\ UNCHANGED readState
     ELSE go(w, "read") /\ readState' = [readState EXCEPT ![w] = state]
  /\ UNCHANGED <<row, effect, queue, markers, due, entry, attempt, path, claimed, history, disturbances>>

\* Faulty variant: the marker is looked for among the finished events only.
isHandled(w) == event(w) \in handled

(* ON CONFLICT DO NOTHING returns no row. *)
isDuplicate(w) == event(w) \in markers

ignoreDuplicate(w) ==
  /\ pc[w] = "read" /\ isDuplicate(w)
  /\ readState' = [readState EXCEPT ![w] = NoRow]
  /\ go(w, "completing")
  /\ UNCHANGED <<row, effect, queue, markers, due, entry, attempt, path, claimed, history, disturbances>>

(* The marker is in; the amount is compared, the target looked up and the  *)
(* path laid out from the state read before, without another await.  That  *)
(* copy of the state is not used again.                                    *)
insertMarker(w) ==
  LET says == effect[event(w)]
      way  == pathTo(readState[w], says) IN
  /\ pc[w] = "read" /\ ~ isDuplicate(w)
  /\ markers' = markers \cup {event(w)}
  /\ claimed' = [claimed EXCEPT ![w] = TRUE]
  /\ path' = [path EXCEPT ![w] = way]
  /\ readState' = [readState EXCEPT ![w] = NoRow]
  /\ go(w, IF says = "wrongAmount" THEN "catching"
           ELSE IF way = <<>> THEN "completing" ELSE "advancing")
  /\ UNCHANGED <<row, effect, queue, due, entry, attempt, history, disturbances>>

accepts(to) == state = to \/ assertValidTransition(state, to)

(* transition(), once for each state of the path. *)
advanceTransaction(w) ==
  /\ pc[w] = "advancing" /\ accepts(Head(path[w]))
  /\ state' = Head(path[w])
  /\ path' = [path EXCEPT ![w] = Tail(@)]
  /\ go(w, IF Len(path[w]) > 1 THEN "advancing"
           ELSE IF effect[event(w)] = "CAPTURED" THEN "booking" ELSE "completing")
  /\ UNCHANGED <<captureBooked, effect, queue, markers, due, entry, attempt, readState, claimed,
                 history, disturbances>>

(* An exception ends the try block; what it had in hand is forgotten. *)
throw(w) ==
  /\ readState' = [readState EXCEPT ![w] = NoRow]
  /\ path' = [path EXCEPT ![w] = <<>>]
  /\ go(w, "catching")

\* Faulty variant: the refusal is logged and the rest goes on.
transitionRefusedQuietly(w) ==
  /\ pc[w] = "advancing" /\ ~ accepts(Head(path[w]))
  /\ path' = [path EXCEPT ![w] = <<>>]
  /\ go(w, IF effect[event(w)] = "CAPTURED" THEN "booking" ELSE "completing")
  /\ UNCHANGED <<row, effect, queue, markers, due, entry, attempt, readState, claimed, history, disturbances>>

(* The row has been moved elsewhere meanwhile: transition() throws. *)
transitionRefused(w) ==
  /\ pc[w] = "advancing" /\ ~ accepts(Head(path[w]))
  /\ throw(w)
  /\ UNCHANGED <<row, effect, queue, markers, due, entry, attempt, claimed, history, disturbances>>

bookCapture(w) ==
  /\ pc[w] = "booking"
  /\ captureBooked' = TRUE
  /\ go(w, "completing")
  /\ UNCHANGED <<state, effect, queue, markers, due, work, history, disturbances>>

(* processOne is over; the next entry starts with fresh local variables. *)
leave(w) ==
  /\ entry' = [entry EXCEPT ![w] = NoEntry]
  /\ attempt' = [attempt EXCEPT ![w] = 0]
  /\ readState' = [readState EXCEPT ![w] = NoRow]
  /\ path' = [path EXCEPT ![w] = <<>>]
  /\ claimed' = [claimed EXCEPT ![w] = FALSE]

markCompleted(w) ==
  /\ pc[w] = "completing"
  /\ status' = [status EXCEPT ![entry[w]] = "COMPLETED"]
  /\ handled' = IF claimed[w] THEN handled \cup {event(w)} ELSE handled
  /\ leave(w)
  /\ go(w, "draining")
  /\ UNCHANGED <<row, effect, retryCount, backingOff, markers, due, abandoned, disturbances>>

------------------------------------------------------------------------------
\* Faulty variant: the marker is removed by whoever fails.
releaseAnyMarker(w) ==
  /\ pc[w] = "catching"
  /\ markers' = markers \ {event(w)}
  /\ claimed' = [claimed EXCEPT ![w] = FALSE]
  /\ go(w, "failing")
  /\ UNCHANGED <<row, effect, queue, due, entry, attempt, readState, path, history, disturbances>>

\* Faulty variant: the marker outlives the failed attempt.
releaseNoMarker(w) ==
  /\ pc[w] = "catching"
  /\ claimed' = [claimed EXCEPT ![w] = FALSE]
  /\ go(w, "failing")
  /\ UNCHANGED <<row, effect, queue, markers, due, entry, attempt, readState, path, history,
                 disturbances>>

(* The catch block gives the marker back, if this attempt has put it in. *)
releaseMarker(w) ==
  /\ pc[w] = "catching"
  /\ markers' = IF claimed[w] THEN markers \ {event(w)} ELSE markers
  /\ claimed' = [claimed EXCEPT ![w] = FALSE]
  /\ go(w, "failing")
  /\ UNCHANGED <<row, effect, queue, due, entry, attempt, readState, path, history, disturbances>>

\* Faulty variant: attempts are not counted.
markFailedUncounted(w) ==
  /\ pc[w] = "failing"
  /\ status' = [status EXCEPT ![entry[w]] = "FAILED"]
  /\ backingOff' = [backingOff EXCEPT ![entry[w]] = TRUE]
  /\ leave(w)
  /\ go(w, "draining")
  /\ UNCHANGED <<row, effect, retryCount, markers, due, history, disturbances>>

\* Faulty variant: one attempt too many.
markFailedOnceMore(w) ==
  LET n == entry[w]
      failures == attempt[w] + 1 IN
  /\ pc[w] = "failing"
  /\ retryCount' = [retryCount EXCEPT ![n] = failures]
  /\ status' = [status EXCEPT ![n] = IF failures > maxRetries THEN "DLQ" ELSE "FAILED"]
  /\ backingOff' = [backingOff EXCEPT ![n] = failures <= maxRetries]
  /\ leave(w)
  /\ go(w, "draining")
  /\ UNCHANGED <<row, effect, markers, due, history, disturbances>>

(* The retry count is the one fetched with the entry, plus one. *)
markFailed(w) ==
  LET n == entry[w]
      failures == attempt[w] + 1 IN
  /\ pc[w] = "failing"
  /\ retryCount' = [retryCount EXCEPT ![n] = failures]
  /\ IF failures >= maxRetries
     THEN /\ status' = [status EXCEPT ![n] = "DLQ"]
          /\ UNCHANGED backingOff
     ELSE /\ status' = [status EXCEPT ![n] = "FAILED"]
          /\ backingOff' = [backingOff EXCEPT ![n] = TRUE]
  /\ leave(w)
  /\ go(w, "draining")
  /\ UNCHANGED <<row, effect, markers, due, history, disturbances>>

(* A statement fails inside the try block: the catch block runs. *)
statementFails(w) ==
  /\ pc[w] \in Trying
  /\ disturbances < MaxDisturbances
  /\ disturbances' = disturbances + 1
  /\ throw(w)
  /\ UNCHANGED <<row, effect, queue, markers, due, entry, attempt, claimed, history>>

(* One fails outside it, so that drain() gives up, or the process dies.    *)
(* What was fetched is forgotten; the entry at hand stays as it is.        *)
drainEnds(w) ==
  /\ pc[w] # "idle"
  /\ disturbances < MaxDisturbances
  /\ disturbances' = disturbances + 1
  /\ abandoned' = IF entry[w] = NoEntry THEN abandoned ELSE abandoned \cup {entry[w]}
  /\ due' = [due EXCEPT ![w] = {}]
  /\ leave(w)
  /\ go(w, "idle")
  /\ UNCHANGED <<row, effect, queue, markers, handled>>

step(w) ==
  \/ fetchDue(w) \/ markProcessing(w) \/ drained(w)
  \/ findById(w) \/ ignoreDuplicate(w) \/ insertMarker(w)
  \/ advanceTransaction(w) \/ transitionRefused(w) \/ bookCapture(w) \/ markCompleted(w)
  \/ releaseMarker(w) \/ markFailed(w)

Next ==
  \/ \E n \in Entry : enqueue(n) \/ backoffElapses(n) \/ replayDLQ(n)
  \/ \E to \in OthersTo : othersMove(to)
  \/ \E w \in Worker : step(w) \/ statementFails(w) \/ drainEnds(w)

Spec == Init /\ [][Next]_vars

(* The worker polls every two seconds and Node.js runs its continuations;  *)
(* time passes.                                                            *)
FairSpec ==
  /\ Spec
  /\ \A w \in Worker : WF_vars(step(w))
  /\ \A n \in Entry : WF_vars(backoffElapses(n))

------------------------------------------------------------------------------
TypeOK ==
  /\ state \in TransactionState /\ captureBooked \in BOOLEAN
  /\ effect \in [Event -> Effect]
  /\ status \in [Entry -> Status]
  /\ retryCount \in [Entry -> 0 .. maxRetries]
  /\ backingOff \in [Entry -> BOOLEAN]
  /\ markers \subseteq Event
  /\ pc \in [Worker -> {"idle", "draining"} \cup Trying \cup Catching]
  /\ due \in [Worker -> SUBSET [entry : Entry, attempt : 0 .. maxRetries]]
  /\ entry \in [Worker -> Entry \cup {NoEntry}]
  /\ attempt \in [Worker -> 0 .. maxRetries]
  /\ readState \in [Worker -> TransactionState \cup {NoRow}]
  /\ path \in [Worker -> Seq(TransactionState)]
  /\ claimed \in [Worker -> BOOLEAN]
  /\ handled \subseteq Event /\ abandoned \subseteq Entry
  /\ disturbances \in 0 .. MaxDisturbances
  /\ \A w \in Worker : pc[w] \in {"idle", "draining"} <=> entry[w] = NoEntry
  /\ \A w \in Worker : pc[w] = "advancing" => path[w] # <<>>

(***************************************************************************)
(* FS-02: an event that was processed is never processed again, however    *)
(* often it is delivered, requeued, retried or fetched by two processes.   *)
(***************************************************************************)
HandledOnce ==
  \A w \in Worker :
    pc[w] \in {"advancing", "booking"} => claimed[w] /\ event(w) \notin handled

(***************************************************************************)
(* Nothing is left lying about by those who fail.  A marker without a      *)
(* worker behind it belongs to an event that was processed, so that a      *)
(* retry is not taken for a duplicate of the attempt that failed; and an   *)
(* entry in PROCESSING, which findDue will not fetch again, is in the      *)
(* hands of a worker.  The exception to both is a worker that was cut off. *)
(***************************************************************************)
NothingIsOrphaned ==
  /\ \A e \in markers :
       \/ e \in handled
       \/ \E w \in Worker : claimed[w] /\ event(w) = e
       \/ \E n \in abandoned : eventOf[n] = e
  /\ \A n \in Entry : status[n] = "PROCESSING" =>
       n \in abandoned \/ \E w \in Worker : entry[w] = n

AfterCapture == {"CAPTURED", "SETTLED", "REFUND_INITIATED", "REFUND_FAILED", "REFUNDED",
                 "PARTIALLY_REFUNDED", "DISPUTE_OPENED", "DISPUTE_RESOLVED"}

(***************************************************************************)
(* The amount of a capture is written only on a payment that has been      *)
(* captured, although the path there is laid out from a copy of the state  *)
(* that is old by then and others move the row between its transitions,    *)
(* between attempts and between the last transition and the booking.       *)
(***************************************************************************)
BookedIsCaptured == captureBooked => state \in AfterCapture

(***************************************************************************)
(* Every entry is completed or ends in the dead letter queue, unless a     *)
(* worker was cut off while it had it: a failing event is not retried for  *)
(* ever, and two processes do not keep an entry away from each other.      *)
(***************************************************************************)
EntrySettles ==
  \A n \in Entry :
    status[n] # "absent" ~> status[n] \in {"COMPLETED", "DLQ"} \/ n \in abandoned

(***************************************************************************)
(* The markers, inserted and removed by any number of processes, keep the  *)
(* promise of the deduplication table.                                     *)
(***************************************************************************)
holderOf(e) ==
  IF \E w \in Worker : claimed[w] /\ event(w) = e
  THEN CHOOSE w \in Worker : claimed[w] /\ event(w) = e
  ELSE NoWorker

Deduplication ==
  INSTANCE EventDeduplication WITH
    holder <- [e \in Event |-> holderOf(e)],
    closed <- {e \in markers : holderOf(e) = NoWorker}

ImplementsDeduplication == Deduplication!Spec

(***************************************************************************)
(* docs/DEPLOYMENT.md: "The webhook queue is in Postgres, and gateways     *)
(* retry, so nothing is lost".  An event that was delivered and delivered  *)
(* again, and that no entry will bring up once more, has been processed.   *)
(***************************************************************************)
NothingIsLost ==
  \A e \in Event :
    /\ effect[e] # "unknownPayment"
    /\ \A n \in Entry : eventOf[n] = e => status[n] \in {"PROCESSING", "COMPLETED"}
    /\ \A w \in Worker : pc[w] = "idle"
    => e \in handled
==============================================================================
