-------------------------- MODULE EventDeduplication -------------------------
(***************************************************************************)
(* What the table processed_webhook_events promises (FS-02): an event is   *)
(* in the hands of one worker at a time, may be given back by the worker   *)
(* that holds it, and once closed is never taken up again.                 *)
(***************************************************************************)
CONSTANTS Event, Worker, NoWorker

VARIABLES
  holder,    \* who is processing the event
  closed     \* events that are not processed any more

vars == <<holder, closed>>

Init ==
  /\ holder = [e \in Event |-> NoWorker]
  /\ closed = {}

claim(w, e) ==
  /\ holder[e] = NoWorker /\ e \notin closed
  /\ holder' = [holder EXCEPT ![e] = w]
  /\ UNCHANGED closed

(* The attempt failed and will be repeated. *)
release(w, e) ==
  /\ holder[e] = w
  /\ holder' = [holder EXCEPT ![e] = NoWorker]
  /\ UNCHANGED closed

(* The event is dealt with, or its worker has died. *)
close(w, e) ==
  /\ holder[e] = w
  /\ holder' = [holder EXCEPT ![e] = NoWorker]
  /\ closed' = closed \cup {e}

Next == \E w \in Worker, e \in Event : claim(w, e) \/ release(w, e) \/ close(w, e)

Spec == Init /\ [][Next]_vars
==============================================================================
