----------------------- MODULE WebhookPipeline_proofs ------------------------
(* Theorems about WebhookPipeline, for any number of events, entries and    *)
(* worker processes.                                                        *)
EXTENDS WebhookPipeline, SequenceTheorems, TLAPS

(* An entry that may still be fetched has attempts left, and so has every   *)
(* copy of one that a worker holds.                                         *)
AttemptsInv ==
  /\ \A n \in Entry : status[n] \in {"absent", "PENDING", "FAILED"} => retryCount[n] < maxRetries
  /\ \A w \in Worker : \A d \in due[w] : d.attempt < maxRetries
  /\ \A w \in Worker : attempt[w] < maxRetries

(* What a worker has in hand at each stage of processOne.                   *)
StageInv ==
  \A w \in Worker :
    /\ pc[w] \in {"idle", "draining", "found", "read", "failing"} => ~ claimed[w]
    /\ pc[w] \in {"advancing", "booking"} => claimed[w]

(* A claim is exclusive and marked, and nobody claims a processed event,    *)
(* whose marker stays.                                                      *)
ClaimInv ==
  /\ \A w \in Worker : claimed[w] => event(w) \in markers \ handled
  /\ \A v, w \in Worker : claimed[v] /\ claimed[w] /\ event(v) = event(w) => v = w
  /\ handled \subseteq markers

Inv == TypeOK /\ AttemptsInv /\ StageInv /\ ClaimInv

LEMMA InitInv == Init => Inv
<1> SUFFICES ASSUME Init PROVE Inv
  OBVIOUS
<1> USE PipelineAssumption DEF Init
<1>1. effect \in [Event -> Effect]
  BY DEF Effect
<1>2. /\ pc \in [Worker -> {"idle", "draining"} \cup Trying \cup Catching]
      /\ status \in [Entry -> Status] /\ state \in TransactionState
      /\ path \in [Worker -> Seq(TransactionState)]
  BY DEF TransactionState, Status
<1>3. /\ retryCount \in [Entry -> 0 .. maxRetries]
      /\ attempt \in [Worker -> 0 .. maxRetries]
      /\ disturbances \in 0 .. MaxDisturbances
  OBVIOUS
<1>4. /\ due \in [Worker -> SUBSET [entry : Entry, attempt : 0 .. maxRetries]]
      /\ entry \in [Worker -> Entry \cup {NoEntry}]
      /\ readState \in [Worker -> TransactionState \cup {NoRow}]
      /\ claimed \in [Worker -> BOOLEAN] /\ backingOff \in [Entry -> BOOLEAN]
      /\ markers \subseteq Event /\ handled \subseteq Event /\ abandoned \subseteq Entry
      /\ captureBooked \in BOOLEAN
  OBVIOUS
<1>5. \A w \in Worker : /\ pc[w] \in {"idle", "draining"} <=> entry[w] = NoEntry
                         /\ pc[w] = "advancing" => path[w] # <<>>
  OBVIOUS
<1>6. TypeOK
  BY <1>1, <1>2, <1>3, <1>4, <1>5 DEF TypeOK
<1>7. AttemptsInv /\ StageInv /\ ClaimInv
  BY DEF AttemptsInv, StageInv, ClaimInv
<1> QED
  BY <1>6, <1>7 DEF Inv

(* A path is made of states. *)
LEMMA PathToType ==
  ASSUME NEW from, NEW to \in Effect
  PROVE  pathTo(from, to) \in Seq(TransactionState)
<1>1. /\ <<"AUTHORISED", "CAPTURE_INITIATED", "CAPTURED">> \in Seq(TransactionState)
      /\ <<"CAPTURE_INITIATED", "CAPTURED">> \in Seq(TransactionState)
      /\ <<>> \in Seq(TransactionState)
  BY DEF TransactionState
<1>2. assertValidTransition(from, to) => to \in TransactionState
  BY DEF assertValidTransition, VALID_TRANSITIONS, TransactionState
<1> QED
  BY <1>1, <1>2 DEF pathTo

(* What is left of a path after a transition. *)
LEMMA RestOfPath ==
  ASSUME NEW s \in Seq(TransactionState), s # <<>>
  PROVE  /\ Head(s) \in TransactionState /\ Tail(s) \in Seq(TransactionState)
         /\ Len(s) > 1 => Tail(s) # <<>>
<1>1. /\ Head(s) \in TransactionState /\ Tail(s) \in Seq(TransactionState)
      /\ Len(Tail(s)) = Len(s) - 1 /\ Len(s) \in Nat
  BY HeadTailProperties
<1>2. Len(s) > 1 => Len(Tail(s)) # 0
  BY <1>1
<1>3. Len(<<>>) = 0
  BY EmptySeq
<1> QED
  BY <1>1, <1>2, <1>3

LEMMA StepTypeOK == TypeOK /\ AttemptsInv /\ StageInv /\ [Next]_vars => TypeOK'
<1> SUFFICES ASSUME TypeOK, AttemptsInv, StageInv, [Next]_vars PROVE TypeOK'
  OBVIOUS
<1> USE PipelineAssumption DEF TypeOK, go, leave
<1>1. ASSUME NEW n \in Entry, enqueue(n) PROVE TypeOK'
  BY <1>1 DEF enqueue, Status, row, queue, work, history
<1>2. ASSUME NEW n \in Entry, backoffElapses(n) PROVE TypeOK'
  BY <1>2 DEF backoffElapses, row, queue, work, history
<1>3. ASSUME NEW n \in Entry, replayDLQ(n) PROVE TypeOK'
  BY <1>3 DEF replayDLQ, requeueFromDLQ, Status, row, queue, work, history
<1>4. ASSUME NEW to \in OthersTo, othersMove(to) PROVE TypeOK'
  BY <1>4 DEF othersMove, queue, work, history
<1>5. ASSUME NEW w \in Worker, fetchDue(w) PROVE TypeOK'
  BY <1>5 DEF fetchDue, dueEntries, row, queue, work, history
<1>6. ASSUME NEW w \in Worker, markProcessing(w) PROVE TypeOK'
  BY <1>6 DEF markProcessing, Status, Trying, row, queue, work, history
<1>7. ASSUME NEW w \in Worker, drained(w) PROVE TypeOK'
  BY <1>7 DEF drained, row, queue, work, history
<1>8. ASSUME NEW w \in Worker, findById(w) PROVE TypeOK'
  <2>1. /\ pc[w] = "found"
        /\ \/ pc' = [pc EXCEPT ![w] = "completing"] /\ readState' = readState
           \/ pc' = [pc EXCEPT ![w] = "read"] /\ readState' = [readState EXCEPT ![w] = state]
    BY <1>8 DEF findById
  <2>2. /\ pc' \in [Worker -> {"idle", "draining"} \cup Trying \cup Catching]
        /\ readState' \in [Worker -> TransactionState \cup {NoRow}]
    <3>1. CASE pc' = [pc EXCEPT ![w] = "completing"] /\ readState' = readState
      BY <3>1 DEF Trying
    <3>2. CASE pc' = [pc EXCEPT ![w] = "read"] /\ readState' = [readState EXCEPT ![w] = state]
      <4>1. pc' \in [Worker -> {"idle", "draining"} \cup Trying \cup Catching]
        BY <3>2 DEF Trying
      <4>2. readState' \in [Worker -> TransactionState \cup {NoRow}]
        BY <3>2
      <4> QED
        BY <4>1, <4>2
    <3> QED
      BY <2>1, <3>1, <3>2
  <2>3. ASSUME NEW v \in Worker
        PROVE  /\ pc'[v] \in {"idle", "draining"} <=> entry[v] = NoEntry
               /\ pc'[v] = "advancing" => path[v] # <<>>
    BY <2>1
  <2> QED
    BY <1>8, <2>2, <2>3 DEF findById, row, queue, history
<1>9. ASSUME NEW w \in Worker, ignoreDuplicate(w) PROVE TypeOK'
  BY <1>9 DEF ignoreDuplicate, Trying, row, queue, work, history
<1>10. ASSUME NEW w \in Worker, insertMarker(w) PROVE TypeOK'
  <2>1. entry[w] \in Entry /\ event(w) \in Event /\ effect[event(w)] \in Effect
    BY <1>10 DEF insertMarker, event
  <2>2. PICK way : /\ way = pathTo(readState[w], effect[event(w)])
                   /\ path' = [path EXCEPT ![w] = way]
                   /\ \E s \in {"catching", "completing", "advancing"} :
                        pc' = [pc EXCEPT ![w] = s] /\ (s = "advancing" => way # <<>>)
    BY <1>10 DEF insertMarker
  <2>3. path' \in [Worker -> Seq(TransactionState)]
    BY <2>1, <2>2, PathToType
  <2>4. pc' \in [Worker -> {"idle", "draining"} \cup Trying \cup Catching]
    BY <2>2 DEF Trying, Catching
  <2>5. ASSUME NEW v \in Worker
        PROVE  /\ pc'[v] \in {"idle", "draining"} <=> entry[v] = NoEntry
               /\ pc'[v] = "advancing" => path'[v] # <<>>
    BY <1>10, <2>2 DEF insertMarker
  <2>6. markers' \subseteq Event /\ claimed' \in [Worker -> BOOLEAN]
        /\ readState' \in [Worker -> TransactionState \cup {NoRow}]
    BY <1>10, <2>1 DEF insertMarker
  <2> QED
    BY <1>10, <2>3, <2>4, <2>5, <2>6 DEF insertMarker, row, queue, history
<1>11. ASSUME NEW w \in Worker, advanceTransaction(w) PROVE TypeOK'
  <2>1. /\ pc[w] = "advancing" /\ path[w] \in Seq(TransactionState) /\ path[w] # <<>>
        /\ state' = Head(path[w]) /\ path' = [path EXCEPT ![w] = Tail(path[w])]
        /\ \E s \in {"advancing", "booking", "completing"} :
             pc' = [pc EXCEPT ![w] = s] /\ (s = "advancing" => Len(path[w]) > 1)
    BY <1>11 DEF advanceTransaction
  <2>2. /\ Head(path[w]) \in TransactionState /\ Tail(path[w]) \in Seq(TransactionState)
        /\ Len(path[w]) > 1 => Tail(path[w]) # <<>>
    BY <2>1, RestOfPath
  <2>3. /\ state' \in TransactionState /\ path' \in [Worker -> Seq(TransactionState)]
        /\ pc' \in [Worker -> {"idle", "draining"} \cup Trying \cup Catching]
    BY <2>1, <2>2 DEF Trying
  <2>4. ASSUME NEW v \in Worker
        PROVE  /\ pc'[v] \in {"idle", "draining"} <=> entry[v] = NoEntry
               /\ pc'[v] = "advancing" => path'[v] # <<>>
    <3>1. CASE v = w
      BY <2>1, <2>2, <3>1
    <3>2. CASE v # w
      BY <2>1, <3>2
    <3> QED
      BY <3>1, <3>2
  <2> QED
    BY <1>11, <2>3, <2>4 DEF advanceTransaction, queue, history
<1>12. ASSUME NEW w \in Worker, transitionRefused(w) PROVE TypeOK'
  BY <1>12 DEF transitionRefused, throw, Catching, row, queue, work, history
<1>13. ASSUME NEW w \in Worker, bookCapture(w) PROVE TypeOK'
  BY <1>13 DEF bookCapture, Trying, row, queue, work, history
<1>14. ASSUME NEW w \in Worker, markCompleted(w) PROVE TypeOK'
  <2>1. /\ pc[w] = "completing" /\ entry[w] \in Entry /\ event(w) \in Event
        /\ pc' = [pc EXCEPT ![w] = "draining"]
    BY <1>14 DEF markCompleted, event
  <2>2. handled' \subseteq Event /\ status' \in [Entry -> Status]
    BY <1>14, <2>1 DEF markCompleted, Status
  <2> QED
    BY <1>14, <2>1, <2>2 DEF markCompleted, row
<1>15. ASSUME NEW w \in Worker, releaseMarker(w) PROVE TypeOK'
  BY <1>15 DEF releaseMarker, Catching, row, queue, work, history
<1>16. ASSUME NEW w \in Worker, markFailed(w) PROVE TypeOK'
  <2>1. /\ pc[w] = "failing" /\ entry[w] \in Entry
        /\ pc' = [pc EXCEPT ![w] = "draining"]
    BY <1>16 DEF markFailed
  <2>3. attempt[w] + 1 \in 0 .. maxRetries
    <3>1. attempt[w] \in 0 .. maxRetries /\ attempt[w] < maxRetries
      BY DEF AttemptsInv
    <3> QED
      BY <3>1
  <2>2. /\ status' \in [Entry -> Status] /\ backingOff' \in [Entry -> BOOLEAN]
        /\ retryCount' \in [Entry -> 0 .. maxRetries]
    BY <1>16, <2>1, <2>3 DEF markFailed, Status
  <2> QED
    BY <1>16, <2>1, <2>2 DEF markFailed, row, history
<1>17. ASSUME NEW w \in Worker, statementFails(w) PROVE TypeOK'
  <2>1. /\ pc[w] \notin {"idle", "draining"} /\ pc' = [pc EXCEPT ![w] = "catching"]
        /\ readState' = [readState EXCEPT ![w] = NoRow] /\ path' = [path EXCEPT ![w] = <<>>]
        /\ disturbances' \in 0 .. MaxDisturbances
    BY <1>17 DEF statementFails, throw, Trying
  <2> QED
    BY <1>17, <2>1 DEF statementFails, Catching, row, queue, history
<1>18. ASSUME NEW w \in Worker, drainEnds(w) PROVE TypeOK'
  BY <1>18 DEF drainEnds, row, queue, work, history
<1>19. CASE UNCHANGED vars
  BY <1>19 DEF vars, row, queue, work, history
<1> QED
  BY <1>1, <1>2, <1>3, <1>4, <1>5, <1>6, <1>7, <1>8, <1>9, <1>10, <1>11, <1>12, <1>13, <1>14,
     <1>15, <1>16, <1>17, <1>18, <1>19 DEF Next, step

LEMMA StepAttempts == TypeOK /\ AttemptsInv /\ [Next]_vars => AttemptsInv'
<1> SUFFICES ASSUME TypeOK, AttemptsInv, [Next]_vars PROVE AttemptsInv'
  OBVIOUS
<1> USE PipelineAssumption DEF TypeOK, AttemptsInv, leave
<1>1. ASSUME NEW n \in Entry, enqueue(n) \/ backoffElapses(n) \/ replayDLQ(n)
      PROVE  AttemptsInv'
  <2>1. CASE enqueue(n)
    BY <2>1 DEF enqueue, work
  <2>2. CASE backoffElapses(n)
    BY <2>2 DEF backoffElapses, work
  <2>3. CASE replayDLQ(n)
    BY <2>3 DEF replayDLQ, requeueFromDLQ, work
  <2> QED
    BY <1>1, <2>1, <2>2, <2>3
<1>2. ASSUME NEW w \in Worker, fetchDue(w) PROVE AttemptsInv'
  BY <1>2 DEF fetchDue, dueEntries, queue, work
<1>3. ASSUME NEW w \in Worker, markProcessing(w) PROVE AttemptsInv'
  BY <1>3 DEF markProcessing
<1>4. ASSUME NEW w \in Worker, markCompleted(w) PROVE AttemptsInv'
  BY <1>4 DEF markCompleted
<1>5. ASSUME NEW w \in Worker, markFailed(w) PROVE AttemptsInv'
  BY <1>5 DEF markFailed
<1>6. ASSUME NEW w \in Worker, drainEnds(w) PROVE AttemptsInv'
  BY <1>6 DEF drainEnds, queue
<1>7. CASE UNCHANGED <<status, retryCount, due, attempt>>
  BY <1>7
<1>8. \/ \E n \in Entry : enqueue(n) \/ backoffElapses(n) \/ replayDLQ(n)
      \/ \E w \in Worker : fetchDue(w) \/ markProcessing(w) \/ markCompleted(w)
                            \/ markFailed(w) \/ drainEnds(w)
      \/ UNCHANGED <<status, retryCount, due, attempt>>
  BY DEF Next, step, othersMove, drained, findById, ignoreDuplicate, insertMarker,
         advanceTransaction, transitionRefused, bookCapture, releaseMarker, statementFails,
         vars, queue, work
<1> QED
  BY <1>1, <1>2, <1>3, <1>4, <1>5, <1>6, <1>7, <1>8

(* Claims: an insert that finds no marker makes one, and only its holder    *)
(* can end it.                                                              *)
LEMMA StepStage == TypeOK /\ StageInv /\ [Next]_vars => StageInv'
<1> SUFFICES ASSUME TypeOK, StageInv, [Next]_vars PROVE StageInv'
  OBVIOUS
<1> USE DEF TypeOK, StageInv, go, leave, throw
<1>1. ASSUME NEW w \in Worker, fetchDue(w) \/ drained(w) PROVE StageInv'
  BY <1>1 DEF fetchDue, drained, work
<1>2. ASSUME NEW w \in Worker, markProcessing(w) PROVE StageInv'
  BY <1>2 DEF markProcessing
<1>3. ASSUME NEW w \in Worker, findById(w) PROVE StageInv'
  BY <1>3 DEF findById
<1>4. ASSUME NEW w \in Worker, ignoreDuplicate(w) PROVE StageInv'
  BY <1>4 DEF ignoreDuplicate
<1>5. ASSUME NEW w \in Worker, insertMarker(w) PROVE StageInv'
  <2>1. \E s \in {"catching", "completing", "advancing"} : pc' = [pc EXCEPT ![w] = s]
    BY <1>5 DEF insertMarker
  <2>2. claimed' = [claimed EXCEPT ![w] = TRUE]
    BY <1>5 DEF insertMarker
  <2> QED
    BY <2>1, <2>2
<1>6. ASSUME NEW w \in Worker, advanceTransaction(w) PROVE StageInv'
  <2>1. /\ pc[w] = "advancing" /\ claimed' = claimed
        /\ \E s \in {"advancing", "booking", "completing"} : pc' = [pc EXCEPT ![w] = s]
    BY <1>6 DEF advanceTransaction
  <2> QED
    BY <2>1
<1>7. ASSUME NEW w \in Worker, transitionRefused(w) \/ bookCapture(w) PROVE StageInv'
  BY <1>7 DEF transitionRefused, bookCapture, work
<1>8. ASSUME NEW w \in Worker, markCompleted(w) PROVE StageInv'
  BY <1>8 DEF markCompleted
<1>9. ASSUME NEW w \in Worker, releaseMarker(w) PROVE StageInv'
  BY <1>9 DEF releaseMarker
<1>10. ASSUME NEW w \in Worker, markFailed(w) PROVE StageInv'
  BY <1>10 DEF markFailed
<1>11. ASSUME NEW w \in Worker, statementFails(w) \/ drainEnds(w) PROVE StageInv'
  BY <1>11 DEF statementFails, drainEnds
<1>12. CASE UNCHANGED <<pc, claimed>>
  BY <1>12
<1>13. \/ \E w \in Worker : step(w) \/ statementFails(w) \/ drainEnds(w)
       \/ UNCHANGED <<pc, claimed>>
  BY DEF Next, enqueue, backoffElapses, replayDLQ, requeueFromDLQ, othersMove, vars, work
<1> QED
  BY <1>1, <1>2, <1>3, <1>4, <1>5, <1>6, <1>7, <1>8, <1>9, <1>10, <1>11, <1>12, <1>13 DEF step

(* Which claims a step leaves alone, which it makes and which it ends.      *)
Claims == <<markers, claimed, handled>>

(* The markers and claims do not change, nor the entries of the claimants.  *)
KeepsClaims ==
  /\ UNCHANGED Claims
  /\ \A v \in Worker : claimed[v] => entry'[v] = entry[v]

Claim(w) ==
  /\ event(w) \in Event \ markers /\ ~ claimed[w]
  /\ markers' = markers \cup {event(w)}
  /\ claimed' = [claimed EXCEPT ![w] = TRUE]
  /\ UNCHANGED <<entry, handled, abandoned>>

Release(w) ==
  /\ claimed[w] /\ event(w) \in Event
  /\ markers' = markers \ {event(w)}
  /\ claimed' = [claimed EXCEPT ![w] = FALSE]
  /\ UNCHANGED <<entry, handled, abandoned>>

(* The marker stays when the attempt ends; handled tells why.               *)
Close(w) ==
  /\ claimed[w] /\ entry[w] \in Entry /\ event(w) \in Event
  /\ claimed' = [claimed EXCEPT ![w] = FALSE]
  /\ entry' = [entry EXCEPT ![w] = NoEntry]
  /\ UNCHANGED markers
  /\ \/ handled' = handled \cup {event(w)} /\ UNCHANGED abandoned
     \/ handled' = handled /\ abandoned' = abandoned \cup {entry[w]}

(* Every step of the pipeline is one of these four as far as claims go.     *)
LEMMA StepClaims ==
  ASSUME TypeOK, StageInv, [Next]_vars
  PROVE  \/ KeepsClaims /\ abandoned \subseteq abandoned'
         \/ \E w \in Worker : Claim(w) \/ Release(w) \/ Close(w)
<1> DEFINE G == \/ KeepsClaims /\ abandoned \subseteq abandoned'
                \/ \E w \in Worker : Claim(w) \/ Release(w) \/ Close(w)
<1> SUFFICES G
  OBVIOUS
<1> USE PipelineAssumption DEF KeepsClaims, Claims
<1>1. CASE UNCHANGED <<markers, claimed, entry, handled, abandoned>>
  BY <1>1
<1>2. ASSUME NEW w \in Worker, markProcessing(w) PROVE G
  BY <1>2 DEF markProcessing, TypeOK, StageInv, history
<1>3. ASSUME NEW w \in Worker, insertMarker(w) PROVE G
  <2>1. entry[w] \in Entry /\ event(w) \in Event /\ ~ claimed[w]
    BY <1>3 DEF insertMarker, TypeOK, StageInv, event
  <2>2. Claim(w)
    BY <1>3, <2>1 DEF insertMarker, Claim, isDuplicate, history
  <2> QED
    BY <2>2
<1>4. ASSUME NEW w \in Worker, markCompleted(w) PROVE G
  <2>1. entry[w] \in Entry /\ event(w) \in Event
    BY <1>4 DEF markCompleted, TypeOK, event
  <2>2. CASE claimed[w]
    <3>1. Close(w)
      BY <1>4, <2>1, <2>2 DEF markCompleted, Close, leave
    <3> QED
      BY <3>1
  <2>3. CASE ~ claimed[w]
    BY <1>4, <2>3 DEF markCompleted, leave, TypeOK
  <2> QED
    BY <2>2, <2>3
<1>5. ASSUME NEW w \in Worker, releaseMarker(w) PROVE G
  <2>1. entry[w] \in Entry /\ event(w) \in Event
    BY <1>5 DEF releaseMarker, TypeOK, event, Catching
  <2>2. CASE claimed[w]
    <3>1. Release(w)
      BY <1>5, <2>1, <2>2 DEF releaseMarker, Release, history
    <3> QED
      BY <3>1
  <2>3. CASE ~ claimed[w]
    BY <1>5, <2>3 DEF releaseMarker, TypeOK, history
  <2> QED
    BY <2>2, <2>3
<1>6. ASSUME NEW w \in Worker, markFailed(w) PROVE G
  BY <1>6 DEF markFailed, leave, TypeOK, StageInv, history
<1>7. ASSUME NEW w \in Worker, drainEnds(w) PROVE G
  <2>1. CASE claimed[w]
    <3>1. entry[w] \in Entry /\ event(w) \in Event
      BY <1>7, <2>1 DEF drainEnds, TypeOK, StageInv, event
    <3>2. Close(w)
      BY <1>7, <2>1, <3>1 DEF drainEnds, Close, leave
    <3> QED
      BY <3>2
  <2>2. CASE ~ claimed[w]
    BY <1>7, <2>2 DEF drainEnds, leave, TypeOK
  <2> QED
    BY <2>1, <2>2
<1>8. \/ UNCHANGED <<markers, claimed, entry, handled, abandoned>>
      \/ \E w \in Worker : \/ markProcessing(w) \/ insertMarker(w) \/ markCompleted(w)
                           \/ releaseMarker(w) \/ markFailed(w) \/ drainEnds(w)
  BY DEF Next, step, enqueue, backoffElapses, replayDLQ, requeueFromDLQ, othersMove, fetchDue, drained,
         findById, ignoreDuplicate, advanceTransaction, transitionRefused, bookCapture,
         statementFails, throw, vars, work, history
<1> QED
  BY <1>1, <1>2, <1>3, <1>4, <1>5, <1>6, <1>7, <1>8

LEMMA StepClaimInv == TypeOK /\ StageInv /\ ClaimInv /\ [Next]_vars => ClaimInv'
<1> SUFFICES ASSUME TypeOK, StageInv, ClaimInv, [Next]_vars PROVE ClaimInv'
  OBVIOUS
<1> USE DEF ClaimInv, event
<1>1. CASE KeepsClaims
  BY <1>1 DEF KeepsClaims, Claims
<1>2. ASSUME NEW w \in Worker, Claim(w) PROVE ClaimInv'
  BY <1>2 DEF Claim, TypeOK
<1>3. ASSUME NEW w \in Worker, Release(w) PROVE ClaimInv'
  BY <1>3 DEF Release, TypeOK
<1>4. ASSUME NEW w \in Worker, Close(w) PROVE ClaimInv'
  BY <1>4 DEF Close, TypeOK
<1> QED
  BY <1>1, <1>2, <1>3, <1>4, StepClaims

LEMMA InvHolds == Spec => []Inv
<1>1. Inv /\ [Next]_vars => Inv'
  BY StepTypeOK, StepAttempts, StepStage, StepClaimInv DEF Inv
<1> QED
  BY <1>1, InitInv, PTL DEF Spec

(* The type invariant; no entry is retried more often than configured. *)
THEOREM TypeCorrect == Spec => []TypeOK
<1>1. Inv => TypeOK
  BY DEF Inv
<1> QED
  BY <1>1, InvHolds, PTL

(* A worker that moves the payment or books its capture has the event to    *)
(* itself, and nobody has finished it before.                               *)
THEOREM EventHandledOnce == Spec => []HandledOnce
<1>1. Inv => HandledOnce
  BY DEF Inv, HandledOnce, StageInv, ClaimInv
<1> QED
  BY <1>1, InvHolds, PTL

(* Every marker has a worker, a finished event or an abandoned entry behind *)
(* it.                                                                      *)
MarkersHeld ==
  \A e \in markers :
    \/ e \in handled
    \/ \E w \in Worker : claimed[w] /\ event(w) = e
    \/ \E n \in abandoned : eventOf[n] = e

LEMMA StepMarkers == Inv /\ MarkersHeld /\ [Next]_vars => MarkersHeld'
<1> SUFFICES ASSUME Inv, MarkersHeld, [Next]_vars PROVE MarkersHeld'
  OBVIOUS
<1> USE DEF MarkersHeld, event, Inv
<1>1. CASE KeepsClaims /\ abandoned \subseteq abandoned'
  BY <1>1 DEF KeepsClaims, Claims
<1>2. ASSUME NEW w \in Worker, Claim(w) PROVE MarkersHeld'
  BY <1>2 DEF Claim, TypeOK
<1>3. ASSUME NEW w \in Worker, Release(w) PROVE MarkersHeld'
  BY <1>3 DEF Release, TypeOK
<1>4. ASSUME NEW w \in Worker, Close(w) PROVE MarkersHeld'
  <2> SUFFICES ASSUME NEW e \in markers
               PROVE  \/ e \in handled'
                      \/ \E v \in Worker : claimed'[v] /\ eventOf[entry'[v]] = e
                      \/ \E n \in abandoned' : eventOf[n] = e
    BY <1>4 DEF Close
  <2>1. CASE e = event(w)
    BY <1>4, <2>1 DEF Close
  <2>2. CASE \E v \in Worker : v # w /\ claimed[v] /\ event(v) = e
    BY <1>4, <2>2 DEF Close, TypeOK
  <2>3. CASE e \in handled \/ \E n \in abandoned : eventOf[n] = e
    BY <1>4, <2>3 DEF Close
  <2> QED
    BY <2>1, <2>2, <2>3
<1> QED
  BY <1>1, <1>2, <1>3, <1>4, StepClaims

(* Whoever marks an entry PROCESSING has it in hand, and lets it go with    *)
(* another status.                                                          *)
EntriesHeld ==
  \A n \in Entry : status[n] = "PROCESSING" => n \in abandoned \/ \E w \in Worker : entry[w] = n

LEMMA StepEntries == TypeOK /\ EntriesHeld /\ [Next]_vars => EntriesHeld'
<1> SUFFICES ASSUME TypeOK, EntriesHeld, [Next]_vars PROVE EntriesHeld'
  OBVIOUS
<1> USE DEF TypeOK, EntriesHeld, leave
<1>1. CASE UNCHANGED <<status, entry, abandoned>>
  BY <1>1
<1>2. ASSUME NEW n \in Entry, enqueue(n) \/ replayDLQ(n) PROVE EntriesHeld'
  BY <1>2 DEF enqueue, replayDLQ, requeueFromDLQ, work, history
<1>3. ASSUME NEW w \in Worker, markProcessing(w) PROVE EntriesHeld'
  <2>1. PICK n \in Entry : /\ entry' = [entry EXCEPT ![w] = n]
                           /\ status' = [status EXCEPT ![n] = "PROCESSING"]
                           /\ entry[w] = NoEntry /\ abandoned' = abandoned
    <3>1. PICK d \in due[w] : /\ entry' = [entry EXCEPT ![w] = d.entry]
                              /\ status' = [status EXCEPT ![d.entry] = "PROCESSING"]
      BY <1>3 DEF markProcessing
    <3>2. d.entry \in Entry
      OBVIOUS
    <3>3. entry[w] = NoEntry /\ abandoned' = abandoned
      BY <1>3 DEF markProcessing, history
    <3> QED
      BY <3>1, <3>2, <3>3
  <2>2. \A v \in Worker : entry[v] \in Entry => entry'[v] = entry[v]
    BY <2>1, PipelineAssumption
  <2>3. entry'[w] = n /\ \A m \in Entry \ {n} : status'[m] = status[m]
    BY <2>1
  <2> QED
    BY <2>1, <2>2, <2>3
<1>4. ASSUME NEW w \in Worker, markCompleted(w) \/ markFailed(w) PROVE EntriesHeld'
  <2>1. /\ entry[w] \in Entry /\ abandoned' = abandoned
        /\ entry' = [entry EXCEPT ![w] = NoEntry]
        /\ \E s \in {"COMPLETED", "DLQ", "FAILED"} : status' = [status EXCEPT ![entry[w]] = s]
    BY <1>4 DEF markCompleted, markFailed, history
  <2>2. status'[entry[w]] # "PROCESSING" /\ \A m \in Entry : m # entry[w] => status'[m] = status[m]
    BY <2>1
  <2>3. \A v \in Worker : v # w => entry'[v] = entry[v]
    BY <2>1
  <2> QED
    BY <2>1, <2>2, <2>3
<1>5. ASSUME NEW w \in Worker, drainEnds(w) PROVE EntriesHeld'
  <2>1. /\ status' = status /\ entry' = [entry EXCEPT ![w] = NoEntry]
        /\ abandoned \subseteq abandoned' /\ (entry[w] \in Entry => entry[w] \in abandoned')
    BY <1>5, PipelineAssumption DEF drainEnds, queue
  <2> QED
    BY <2>1
<1> QED
  BY <1>1, <1>2, <1>3, <1>4, <1>5
  DEF Next, step, backoffElapses, othersMove, fetchDue, drained, findById, ignoreDuplicate, insertMarker,
      advanceTransaction, transitionRefused, bookCapture, releaseMarker, statementFails, vars, queue,
      work, history

(* A marker in processed_webhook_events has a worker, a finished event or a *)
(* cut-off worker behind it, and an entry left in PROCESSING a worker at    *)
(* work or a cut-off one: processOne cleans up after every other failure.   *)
THEOREM NothingOrphaned == Spec => []NothingIsOrphaned
<1>1. Init => MarkersHeld /\ EntriesHeld
  BY DEF Init, MarkersHeld, EntriesHeld
<1>2. Inv /\ MarkersHeld /\ EntriesHeld /\ [Next]_vars => MarkersHeld' /\ EntriesHeld'
  BY StepMarkers, StepEntries DEF Inv
<1>3. MarkersHeld /\ EntriesHeld => NothingIsOrphaned
  BY DEF MarkersHeld, EntriesHeld, NothingIsOrphaned
<1> QED
  BY <1>1, <1>2, <1>3, InvHolds, PTL DEF Spec

------------------------------------------------------------------------------
(* The last of the transitions that an event makes is the state it stands   *)
(* for, however old the state was from which they were laid out.            *)
CapturePath == {<<"AUTHORISED", "CAPTURE_INITIATED", "CAPTURED">>,
                <<"CAPTURE_INITIATED", "CAPTURED">>, <<"CAPTURED">>}

BookingInv ==
  /\ captureBooked => state \in AfterCapture
  /\ \A w \in Worker :
       /\ pc[w] = "advancing" /\ effect[event(w)] = "CAPTURED" => path[w] \in CapturePath
       /\ pc[w] = "booking" => state \in AfterCapture

LEMMA AfterCaptureStays ==
  ASSUME NEW from \in AfterCapture, NEW to, from = to \/ assertValidTransition(from, to)
  PROVE  to \in AfterCapture
BY DEF AfterCapture, assertValidTransition, VALID_TRANSITIONS

LEMMA CapturePathStep ==
  ASSUME NEW p \in CapturePath
  PROVE  /\ Len(p) > 1 => Tail(p) \in CapturePath
         /\ ~ (Len(p) > 1) => Head(p) = "CAPTURED"
<1>1. CASE p = <<"AUTHORISED", "CAPTURE_INITIATED", "CAPTURED">>
  <2>1. Len(p) = 3 /\ Tail(p) = <<"CAPTURE_INITIATED", "CAPTURED">>
    BY <1>1
  <2> QED
    BY <2>1 DEF CapturePath
<1>2. CASE p = <<"CAPTURE_INITIATED", "CAPTURED">>
  <2>1. Len(p) = 2 /\ Tail(p) = <<"CAPTURED">>
    BY <1>2
  <2> QED
    BY <2>1 DEF CapturePath
<1>3. CASE p = <<"CAPTURED">>
  <2>1. Len(p) = 1 /\ Head(p) = "CAPTURED"
    BY <1>3
  <2> QED
    BY <2>1
<1> QED
  BY <1>1, <1>2, <1>3 DEF CapturePath

LEMMA PathToCaptured ==
  ASSUME NEW from
  PROVE  pathTo(from, "CAPTURED") \in CapturePath \cup {<<>>}
BY DEF pathTo, CapturePath

LEMMA StepBooking == TypeOK /\ BookingInv /\ [Next]_vars => BookingInv'
<1> SUFFICES ASSUME TypeOK, BookingInv, [Next]_vars PROVE BookingInv'
  OBVIOUS
<1> USE DEF go
<1>1. CASE UNCHANGED <<captureBooked, effect, pc, path, entry>> /\ (state' = state \/ assertValidTransition(state, state'))
  BY <1>1, AfterCaptureStays DEF BookingInv, event
<1>2. ASSUME NEW w \in Worker,
             \/ fetchDue(w) \/ markProcessing(w) \/ drained(w) \/ findById(w) \/ ignoreDuplicate(w)
             \/ transitionRefused(w) \/ markCompleted(w) \/ releaseMarker(w) \/ markFailed(w)
             \/ statementFails(w) \/ drainEnds(w)
      PROVE  BookingInv'
  <2>1. /\ UNCHANGED <<state, captureBooked, effect>>
        /\ pc'[w] \notin {"advancing", "booking"}
        /\ \A v \in Worker \ {w} : pc'[v] = pc[v] /\ path'[v] = path[v] /\ entry'[v] = entry[v]
    BY <1>2 DEF TypeOK, fetchDue, markProcessing, drained, findById, ignoreDuplicate, transitionRefused,
                markCompleted, releaseMarker, markFailed, statementFails, drainEnds, throw, leave, row, work
  <2> QED
    BY <2>1 DEF BookingInv, event
<1>3. ASSUME NEW w \in Worker, insertMarker(w) PROVE BookingInv'
  <2> DEFINE says == effect[event(w)]
             way == pathTo(readState[w], says)
  <2>1. /\ UNCHANGED <<state, captureBooked, effect, entry>>
        /\ path' = [path EXCEPT ![w] = way]
        /\ \E s \in {"catching", "completing", "advancing"} :
             pc' = [pc EXCEPT ![w] = s] /\ (s = "advancing" => way # <<>>)
    BY <1>3 DEF insertMarker, row
  <2> HIDE DEF way
  <2>2. says = "CAPTURED" /\ way # <<>> => way \in CapturePath
    BY PathToCaptured DEF way
  <2>3. pc'[w] # "booking" /\ (pc'[w] = "advancing" => way # <<>> /\ path'[w] = way)
    BY <2>1 DEF TypeOK
  <2>4. \A v \in Worker \ {w} : pc'[v] = pc[v] /\ path'[v] = path[v]
    BY <2>1 DEF TypeOK
  <2> QED
    BY <2>1, <2>2, <2>3, <2>4 DEF BookingInv, event
<1>4. ASSUME NEW w \in Worker, advanceTransaction(w) PROVE BookingInv'
  <2>1. /\ pc[w] = "advancing" /\ accepts(Head(path[w])) /\ state' = Head(path[w])
        /\ path' = [path EXCEPT ![w] = Tail(path[w])]
        /\ pc' = [pc EXCEPT ![w] = IF Len(path[w]) > 1 THEN "advancing"
                                   ELSE IF effect[event(w)] = "CAPTURED" THEN "booking" ELSE "completing"]
        /\ UNCHANGED <<captureBooked, effect, entry>>
    BY <1>4 DEF advanceTransaction
  <2>2. effect[event(w)] = "CAPTURED" =>
          /\ Len(path[w]) > 1 => Tail(path[w]) \in CapturePath
          /\ ~ (Len(path[w]) > 1) => state' = "CAPTURED"
    BY <2>1, CapturePathStep DEF BookingInv
  <2>3. state \in AfterCapture => state' \in AfterCapture
    BY <2>1, AfterCaptureStays DEF accepts
  <2>4. "CAPTURED" \in AfterCapture
    BY DEF AfterCapture
  <2>5. \A v \in Worker \ {w} : pc'[v] = pc[v] /\ path'[v] = path[v]
    BY <2>1 DEF TypeOK
  <2>6. /\ pc'[w] = "advancing" => Len(path[w]) > 1 /\ path'[w] = Tail(path[w])
        /\ pc'[w] = "booking" => ~ (Len(path[w]) > 1) /\ effect[event(w)] = "CAPTURED"
    BY <2>1 DEF TypeOK
  <2> QED
    BY <2>1, <2>2, <2>3, <2>4, <2>5, <2>6 DEF BookingInv, event
<1>5. ASSUME NEW w \in Worker, bookCapture(w) PROVE BookingInv'
  BY <1>5 DEF bookCapture, work, TypeOK, BookingInv, event
<1> QED
  BY <1>1, <1>2, <1>3, <1>4, <1>5
  DEF Next, step, enqueue, backoffElapses, replayDLQ, othersMove, vars, row, work

(* capturedPaise is written only for a payment that has been captured,      *)
(* although advanceTransaction walks a path laid out from an old copy of    *)
(* the row: a path that the row no longer fits ends in an exception.        *)
THEOREM BookingsAreCaptures == Spec => []BookedIsCaptured
<1>1. Init => BookingInv
  BY DEF Init, BookingInv
<1>2. Inv /\ BookingInv /\ [Next]_vars => BookingInv'
  BY StepBooking DEF Inv
<1>3. BookingInv => BookedIsCaptured
  BY DEF BookingInv, BookedIsCaptured
<1> QED
  BY <1>1, <1>2, <1>3, InvHolds, PTL DEF Spec

------------------------------------------------------------------------------
(* The holder that the refinement chooses is the claimant. *)
LEMMA HolderIsClaimant ==
  TypeOK /\ ClaimInv =>
    \A e \in Event :
      /\ \A w \in Worker : holderOf(e) = w <=> claimed[w] /\ event(w) = e
      /\ holderOf(e) = NoWorker <=> ~ \E w \in Worker : claimed[w] /\ event(w) = e
<1> SUFFICES ASSUME ClaimInv, NEW e \in Event
             PROVE  /\ \A w \in Worker : holderOf(e) = w <=> claimed[w] /\ event(w) = e
                    /\ holderOf(e) = NoWorker <=> ~ \E w \in Worker : claimed[w] /\ event(w) = e
  OBVIOUS
<1>1. CASE \E w \in Worker : claimed[w] /\ event(w) = e
  <2>1. PICK w \in Worker : claimed[w] /\ event(w) = e
    BY <1>1
  <2>2. \A v \in Worker : claimed[v] /\ event(v) = e <=> v = w
    BY <2>1 DEF ClaimInv
  <2>3. holderOf(e) = w
    BY <1>1, <2>2 DEF holderOf
  <2> QED
    BY <2>1, <2>2, <2>3, PipelineAssumption
<1>2. CASE ~ \E w \in Worker : claimed[w] /\ event(w) = e
  BY <1>2, PipelineAssumption DEF holderOf
<1> QED
  BY <1>1, <1>2

(* The two variables of EventDeduplication, as the instance maps them.      *)
Holders == [e \in Event |-> holderOf(e)]
Closed  == {e \in markers : holderOf(e) = NoWorker}

LEMMA StepImplements ==
  TypeOK /\ StageInv /\ ClaimInv /\ TypeOK' /\ ClaimInv' /\ [Next]_vars
    => [Deduplication!Next]_Deduplication!vars
<1> SUFFICES ASSUME TypeOK, StageInv, ClaimInv, TypeOK', ClaimInv', [Next]_vars
             PROVE  \/ Holders' = Holders /\ Closed' = Closed
                    \/ \E w \in Worker, e \in Event :
                         \/ Deduplication!claim(w, e)
                         \/ Deduplication!release(w, e)
                         \/ Deduplication!close(w, e)
  BY DEF Deduplication!Next, Deduplication!vars, Holders, Closed
<1> USE PipelineAssumption
<1>1. \A e \in Event :
        /\ \A w \in Worker : holderOf(e) = w <=> claimed[w] /\ event(w) = e
        /\ holderOf(e) = NoWorker <=> ~ \E w \in Worker : claimed[w] /\ event(w) = e
  BY HolderIsClaimant
<1>2. \A e \in Event :
        /\ \A w \in Worker : holderOf(e)' = w <=> claimed'[w] /\ event(w)' = e
        /\ holderOf(e)' = NoWorker <=> ~ \E w \in Worker : claimed'[w] /\ event(w)' = e
  <2>1. (TypeOK /\ ClaimInv =>
          \A e \in Event :
            /\ \A w \in Worker : holderOf(e) = w <=> claimed[w] /\ event(w) = e
            /\ holderOf(e) = NoWorker <=> ~ \E w \in Worker : claimed[w] /\ event(w) = e)'
    BY HolderIsClaimant, PTL
  <2> QED
    BY <2>1
<1>3. \A e \in Event : \/ holderOf(e) = NoWorker
                       \/ \E w \in Worker : holderOf(e) = w
  BY <1>1
<1>4. \A e \in Event : \/ holderOf(e)' = NoWorker
                       \/ \E w \in Worker : holderOf(e)' = w
  BY <1>2
<1>5. CASE KeepsClaims
  <2>1. \A e \in Event, w \in Worker :
          claimed'[w] /\ event(w)' = e <=> claimed[w] /\ event(w) = e
    BY <1>5 DEF KeepsClaims, Claims, event
  <2>2. \A e \in Event : holderOf(e)' = holderOf(e)
    BY <1>1, <1>2, <1>3, <1>4, <2>1
  <2>3. Holders' = Holders
    BY <2>2 DEF Holders
  <2>4. Closed' = Closed
    BY <1>5, <2>2 DEF Closed, KeepsClaims, Claims, TypeOK
  <2> QED
    BY <2>3, <2>4
<1>6. ASSUME NEW w \in Worker, Claim(w), NEW e \in Event, e = event(w)
      PROVE  Deduplication!claim(w, e)
  <2>1. e \notin markers
    BY <1>6 DEF Claim
  <2>2. holderOf(e) = NoWorker
    BY <1>1, <1>6, <2>1 DEF ClaimInv
  <2>3. \A v \in Worker : claimed'[v] <=> v = w \/ claimed[v]
    BY <1>6 DEF Claim, TypeOK
  <2>4. \A v \in Worker : event(v)' = event(v)
    BY <1>6 DEF Claim, event
  <2>5. holderOf(e)' = w
    BY <1>2, <1>6, <2>3, <2>4
  <2>6. \A d \in Event : d # e => holderOf(d)' = holderOf(d)
    BY <1>1, <1>2, <1>3, <1>4, <1>6, <2>3, <2>4
  <2>7. Holders' = [Holders EXCEPT ![e] = w]
    BY <2>5, <2>6 DEF Holders
  <2>8. Closed' = Closed
    <3>1. markers' = markers \cup {e} /\ markers \subseteq Event
      BY <1>6 DEF Claim, TypeOK
    <3> QED
      BY <2>1, <2>5, <2>6, <3>1 DEF Closed
  <2> QED
    BY <2>1, <2>2, <2>7, <2>8 DEF Deduplication!claim, Holders, Closed
<1>7. ASSUME NEW w \in Worker, Release(w), NEW e \in Event, e = event(w)
      PROVE  Deduplication!release(w, e)
  <2>1. claimed[w]
    BY <1>7 DEF Release
  <2>2. holderOf(e) = w
    BY <1>1, <1>7, <2>1
  <2>3. \A v \in Worker : claimed'[v] <=> v # w /\ claimed[v]
    BY <1>7 DEF Release, TypeOK
  <2>4. \A v \in Worker : event(v)' = event(v)
    BY <1>7 DEF Release, event
  <2>5. holderOf(e)' = NoWorker
    <3>1. ~ \E v \in Worker : claimed'[v] /\ event(v)' = e
      BY <1>7, <2>1, <2>3, <2>4 DEF ClaimInv
    <3> QED
      BY <1>2, <3>1
  <2>6. \A d \in Event : d # e => holderOf(d)' = holderOf(d)
    BY <1>1, <1>2, <1>3, <1>4, <1>7, <2>3, <2>4
  <2>7. Holders' = [Holders EXCEPT ![e] = NoWorker]
    BY <2>5, <2>6 DEF Holders
  <2>8. Closed' = Closed
    <3>1. markers' = markers \ {e} /\ markers \subseteq Event
      BY <1>7 DEF Release, TypeOK
    <3> QED
      BY <2>1, <2>2, <2>6, <3>1 DEF Closed
  <2> QED
    BY <2>1, <2>2, <2>7, <2>8 DEF Deduplication!release, Holders, Closed
<1>8. ASSUME NEW w \in Worker, Close(w), NEW e \in Event, e = event(w)
      PROVE  Deduplication!close(w, e)
  <2>1. claimed[w]
    BY <1>8 DEF Close
  <2>2. holderOf(e) = w /\ e \in markers
    BY <1>1, <1>8, <2>1 DEF ClaimInv
  <2>3. \A v \in Worker : claimed'[v] <=> v # w /\ claimed[v]
    BY <1>8 DEF Close, TypeOK
  <2>4. \A v \in Worker : v # w => event(v)' = event(v)
    BY <1>8 DEF Close, event, TypeOK
  <2>5. holderOf(e)' = NoWorker
    <3>1. ~ \E v \in Worker : claimed'[v] /\ event(v)' = e
      BY <1>8, <2>1, <2>3, <2>4 DEF ClaimInv
    <3> QED
      BY <1>2, <3>1
  <2>6. \A d \in Event : d # e => holderOf(d)' = holderOf(d)
    BY <1>1, <1>2, <1>3, <1>4, <1>8, <2>3, <2>4
  <2>7. Holders' = [Holders EXCEPT ![e] = NoWorker]
    BY <2>5, <2>6 DEF Holders
  <2>8. Closed' = Closed \cup {e}
    <3>1. markers' = markers /\ markers \subseteq Event
      BY <1>8 DEF Close, TypeOK
    <3> QED
      BY <2>2, <2>5, <2>6, <3>1 DEF Closed
  <2> QED
    BY <2>1, <2>2, <2>7, <2>8 DEF Deduplication!close, Holders, Closed
<1>9. \A w \in Worker : Claim(w) \/ Release(w) \/ Close(w) => event(w) \in Event
  BY DEF Claim, Release, Close
<1> QED
  BY <1>5, <1>6, <1>7, <1>8, <1>9, StepClaims

(* The pipeline implements the promise of the deduplication table: one      *)
(* worker at a time, and never again once the event is closed.              *)
THEOREM PipelineImplementsDeduplication == Spec => ImplementsDeduplication
<1>1. Init => Deduplication!Init
  <2>1. Init => \A e : holderOf(e) = NoWorker
    BY DEF Init, holderOf
  <2> QED
    BY <2>1 DEF Init, Deduplication!Init
<1>2. Inv /\ Inv' /\ [Next]_vars => [Deduplication!Next]_Deduplication!vars
  BY StepImplements DEF Inv
<1> QED
  BY <1>1, <1>2, InvHolds, PTL DEF Spec, ImplementsDeduplication, Deduplication!Spec

==============================================================================
