------------------------- MODULE GatewayRouting_proofs -------------------------
(* Theorems about GatewayRouting, for any number of gateways, requests,     *)
(* overlapping flushes, configuration changes and restarts.                 *)
EXTENDS GatewayRouting, FiniteSetTheorems, TLAPS

Entry == [state : {"CLOSED", "OPEN", "HALF_OPEN"}, failureCount : Nat,
          successCountInHalfOpen : Nat, cooled : BOOLEAN]

(* What an answer does to an entry that is not half open. *)
LEMMA SuccessEntry ==
  ASSUME NEW entry \in Entry, entry.state # "HALF_OPEN"
  PROVE  /\ recordSuccess(entry) \in Entry
         /\ recordSuccess(entry).state = entry.state
         /\ entry.state = "CLOSED" => recordSuccess(entry).failureCount = 0
BY DEF Entry, recordSuccess

LEMMA FailureEntry ==
  ASSUME NEW entry \in Entry, entry.state # "HALF_OPEN", NEW n \in Nat
  PROVE  /\ recordFailure(entry, n) \in Entry
         /\ recordFailure(entry, n).state \in {"CLOSED", "OPEN"}
         /\ recordFailure(entry, n).state = "OPEN" <=>
              entry.state = "OPEN" \/ entry.failureCount + 1 >= n
         /\ recordFailure(entry, n).failureCount = entry.failureCount + 1
BY DEF Entry, recordFailure, transitionTo

(* As long as no circuit is half open, the best score is selected.          *)
LEMMA BestIsSelected ==
  ASSUME NEW scores, NEW selected \in selection(scores),
         \A g \in DOMAIN scores : circuit[g].state # "HALF_OPEN"
  PROVE  selected \in DOMAIN scores /\ selected \in best(DOMAIN scores, scores)
BY DEF selection, best

-------------------------------------------------------------------------------
(* The breaker: nothing makes a circuit half open, and the count of a       *)
(* closed one is the number of failures in a row.                           *)
BreakerInv ==
  /\ circuit \in [Gateway -> Entry]
  /\ threshold \in [Gateway -> Threshold] /\ dbThreshold \in [Gateway -> Threshold]
  /\ changing \in [Admin -> [stage : {"idle", "updated", "read"}, read : [Gateway -> Threshold]]]
  /\ streak \in [Gateway -> Nat] /\ earned \in [Gateway -> BOOLEAN]
  /\ \A g \in Gateway :
       /\ circuit[g].state # "HALF_OPEN"
       /\ circuit[g].state = "OPEN" <=> earned[g]
       /\ circuit[g].state = "CLOSED" => circuit[g].failureCount = streak[g]

Stage == {"new", "measured", "scored", "routed", "calling", "answered", "failed"}

(* A request on its way has selected a gateway, the best of those scored,   *)
(* that was not open when it did, and nothing of it is recorded too early.  *)
RequestOK(r) ==
  /\ decision[r].selected \in Gateway \cup {None}
  /\ pc[r] \in {"scored", "routed", "calling"} =>
       /\ decision[r].selected \in Gateway
       /\ decision[r].selected \in best(DOMAIN decision[r].scores, decision[r].scores)
       /\ circuit[decision[r].selected].state = "OPEN" => r \in straggler[decision[r].selected]
  /\ pc[r] \in {"routed", "calling"} => routes[r] = decision[r]
  /\ pc[r] = "calling" => gateway[r] = decision[r].selected
  /\ pc[r] \in {"new", "measured", "scored", "routed"} => gateway[r] = None
  /\ gateway[r] # None =>
       /\ routes[r].selected = gateway[r]
       /\ gateway[r] \in best(DOMAIN routes[r].scores, routes[r].scores)

RequestInv ==
  /\ pc \in [Request -> Stage]
  /\ gateway \in [Request -> Gateway \cup {None}]
  /\ DOMAIN decision = Request /\ DOMAIN routes = Request /\ DOMAIN straggler = Gateway
  /\ \A r \in Request : RequestOK(r)

(* The flushes that are about to count a sample, and those that have and    *)
(* are about to clear the buffer.                                           *)
Counting(r) == {f \in Flush : flushing[f].stage = "saving" /\ r \in flushing[f].samples}
Counted(r)  == {f \in Flush : flushing[f].stage = "saved" /\ r \in flushing[f].samples}

(* A sample in the buffer has been counted by the flushes that have yet to  *)
(* clear it; one that has left the buffer is counted by those that took it  *)
(* before.                                                                  *)
SampleOK(r) ==
  /\ r \in buffer => saved[r] = Cardinality(Counted(r))
  /\ saved[r] + Cardinality(Counting(r)) <= Cardinality(Flush)
  /\ pc[r] \notin {"answered"} => saved[r] = 0 /\ r \notin buffer /\ Counting(r) = {} /\ Counted(r) = {}
  /\ pc[r] = "answered" => r \in buffer \/ saved[r] > 0 \/ r \in unlucky
  /\ \A f \in Flush : flushing[f].stage # "idle" /\ r \in buffer => r \in flushing[f].samples \/ r \in unlucky
  /\ Counted(r) # {} => saved[r] > 0

SampleInv ==
  /\ buffer \subseteq Request /\ unlucky \subseteq Request
  /\ saved \in [Request -> Nat]
  /\ flushing \in [Flush -> [stage : {"idle", "saving", "saved"}, samples : SUBSET Request]]
  /\ result \in [Request -> [success : BOOLEAN, latency : Nat]]
  /\ \A r \in Request : SampleOK(r)

(* The columns that nothing is known of but their types.                    *)
ConfigInv == enabled \in [Gateway -> BOOLEAN] /\ weights \in Weighting

Inv == BreakerInv /\ RequestInv /\ SampleInv /\ ConfigInv

LEMMA InitInv == Init => Inv
<1> SUFFICES ASSUME Init PROVE Inv
  OBVIOUS
<1> USE RoutingAssumption DEF Init
<1>1. BreakerInv
  BY DEF BreakerInv, Closed, Entry
<1>2. RequestInv
  BY DEF RequestInv, RequestOK, Stage, NoScores, routesOf
<1>3. SampleInv
  <2>1. \A r \in Request : Counting(r) = {} /\ Counted(r) = {}
    BY DEF Counting, Counted
  <2>2. Cardinality({}) = 0 /\ Cardinality(Flush) \in Nat
    BY FS_EmptySet, FS_CardinalityType
  <2>3. ASSUME NEW r \in Request PROVE SampleOK(r)
    <3>1. Cardinality(Counting(r)) = 0 /\ saved[r] = 0 /\ r \notin buffer /\ pc[r] = "new"
      BY <2>1, <2>2
    <3>2. saved[r] + Cardinality(Counting(r)) <= Cardinality(Flush)
      BY <2>2, <3>1
    <3> QED
      BY <2>1, <3>1, <3>2 DEF SampleOK
  <2> QED
    BY <2>3 DEF SampleInv, NoSample
<1> QED
  BY <1>1, <1>2, <1>3 DEF Inv, ConfigInv

-------------------------------------------------------------------------------
(* Steps on the way to the gateway leave the breaker and the samples alone. *)
Walk(r) ==
  \/ readMetrics(r) \/ score(r) \/ recordRoutingDecision(r) \/ callGateway(r) \/ routingFails(r)

LEMMA WalkKeepsInv ==
  ASSUME Inv, NEW r \in Request, Walk(r)
  PROVE  Inv'
<1>0. BreakerInv /\ RequestInv /\ SampleInv /\ ConfigInv /\ RequestOK(r)
  BY DEF Inv, RequestInv
<1>1. /\ UNCHANGED <<circuit, threshold, enabled, dbThreshold, weights, changing, result, buffer, saved,
                     flushing, unlucky, streak, earned, straggler>>
      /\ pc[r] # "answered" /\ \E stage \in Stage \ {"answered"} : pc' = [pc EXCEPT ![r] = stage]
  BY <1>0 DEF Walk, readMetrics, score, recordRoutingDecision, callGateway, routingFails, fail, go, Stage,
              breaker, config, health, history, RequestInv
<1>2. BreakerInv' /\ ConfigInv'
  BY <1>0, <1>1 DEF BreakerInv, ConfigInv
<1>3. SampleInv'
  <2>1. \A q \in Request : pc'[q] = "answered" <=> pc[q] = "answered"
    BY <1>0, <1>1 DEF RequestInv
  <2>2. ASSUME NEW q \in Request PROVE SampleOK(q)'
    <3>1. SampleOK(q) /\ (pc'[q] = "answered" <=> pc[q] = "answered")
      BY <1>0, <2>1 DEF SampleInv
    <3>2. Counting(q)' = Counting(q) /\ Counted(q)' = Counted(q)
      BY <1>1 DEF Counting, Counted
    <3> QED
      BY <1>1, <3>1, <3>2 DEF SampleOK
  <2> QED
    BY <1>0, <1>1, <2>2 DEF SampleInv
<1> DEFINE Others == \A q \in Request \ {r} : /\ pc'[q] = pc[q] /\ gateway'[q] = gateway[q]
                                             /\ decision'[q] = decision[q] /\ routes'[q] = routes[q]
           Shape == /\ gateway' \in [Request -> Gateway \cup {None}]
                    /\ DOMAIN decision' = Request /\ DOMAIN routes' = Request
<1>4. SUFFICES Others /\ Shape /\ RequestOK(r)'
  <2>1. pc' \in [Request -> Stage]
    BY <1>0, <1>1 DEF RequestInv
  <2>2. ASSUME Others, NEW q \in Request, q # r PROVE RequestOK(q)'
    BY <1>0, <1>1, <2>2 DEF RequestInv, RequestOK
  <2> QED
    BY <1>0, <1>1, <1>2, <1>3, <2>1, <2>2 DEF Inv, RequestInv
<1>f. CASE fail(r) /\ UNCHANGED <<routes, gateway>>
  BY <1>0, <1>f DEF fail, go, RequestInv, RequestOK, NoScores, routesOf
<1>5. CASE readMetrics(r)
  BY <1>0, <1>1, <1>5 DEF readMetrics, go, RequestInv, RequestOK
<1>6. CASE score(r)
  <2>1. SUFFICES ASSUME ~ fail(r) PROVE Others /\ Shape /\ RequestOK(r)'
    BY <1>f, <1>6 DEF score
  <2> DEFINE eligible == {g \in Gateway : enabled[g] /\ circuit[g].state # "OPEN"}
             scores == [g \in eligible |-> compositeScore(g, seen[r].metrics, seen[r].weights)]
  <2>2. PICK selected \in selection(scores) :
          /\ decision' = [decision EXCEPT ![r] = [scores |-> scores, selected |-> selected]]
          /\ go(r, "scored")
    BY <1>6, <2>1 DEF score, routesOf
  <2>3. pc[r] = "measured" /\ UNCHANGED <<routes, gateway>>
    BY <1>6 DEF score
  <2> HIDE DEF scores
  <2>4. DOMAIN scores = eligible
    BY DEF scores
  <2>5. /\ selected \in Gateway /\ circuit[selected].state # "OPEN"
        /\ selected \in best(DOMAIN scores, scores)
    BY <1>0, <2>4, BestIsSelected DEF BreakerInv
  <2>6. decision'[r].scores = scores /\ decision'[r].selected = selected
    BY <1>0, <2>2 DEF RequestInv
  <2>7. Others /\ Shape /\ pc'[r] = "scored"
    BY <1>0, <2>2, <2>3 DEF go, RequestInv
  <2> QED
    BY <1>0, <1>1, <2>3, <2>5, <2>6, <2>7 DEF RequestOK
<1>7. CASE recordRoutingDecision(r)
  <2>1. /\ pc[r] = "scored" /\ pc'[r] = "routed" /\ UNCHANGED <<decision, gateway>>
        /\ routes'[r] = decision[r] /\ Others /\ Shape
    BY <1>0, <1>7 DEF recordRoutingDecision, go, RequestInv
  <2> QED
    BY <1>0, <1>1, <2>1 DEF RequestOK
<1>8. CASE callGateway(r)
  <2>1. /\ pc[r] = "routed" /\ pc'[r] = "calling" /\ UNCHANGED <<decision, routes>>
        /\ gateway'[r] = decision[r].selected /\ Others /\ Shape
    BY <1>0, <1>8 DEF callGateway, go, RequestInv, RequestOK
  <2> QED
    BY <1>0, <1>1, <2>1 DEF RequestOK
<1>9. CASE routingFails(r)
  BY <1>f, <1>9 DEF routingFails
<1> QED
  BY <1>5, <1>6, <1>7, <1>8, <1>9 DEF Walk

-------------------------------------------------------------------------------
(* The answer of the gateway. *)
LEMMA AnswerKeepsBreaker ==
  ASSUME Inv, NEW r \in Request, NEW success \in BOOLEAN, NEW latency \in Latency,
         answered(r, success, latency)
  PROVE  BreakerInv' /\ (\A g \in Gateway : circuit[g].state = "OPEN" => circuit'[g].state = "OPEN")
<1> DEFINE g == gateway[r]
           entry == IF success THEN recordSuccess(circuit[g]) ELSE recordFailure(circuit[g], threshold[g])
           failures == IF success THEN 0 ELSE streak[g] + 1
<1>1. BreakerInv /\ RequestInv /\ RequestOK(r) /\ pc[r] = "calling"
  BY DEF Inv, RequestInv, answered
<1>2. g \in Gateway
  BY <1>1 DEF RequestOK
<1>3. /\ circuit' = [circuit EXCEPT ![g] = entry]
      /\ streak' = [streak EXCEPT ![g] = failures]
      /\ earned' = [earned EXCEPT ![g] = earned[g] \/ failures >= threshold[g]]
      /\ UNCHANGED <<threshold, dbThreshold, changing>>
  <2>1. circuit[g].state # "HALF_OPEN" /\ earned[g] \in BOOLEAN
    BY <1>1, <1>2 DEF BreakerInv
  <2>2. earned' = [earned EXCEPT ![g] = (earned[g] /\ ~ (circuit[g].state = "HALF_OPEN"
                                                       /\ entry.state = "CLOSED"))
                                        \/ failures >= threshold[g]]
    BY DEF answered
  <2>3. (earned[g] /\ ~ (circuit[g].state = "HALF_OPEN" /\ entry.state = "CLOSED")) = earned[g]
    BY <2>1
  <2> QED
    BY <1>1, <2>2, <2>3 DEF answered, config, BreakerInv
<1>4. /\ circuit[g] \in Entry /\ circuit[g].state # "HALF_OPEN" /\ threshold[g] \in Nat \ {0}
      /\ streak[g] \in Nat
      /\ circuit[g].state = "CLOSED" => circuit[g].failureCount = streak[g]
  BY <1>1, <1>2, RoutingAssumption DEF BreakerInv
<1>5. /\ entry \in Entry /\ entry.state \in {"CLOSED", "OPEN"} /\ failures \in Nat
      /\ entry.state = "OPEN" <=> circuit[g].state = "OPEN" \/ failures >= threshold[g]
      /\ entry.state = "CLOSED" => entry.failureCount = failures
  <2>1. CASE success
    BY <1>4, <2>1, SuccessEntry DEF Entry
  <2>2. CASE ~ success
    <3>1. entry = recordFailure(circuit[g], threshold[g]) /\ failures = streak[g] + 1
      BY <2>2
    <3>2. /\ entry \in Entry /\ entry.state \in {"CLOSED", "OPEN"}
          /\ entry.state = "OPEN" <=> circuit[g].state = "OPEN" \/ circuit[g].failureCount + 1 >= threshold[g]
          /\ entry.failureCount = circuit[g].failureCount + 1
      BY <1>4, <3>1, FailureEntry
    <3> QED
      BY <1>4, <3>1, <3>2 DEF Entry
  <2> QED
    BY <2>1, <2>2
<1> HIDE DEF g, entry, failures
<1>6. circuit' \in [Gateway -> Entry] /\ streak' \in [Gateway -> Nat]
  BY <1>1, <1>2, <1>3, <1>5 DEF BreakerInv
<1>7. earned' \in [Gateway -> BOOLEAN] /\ (earned'[g] <=> earned[g] \/ failures >= threshold[g])
  <2>1. (earned[g] \/ failures >= threshold[g]) \in BOOLEAN
    OBVIOUS
  <2> QED
    BY <1>1, <1>2, <1>3, <2>1 DEF BreakerInv
<1>8. \A h \in Gateway : h # g => circuit'[h] = circuit[h] /\ streak'[h] = streak[h] /\ earned'[h] = earned[h]
  BY <1>1, <1>3 DEF BreakerInv
<1>9. circuit'[g] = entry /\ streak'[g] = failures
  BY <1>1, <1>2, <1>3 DEF BreakerInv
<1>10. circuit[g].state = "OPEN" <=> earned[g]
  BY <1>1, <1>2 DEF BreakerInv
<1>11. /\ circuit'[g].state # "HALF_OPEN"
       /\ circuit'[g].state = "OPEN" <=> earned'[g]
       /\ circuit'[g].state = "CLOSED" => circuit'[g].failureCount = streak'[g]
       /\ circuit[g].state = "OPEN" => circuit'[g].state = "OPEN"
  <2>1. circuit'[g].state = "OPEN" <=> earned'[g]
    BY <1>5, <1>7, <1>9, <1>10
  <2> QED
    BY <1>5, <1>9, <2>1
<1> QED
  BY <1>1, <1>3, <1>6, <1>7, <1>8, <1>11 DEF BreakerInv

LEMMA AnswerKeepsRequests ==
  ASSUME Inv, NEW r \in Request, NEW success \in BOOLEAN, NEW latency \in Latency,
         answered(r, success, latency)
  PROVE  RequestInv'
<1> DEFINE g == gateway[r]
           entry == IF success THEN recordSuccess(circuit[g]) ELSE recordFailure(circuit[g], threshold[g])
<1>1. BreakerInv /\ RequestInv /\ (\A q \in Request : RequestOK(q)) /\ pc[r] = "calling"
  BY DEF Inv, RequestInv, answered
<1>2. g \in Gateway
  BY <1>1 DEF RequestOK
<1>3. /\ circuit' = [circuit EXCEPT ![g] = entry]
      /\ straggler' = [straggler EXCEPT ![g] =
                         IF circuit[g].state # "OPEN" /\ entry.state = "OPEN"
                         THEN {q \in Request : decision[q].selected = g} ELSE straggler[g]]
      /\ pc' = [pc EXCEPT ![r] = "answered"]
      /\ decision' = [decision EXCEPT ![r] = NoScores]
      /\ UNCHANGED <<routes, gateway>>
  BY <1>1, <1>2 DEF answered, go, RequestInv
<1> HIDE DEF g, entry
<1>4. /\ pc'[r] = "answered" /\ decision'[r] = NoScores
      /\ \A q \in Request \ {r} : pc'[q] = pc[q] /\ decision'[q] = decision[q]
      /\ pc' \in [Request -> Stage] /\ DOMAIN decision' = Request /\ DOMAIN straggler' = Gateway
  BY <1>1, <1>3 DEF RequestInv, Stage
<1>5. ASSUME NEW q \in Request, q # r, pc[q] \in {"scored", "routed", "calling"},
             circuit'[decision[q].selected].state = "OPEN"
      PROVE  q \in straggler'[decision[q].selected]
  <2>1. decision[q].selected \in Gateway
        /\ (circuit[decision[q].selected].state = "OPEN" => q \in straggler[decision[q].selected])
    BY <1>1, <1>5 DEF RequestOK
  <2>2. CASE decision[q].selected = g
    <3>1. circuit'[g] = entry
          /\ straggler'[g] = IF circuit[g].state # "OPEN" /\ entry.state = "OPEN"
                             THEN {x \in Request : decision[x].selected = g} ELSE straggler[g]
      BY <1>1, <1>2, <1>3 DEF BreakerInv, RequestInv
    <3> QED
      BY <1>5, <2>1, <2>2, <3>1
  <2>3. CASE decision[q].selected # g
    <3>1. circuit'[decision[q].selected] = circuit[decision[q].selected]
          /\ straggler'[decision[q].selected] = straggler[decision[q].selected]
      BY <1>1, <1>3, <2>1, <2>3 DEF BreakerInv, RequestInv
    <3> QED
      BY <1>5, <2>1, <3>1
  <2> QED
    BY <2>2, <2>3
<1>6. \A q \in Request : q # r => RequestOK(q)'
  BY <1>1, <1>3, <1>4, <1>5 DEF RequestOK
<1>7. RequestOK(r)'
  BY <1>1, <1>3, <1>4 DEF RequestOK, NoScores, routesOf
<1> QED
  BY <1>1, <1>3, <1>4, <1>6, <1>7 DEF RequestInv

LEMMA AnswerKeepsInv ==
  ASSUME Inv, NEW r \in Request, NEW success \in BOOLEAN, NEW latency \in Latency,
         answered(r, success, latency)
  PROVE  Inv'
<1>1. BreakerInv' /\ RequestInv'
  BY AnswerKeepsBreaker, AnswerKeepsRequests
<1>2. SampleInv /\ ConfigInv /\ pc \in [Request -> Stage] /\ pc[r] = "calling"
  BY DEF Inv, RequestInv, answered
<1>3. /\ result' = [result EXCEPT ![r] = [success |-> success, latency |-> latency]]
      /\ buffer' = buffer \cup {r} /\ pc' = [pc EXCEPT ![r] = "answered"]
      /\ unlucky' = IF \E f \in Flush : flushing[f].stage # "idle" THEN unlucky \cup {r} ELSE unlucky
      /\ UNCHANGED <<enabled, weights, saved, flushing>>
  BY DEF answered, go, config
<1>4. ConfigInv'
  BY <1>2, <1>3 DEF ConfigInv
<1>5. \A q \in Request : Counting(q)' = Counting(q) /\ Counted(q)' = Counted(q)
  BY <1>3 DEF Counting, Counted
<1>6. SampleOK(r)'
  <2>1. /\ saved[r] = 0 /\ Counting(r) = {} /\ Counted(r) = {} /\ pc'[r] = "answered"
        /\ Cardinality({}) = 0 /\ Cardinality(Flush) \in Nat
    BY <1>2, <1>3, FS_EmptySet, FS_CardinalityType, RoutingAssumption DEF SampleInv, SampleOK
  <2>2. \A f \in Flush : flushing'[f].stage # "idle" => r \in unlucky'
    BY <1>3
  <2>3. /\ Cardinality(Counting(r)') = 0 /\ Cardinality(Counted(r)') = 0 /\ saved'[r] = 0
        /\ Counted(r)' = {} /\ r \in buffer'
    BY <1>3, <1>5, <2>1
  <2>4. saved'[r] + Cardinality(Counting(r)') <= Cardinality(Flush)
    BY <2>1, <2>3
  <2> HIDE <1>5
  <2> QED
    BY <2>1, <2>2, <2>3, <2>4 DEF SampleOK
<1>7. ASSUME NEW q \in Request, q # r PROVE SampleOK(q)'
  BY <1>2, <1>3, <1>5, <1>7 DEF SampleInv, SampleOK
<1>8. SampleInv'
  <2>1. result' \in [Request -> [success : BOOLEAN, latency : Nat]]
    BY <1>2, <1>3, RoutingAssumption DEF SampleInv
  <2> QED
    BY <1>2, <1>3, <1>6, <1>7, <2>1 DEF SampleInv
<1> QED
  BY <1>1, <1>4, <1>8 DEF Inv

-------------------------------------------------------------------------------
(* Flushes, counted. *)
LEMMA FlushSets ==
  ASSUME NEW A \in SUBSET Flush
  PROVE  IsFiniteSet(A) /\ Cardinality(A) \in Nat /\ Cardinality(A) <= Cardinality(Flush)
BY RoutingAssumption, FS_Subset, FS_CardinalityType

LEMMA DisjointFlushes ==
  ASSUME NEW A \in SUBSET Flush, NEW B \in SUBSET Flush, A \cap B = {}
  PROVE  Cardinality(A) + Cardinality(B) <= Cardinality(Flush)
<1>1. /\ IsFiniteSet(A) /\ IsFiniteSet(B)
      /\ Cardinality(A) \in Nat /\ Cardinality(B) \in Nat
  BY FlushSets
<1>2. Cardinality(A \cup B) = Cardinality(A) + Cardinality(B) - Cardinality(A \cap B)
  BY <1>1, FS_Union
<1>3. Cardinality(A \cap B) = 0
  BY FS_EmptySet
<1>4. Cardinality(A \cup B) <= Cardinality(Flush)
  BY FlushSets
<1> QED
  BY <1>1, <1>2, <1>3, <1>4

FlushStep(f) == beginFlush(f) \/ saveFlush(f) \/ failFlush(f) \/ clearBuffer(f)

(* What a flush does with one sample. *)
LEMMA FlushKeepsSample ==
  ASSUME SampleInv, NEW f \in Flush, FlushStep(f), NEW r \in Request
  PROVE  SampleOK(r)'
<1>1. /\ SampleOK(r) /\ saved[r] \in Nat /\ saved \in [Request -> Nat] /\ pc' = pc /\ unlucky' = unlucky
      /\ flushing \in [Flush -> [stage : {"idle", "saving", "saved"}, samples : SUBSET Request]]
  BY DEF SampleInv, FlushStep, beginFlush, saveFlush, failFlush, clearBuffer, requests
<1>2. /\ Counting(r) \in SUBSET Flush /\ Counted(r) \in SUBSET Flush /\ Counting(r) \cap Counted(r) = {}
      /\ Counting(r)' \in SUBSET Flush /\ Counted(r)' \in SUBSET Flush
  BY DEF Counting, Counted
<1>3. /\ IsFiniteSet(Counting(r)) /\ IsFiniteSet(Counted(r))
      /\ Cardinality(Counting(r)) \in Nat /\ Cardinality(Counted(r)) \in Nat
      /\ Cardinality(Flush) \in Nat
  BY <1>2, FlushSets
<1>4. CASE beginFlush(f)
  <2>1. /\ flushing' = [flushing EXCEPT ![f] = [stage |-> "saving", samples |-> buffer]]
        /\ flushing[f].stage = "idle" /\ UNCHANGED <<buffer, saved>>
    BY <1>4 DEF beginFlush
  <2>2. /\ f \notin Counting(r) /\ f \notin Counted(r) /\ Counted(r)' = Counted(r)
        /\ Counting(r)' = IF r \in buffer THEN Counting(r) \cup {f} ELSE Counting(r)
    BY <1>1, <2>1 DEF Counting, Counted
  <2>3. saved[r] + Cardinality(Counting(r)') <= Cardinality(Flush)
    <3>1. CASE r \in buffer
      <4>1. saved[r] = Cardinality(Counted(r))
        BY <1>1, <3>1 DEF SampleOK
      <4>2. (Counting(r)') \cap Counted(r) = {}
        BY <1>2, <2>2
      <4> QED
        BY <1>2, <1>3, <4>1, <4>2, DisjointFlushes, FlushSets
    <3>2. CASE r \notin buffer
      BY <1>1, <2>2, <3>2 DEF SampleOK
    <3> QED
      BY <3>1, <3>2
  <2>4. \A x \in Flush : flushing'[x].stage # "idle" /\ r \in buffer => r \in flushing'[x].samples \/ r \in unlucky
    BY <1>1, <2>1 DEF SampleOK
  <2>5. pc[r] # "answered" => Counting(r)' = {}
    BY <1>1, <2>2 DEF SampleOK
  <2> QED
    BY <1>1, <2>1, <2>2, <2>3, <2>4, <2>5 DEF SampleOK
<1>5. CASE saveFlush(f)
  <2>1. /\ flushing' = [flushing EXCEPT ![f].stage = "saved"] /\ flushing[f].stage = "saving"
        /\ saved'[r] = saved[r] + IF r \in flushing[f].samples THEN 1 ELSE 0
        /\ buffer' = buffer
    BY <1>1, <1>5 DEF saveFlush
  <2>2. CASE r \notin flushing[f].samples
    <3>1. Counting(r)' = Counting(r) /\ Counted(r)' = Counted(r) /\ saved'[r] = saved[r]
      BY <1>1, <2>1, <2>2 DEF Counting, Counted
    <3>2. \A x \in Flush : flushing'[x].stage # "idle" /\ r \in buffer => r \in flushing'[x].samples \/ r \in unlucky
      BY <1>1, <2>1 DEF SampleOK
    <3> QED
      BY <1>1, <2>1, <3>1, <3>2 DEF SampleOK
  <2>3. CASE r \in flushing[f].samples
    <3>1. /\ f \in Counting(r) /\ f \notin Counted(r) /\ saved'[r] = saved[r] + 1
          /\ Counting(r)' = Counting(r) \ {f} /\ Counted(r)' = Counted(r) \cup {f}
      BY <1>1, <2>1, <2>3 DEF Counting, Counted
    <3>2. /\ Cardinality(Counting(r)') = Cardinality(Counting(r)) - 1
          /\ Cardinality(Counted(r)') = Cardinality(Counted(r)) + 1
      <4>1. Cardinality(Counting(r) \ {f}) = Cardinality(Counting(r)) - 1
        BY <1>3, <3>1, FS_RemoveElement
      <4>2. Cardinality(Counted(r) \cup {f}) = Cardinality(Counted(r)) + 1
        BY <1>3, <3>1, FS_AddElement
      <4> QED
        BY <3>1, <4>1, <4>2
    <3>3. pc[r] = "answered"
      BY <1>1, <3>1 DEF SampleOK
    <3>4. \A x \in Flush : flushing'[x].stage # "idle" /\ r \in buffer => r \in flushing'[x].samples \/ r \in unlucky
      BY <1>1, <2>1 DEF SampleOK
    <3>5. saved'[r] + Cardinality(Counting(r)') <= Cardinality(Flush)
      BY <1>1, <1>3, <3>1, <3>2 DEF SampleOK
    <3>6. r \in buffer => saved'[r] = Cardinality(Counted(r)')
      BY <1>1, <3>1, <3>2 DEF SampleOK
    <3>7. saved'[r] > 0
      BY <1>1, <3>1
    <3> QED
      BY <1>1, <2>1, <3>3, <3>4, <3>5, <3>6, <3>7 DEF SampleOK
  <2> QED
    BY <2>2, <2>3
<1>6. CASE failFlush(f)
  <2>1. /\ flushing' = [flushing EXCEPT ![f] = [stage |-> "idle", samples |-> {}]]
        /\ flushing[f].stage = "saving" /\ UNCHANGED <<buffer, saved>>
    BY <1>6 DEF failFlush
  <2>2. Counting(r)' = Counting(r) \ {f} /\ Counted(r)' = Counted(r)
    BY <1>1, <2>1 DEF Counting, Counted
  <2>3. Cardinality(Counting(r)') <= Cardinality(Counting(r)) /\ Cardinality(Counting(r)') \in Nat
    BY <1>3, <2>2, FS_Subset, FS_CardinalityType
  <2>4. saved[r] + Cardinality(Counting(r)') <= Cardinality(Flush)
    BY <1>1, <1>3, <2>3 DEF SampleOK
  <2>5. \A x \in Flush : flushing'[x].stage # "idle" => flushing'[x] = flushing[x]
    BY <1>1, <2>1
  <2>6. pc[r] # "answered" => Counting(r)' = {}
    BY <1>1, <2>2 DEF SampleOK
  <2> QED
    BY <1>1, <2>1, <2>2, <2>4, <2>5, <2>6 DEF SampleOK
<1>7. CASE clearBuffer(f)
  <2>1. /\ flushing' = [flushing EXCEPT ![f] = [stage |-> "idle", samples |-> {}]]
        /\ flushing[f].stage = "saved" /\ buffer' = {} /\ UNCHANGED saved
    BY <1>7 DEF clearBuffer
  <2>2. Counting(r)' = Counting(r) /\ Counted(r)' = Counted(r) \ {f}
    BY <1>1, <2>1 DEF Counting, Counted
  <2>3. r \in buffer => saved[r] > 0 \/ r \in unlucky
    BY <1>1, <2>1 DEF SampleOK, Counted
  <2> QED
    BY <1>1, <2>1, <2>2, <2>3 DEF SampleOK
<1> QED
  BY <1>4, <1>5, <1>6, <1>7 DEF FlushStep

LEMMA FlushKeepsInv ==
  ASSUME Inv, NEW f \in Flush, FlushStep(f)
  PROVE  Inv'
<1>1. BreakerInv /\ RequestInv /\ SampleInv /\ ConfigInv
  BY DEF Inv
<1>2. UNCHANGED <<circuit, threshold, enabled, dbThreshold, weights, changing, pc, decision, routes,
                  gateway, result, unlucky, streak, earned, straggler>>
  BY DEF FlushStep, beginFlush, saveFlush, failFlush, clearBuffer, breaker, config, requests, history
<1>3. BreakerInv' /\ RequestInv' /\ ConfigInv'
  BY <1>1, <1>2 DEF BreakerInv, RequestInv, RequestOK, ConfigInv
<1>4. buffer' \subseteq Request /\ saved' \in [Request -> Nat]
  BY <1>1 DEF SampleInv, FlushStep, beginFlush, saveFlush, failFlush, clearBuffer
<1>5. flushing' \in [Flush -> [stage : {"idle", "saving", "saved"}, samples : SUBSET Request]]
  BY <1>1 DEF SampleInv, FlushStep, beginFlush, saveFlush, failFlush, clearBuffer
<1>6. \A r \in Request : SampleOK(r)'
  BY <1>1, FlushKeepsSample
<1> QED
  BY <1>1, <1>2, <1>3, <1>4, <1>5, <1>6 DEF Inv, SampleInv

(* The passing of the timeout leaves an open circuit open.                  *)
LEMMA TimeoutKeepsInv ==
  ASSUME Inv, NEW g \in Gateway, timeoutElapses(g)
  PROVE  Inv'
<1>1. BreakerInv /\ RequestInv /\ SampleInv /\ ConfigInv
  BY DEF Inv
<1>2. UNCHANGED <<threshold, enabled, dbThreshold, weights, changing, pc, decision, routes, gateway,
                  result, buffer, saved, flushing, unlucky, streak, earned, straggler>>
  BY DEF timeoutElapses, config, requests, health, history
<1>3. /\ circuit' \in [Gateway -> Entry]
      /\ \A h \in Gateway : /\ circuit'[h].state = circuit[h].state
                           /\ circuit'[h].failureCount = circuit[h].failureCount
  <2>1. circuit' = [circuit EXCEPT ![g] = [circuit[g] EXCEPT !.cooled = TRUE]] /\ circuit[g] \in Entry
    BY <1>1 DEF timeoutElapses, BreakerInv
  <2>2. /\ [circuit[g] EXCEPT !.cooled = TRUE] \in Entry
        /\ [circuit[g] EXCEPT !.cooled = TRUE].state = circuit[g].state
        /\ [circuit[g] EXCEPT !.cooled = TRUE].failureCount = circuit[g].failureCount
    BY <2>1 DEF Entry
  <2> QED
    BY <1>1, <2>1, <2>2 DEF BreakerInv
<1>4. BreakerInv' /\ ConfigInv'
  BY <1>1, <1>2, <1>3 DEF BreakerInv, ConfigInv
<1>5. RequestInv'
  BY <1>1, <1>2, <1>3 DEF RequestInv, RequestOK
<1>6. SampleInv'
  BY <1>1, <1>2 DEF SampleInv, SampleOK, Counting, Counted
<1> QED
  BY <1>4, <1>5, <1>6 DEF Inv

-------------------------------------------------------------------------------
ChangeStep ==
  \/ \E a \in Admin :
       \/ \E g \in Gateway, on \in BOOLEAN, n \in Threshold : updateConfig(a, g, on, n)
       \/ findAll(a) \/ loadConfigs(a)
  \/ \E w \in Weighting : updateRoutingConfig(w)

(* A new threshold counts from the next failure on. *)
LEMMA ChangeKeepsInv ==
  ASSUME Inv, ChangeStep
  PROVE  Inv'
<1>1. BreakerInv /\ RequestInv /\ SampleInv /\ ConfigInv
  BY DEF Inv
<1>2. UNCHANGED <<circuit, pc, decision, routes, gateway, result, buffer, saved, flushing, unlucky, streak,
                  earned, straggler>>
  BY DEF ChangeStep, updateConfig, findAll, loadConfigs, updateRoutingConfig, breaker, requests, health,
         history
<1>3. RequestInv' /\ SampleInv'
  <2>1. RequestInv'
    BY <1>1, <1>2 DEF RequestInv, RequestOK
  <2>2. \A r \in Request : Counting(r)' = Counting(r) /\ Counted(r)' = Counted(r)
    BY <1>2 DEF Counting, Counted
  <2>3. SampleInv'
    BY <1>1, <1>2, <2>2 DEF SampleInv, SampleOK
  <2> QED
    BY <2>1, <2>3
<1>4. /\ threshold' \in [Gateway -> Threshold] /\ dbThreshold' \in [Gateway -> Threshold]
      /\ changing' \in [Admin -> [stage : {"idle", "updated", "read"}, read : [Gateway -> Threshold]]]
      /\ ConfigInv'
  <2>1. ASSUME NEW a \in Admin, NEW g \in Gateway, NEW on \in BOOLEAN, NEW n \in Threshold,
               updateConfig(a, g, on, n)
        PROVE  <1>4!:
    BY <1>1, <2>1 DEF updateConfig, breaker, BreakerInv, ConfigInv
  <2>2. ASSUME NEW a \in Admin, findAll(a) PROVE <1>4!:
    BY <1>1, <2>2 DEF findAll, breaker, BreakerInv, ConfigInv
  <2>3. ASSUME NEW a \in Admin, loadConfigs(a) PROVE <1>4!:
    BY <1>1, <2>3 DEF loadConfigs, BreakerInv, ConfigInv
  <2>4. ASSUME NEW w \in Weighting, updateRoutingConfig(w) PROVE <1>4!:
    BY <1>1, <2>4 DEF updateRoutingConfig, breaker, BreakerInv, ConfigInv
  <2> QED
    BY <2>1, <2>2, <2>3, <2>4 DEF ChangeStep
<1>5. BreakerInv'
  BY <1>1, <1>2, <1>4 DEF BreakerInv
<1> QED
  BY <1>3, <1>4, <1>5 DEF Inv

LEMMA RestartKeepsInv == Inv /\ restart => Inv'
<1> SUFFICES ASSUME Inv, restart PROVE Inv'
  OBVIOUS
<1>1. BreakerInv /\ RequestInv /\ SampleInv /\ ConfigInv
  BY DEF Inv
<1>2. BreakerInv' /\ ConfigInv'
  BY <1>1 DEF restart, BreakerInv, ConfigInv, Entry, Closed
<1>3. RequestInv'
  <2>1. /\ pc' = [r \in Request |-> IF pc[r] \in {"new", "answered"} THEN pc[r] ELSE "failed"]
        /\ decision' = [r \in Request |-> NoScores] /\ straggler' = [g \in Gateway |-> {}]
        /\ UNCHANGED <<routes, gateway>>
    BY DEF restart
  <2>2. \A r \in Request : RequestOK(r)'
    BY <1>1, <2>1 DEF RequestInv, RequestOK, NoScores, routesOf
  <2>3. pc' \in [Request -> Stage]
    BY <1>1, <2>1 DEF RequestInv, Stage
  <2> QED
    BY <1>1, <2>1, <2>2, <2>3 DEF RequestInv
<1>4. SampleInv'
  <2>1. /\ buffer' = {} /\ unlucky' = unlucky \cup buffer /\ UNCHANGED <<saved, result>>
        /\ flushing' = [f \in Flush |-> [stage |-> "idle", samples |-> {}]]
    BY DEF restart
  <2>2. \A r \in Request : pc'[r] = "answered" <=> pc[r] = "answered"
    BY DEF restart
  <2>3. ASSUME NEW r \in Request PROVE SampleOK(r)'
    <3>1. Counting(r)' = {} /\ Counted(r)' = {}
      BY <2>1 DEF Counting, Counted
    <3>2. saved[r] \in Nat /\ SampleOK(r) /\ Counting(r) \in SUBSET Flush
      BY <1>1 DEF SampleInv, Counting
    <3>3. Cardinality(Counting(r)) \in Nat /\ Cardinality(Flush) \in Nat /\ Cardinality({}) = 0
      BY <3>2, FlushSets, FS_EmptySet
    <3>4. saved'[r] + Cardinality(Counting(r)') <= Cardinality(Flush)
      BY <2>1, <3>1, <3>2, <3>3 DEF SampleOK
    <3> QED
      BY <2>1, <2>2, <3>1, <3>2, <3>4 DEF SampleOK
  <2> QED
    BY <1>1, <2>1, <2>3 DEF SampleInv
<1> QED
  BY <1>2, <1>3, <1>4 DEF Inv

LEMMA StutterKeepsInv == Inv /\ UNCHANGED vars => Inv'
<1> SUFFICES ASSUME Inv, UNCHANGED vars PROVE Inv'
  OBVIOUS
<1>1. UNCHANGED <<circuit, threshold, enabled, dbThreshold, weights, changing, pc, decision, routes,
                  gateway, result, buffer, saved, flushing, unlucky, streak, earned, straggler>>
  BY DEF vars, breaker, config, requests, health, history
<1>2. BreakerInv' /\ RequestInv' /\ ConfigInv'
  BY <1>1 DEF Inv, BreakerInv, RequestInv, RequestOK, ConfigInv
<1>3. SampleInv'
  BY <1>1 DEF Inv, SampleInv, SampleOK, Counting, Counted
<1> QED
  BY <1>2, <1>3 DEF Inv

LEMMA InvHolds == Spec => []Inv
<1>1. Next => \/ \E r \in Request : Walk(r)
              \/ \E r \in Request, success \in BOOLEAN, latency \in Latency : answered(r, success, latency)
              \/ \E g \in Gateway : timeoutElapses(g)
              \/ \E f \in Flush : FlushStep(f)
              \/ ChangeStep
              \/ restart
  BY DEF Next, Walk, FlushStep, ChangeStep
<1>2. Inv /\ [Next]_vars => Inv'
  BY <1>1, WalkKeepsInv, AnswerKeepsInv, TimeoutKeepsInv, FlushKeepsInv, ChangeKeepsInv,
     RestartKeepsInv, StutterKeepsInv
<1> QED
  BY <1>2, InitInv, PTL DEF Spec

(* The breaker's store and configuration, the requests, the buffer and the  *)
(* rows of the health metrics keep their types.                             *)
THEOREM TypeCorrect == Spec => []TypeOK
<1>1. Inv => TypeOK
  <2> SUFFICES ASSUME Inv PROVE TypeOK
    OBVIOUS
  <2>1. saved \in [Request -> 0 .. Cardinality(Flush)]
    <3>1. ASSUME NEW r \in Request PROVE saved[r] \in 0 .. Cardinality(Flush)
      <4>1. saved[r] \in Nat /\ saved[r] + Cardinality(Counting(r)) <= Cardinality(Flush)
        BY DEF Inv, SampleInv, SampleOK
      <4>2. Cardinality(Counting(r)) \in Nat /\ Cardinality(Flush) \in Nat
        BY FlushSets DEF Counting
      <4> QED
        BY <4>1, <4>2
    <3> QED
      BY <3>1 DEF Inv, SampleInv
  <2>2. \A r \in Request : decision[r].selected \in Gateway \cup {None}
    BY DEF Inv, RequestInv, RequestOK
  <2> QED
    BY <2>1, <2>2 DEF Inv, TypeOK, BreakerInv, RequestInv, SampleInv, ConfigInv, Entry, Stage
<1> QED
  BY <1>1, InvHolds, PTL

(* recordSuccess and recordFailure open a circuit exactly when the          *)
(* threshold in memory is reached by failures in a row, and no late success *)
(* closes it.                                                               *)
THEOREM CircuitsOpenWhenEarned == Spec => []OpensWhenEarned
<1>1. Inv => OpensWhenEarned
  BY DEF Inv, BreakerInv, OpensWhenEarned
<1> QED
  BY <1>1, InvHolds, PTL

(* An open gateway is called only by requests that selectGateway had        *)
(* answered, from the state it saw, before the circuit opened.              *)
THEOREM OpenGatewaysGetStragglers == Spec => []OnlyStragglersCallOpen
<1>1. Inv => OnlyStragglersCallOpen
  BY DEF Inv, RequestInv, RequestOK, OnlyStragglersCallOpen
<1> QED
  BY <1>1, InvHolds, PTL

(* The gateway of the transactions row is the selected one in               *)
(* gateway_routes, and the best of those scored there.                      *)
THEOREM RoutesAreRecorded == Spec => []RoutedAsRecorded
<1>1. Inv => RoutedAsRecorded
  BY DEF Inv, RequestInv, RequestOK, RoutedAsRecorded
<1> QED
  BY <1>1, InvHolds, PTL

(* No sample vanishes except during a flush or in a restart, and none       *)
(* counts more often than flushes can overlap: once, if they do not.        *)
THEOREM SamplesAreCounted == Spec => []SamplesAreAccountedFor
<1>1. Inv => SamplesAreAccountedFor
  <2> SUFFICES ASSUME Inv, NEW r \in Request
               PROVE  /\ pc[r] = "answered" => r \in buffer \/ saved[r] > 0 \/ r \in unlucky
                      /\ saved[r] <= Cardinality(Flush)
    BY DEF SamplesAreAccountedFor
  <2>1. SampleOK(r) /\ saved[r] \in Nat
    BY DEF Inv, SampleInv
  <2>2. Cardinality(Counting(r)) \in Nat /\ Cardinality(Flush) \in Nat
    BY FlushSets DEF Counting
  <2> QED
    BY <2>1, <2>2 DEF SampleOK
<1> QED
  BY <1>1, InvHolds, PTL
================================================================================
