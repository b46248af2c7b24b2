---------------------------- MODULE GatewayRouting ----------------------------
(***************************************************************************)
(* How a payment finds its gateway: GatewayRouterService scores the        *)
(* gateways by configuration, health metrics and circuit breakers,         *)
(* TransactionsService calls the selected one and reports the result to    *)
(* the breaker and to GatewayHealthService, which writes it to the         *)
(* database every minute, for the next scores.  One server process, one    *)
(* payment method and currency.                                            *)
(*                                                                         *)
(* CircuitBreakerService.guardRequest is left out: nothing calls it.  It   *)
(* is the only way from OPEN to HALF_OPEN (see OpenCircuitIsProbed).       *)
(***************************************************************************)
EXTENDS Integers, FiniteSets

CONSTANTS
  Gateway,           \* gateways with this method and currency
  Request,           \* payment initiations
  Flush,             \* flushes that may overlap
  Admin,             \* configuration changes that may overlap
  Threshold,         \* values of cbFailureThreshold
  seededThreshold,   \* its value at first
  Weighting,         \* values of the routing weights, in percent
  Latency,           \* how long a call may take
  Cost,              \* of each gateway
  halfOpenRequests, degradedSkipThreshold,
  MaxDisturbances    \* bound: configuration changes and restarts

(* The weights of routing_config at first. *)
defaultWeights == [success |-> 35, latency |-> 20, cost |-> 20, health |-> 15, fit |-> 10]

ASSUME RoutingAssumption ==
  /\ Threshold \subseteq Nat \ {0} /\ seededThreshold \in Threshold
  /\ defaultWeights \in Weighting
  /\ Latency \subseteq Nat
  /\ IsFiniteSet(Flush)
  /\ MaxDisturbances \in Nat

None == "none"

VARIABLES
  circuit,        \* the breaker's store
  threshold,      \* the breaker's configs, in memory
  enabled,        \* is_enabled of gateway_config
  dbThreshold,    \* cb_failure_threshold of gateway_config
  weights,        \* of routing_config
  pc, seen,       \* of the requests: progress, weights and metrics read
  decision,       \* the scores of a request and its selection, in memory
  routes,         \* gateway_routes: scores and selection
  gateway,        \* the column of the transactions row
  result,         \* how the call to the gateway went
  buffer,         \* the requests whose samples are buffered
  saved,          \* how often a sample is counted in gateway_health_metrics
  flushing,       \* of a flush: progress and the samples it writes
  changing,       \* of a configuration change: progress and what it read
  disturbances,
  streak,         \* failures of a gateway in a row (history)
  earned,         \* as many as open a circuit (history)
  straggler,      \* requests that selected a gateway before it opened (history)
  unlucky         \* samples recorded during a save or lost by a restart (history)

breaker  == <<circuit, threshold>>
config   == <<enabled, dbThreshold, weights, changing>>
requests == <<pc, seen, decision, routes, gateway, result>>
health   == <<buffer, saved, flushing, unlucky>>
history  == <<streak, earned, straggler>>
vars     == <<breaker, config, requests, health, history, disturbances>>

(* cooled: cb_timeout_ms have passed since openedAt. *)
Closed == [state |-> "CLOSED", failureCount |-> 0, successCountInHalfOpen |-> 0, cooled |-> FALSE]

Nothing  == [weights |-> <<>>, metrics |-> <<>>]

(* The rows of gateway_routes that show how a payment was routed. *)
routesOf(scores, selected) == [scores |-> scores, selected |-> selected]

NoScores == routesOf(<<>>, None)
NoSample == [success |-> FALSE, latency |-> 0]

Init ==
  /\ circuit = [g \in Gateway |-> Closed]
  /\ dbThreshold = [g \in Gateway |-> seededThreshold]
  /\ threshold = dbThreshold
  /\ enabled = [g \in Gateway |-> TRUE]
  /\ weights = defaultWeights
  /\ pc = [r \in Request |-> "new"]
  /\ seen = [r \in Request |-> Nothing]
  /\ decision = [r \in Request |-> NoScores]
  /\ routes = [r \in Request |-> NoScores]
  /\ gateway = [r \in Request |-> None]
  /\ result = [r \in Request |-> NoSample]
  /\ buffer = {} /\ saved = [r \in Request |-> 0]
  /\ flushing = [f \in Flush |-> [stage |-> "idle", samples |-> {}]]
  /\ changing = [a \in Admin |-> [stage |-> "idle", read |-> dbThreshold]]
  /\ disturbances = 0
  /\ streak = [g \in Gateway |-> 0]
  /\ earned = [g \in Gateway |-> FALSE]
  /\ straggler = [g \in Gateway |-> {}]
  /\ unlucky = {}

------------------------------------------------------------------------------
(* CircuitBreakerService, on the entry of a gateway. *)
transitionTo(entry, newState) ==
  [state |-> newState, successCountInHalfOpen |-> 0, cooled |-> FALSE,
   failureCount |-> IF newState = "CLOSED" THEN 0 ELSE entry.failureCount]

\* Faulty variant: a success closes the circuit from whatever state.
anySuccessCloses(entry) == transitionTo(entry, "CLOSED")

recordSuccess(entry) ==
  IF entry.state = "HALF_OPEN"
  THEN IF entry.successCountInHalfOpen + 1 >= halfOpenRequests
       THEN transitionTo(entry, "CLOSED")
       ELSE [entry EXCEPT !.successCountInHalfOpen = @ + 1]
  ELSE IF entry.state = "CLOSED" THEN [entry EXCEPT !.failureCount = 0]
  ELSE entry

recordFailure(entry, failureThreshold) ==
  LET failed == [entry EXCEPT !.failureCount = @ + 1] IN
  IF \/ entry.state = "HALF_OPEN"
     \/ entry.state = "CLOSED" /\ failed.failureCount >= failureThreshold
  THEN transitionTo(failed, "OPEN")
  ELSE failed

(* The scores are fractions with this denominator: it makes the rates of   *)
(* up to six samples whole numbers.                                        *)
Scale == 60

getHealthScore(state) ==
  IF state = "CLOSED" THEN Scale ELSE IF state = "HALF_OPEN" THEN Scale \div 2 ELSE 0

------------------------------------------------------------------------------
least(S, default)    == IF S = {} THEN default ELSE CHOOSE x \in S : \A y \in S : x <= y
greatest(S, default) == IF S = {} THEN default ELSE CHOOSE x \in S : \A y \in S : y <= x

orOne(range) == IF range = 0 THEN 1 ELSE range

(* The rows of gateway_health_metrics added up per gateway.  A sample      *)
(* counts as often as it has been saved.  With fewer than twenty samples   *)
(* the 95th percentile is the slowest.                                     *)
getSlidingWindowMetrics(g) ==
  LET of == {r \in Request : saved[r] > 0 /\ gateway[r] = g}
      rows(S) == Cardinality({p \in S \X (1 .. Cardinality(Flush)) : p[2] <= saved[p[1]]})
  IN  [totalCount |-> rows(of),
       totalSuccess |-> rows({r \in of : result[r].success}),
       p95LatencyMs |-> greatest({result[r].latency : r \in of}, 0)]

(* The score of a gateway among the enabled ones.  A latency of zero, and  *)
(* a gateway without metrics, do not count for the bounds.                 *)
compositeScore(g, metrics, weight) ==
  LET among     == {h \in Gateway : enabled[h]}
      known(h)  == metrics[h].totalCount > 0
      latencies == {metrics[h].p95LatencyMs : h \in {x \in among : known(x)}} \ {0}
      costs     == {Cost[h] : h \in among}
      low       == least(latencies, 0)
      high      == greatest(latencies, 1)
      p95       == IF known(g) THEN metrics[g].p95LatencyMs ELSE high
      successes == IF known(g) THEN (metrics[g].totalSuccess * Scale) \div metrics[g].totalCount
                   ELSE (95 * Scale) \div 100
  IN  weight.success * successes
      + weight.latency * (Scale - ((p95 - low) * Scale) \div orOne(high - low))
      + weight.cost * (Scale - ((Cost[g] - least(costs, 0)) * Scale)
                                 \div orOne(greatest(costs, 0) - least(costs, 0)))
      + weight.health * getHealthScore(circuit[g].state)
      + weight.fit * Scale

best(S, scores) == {g \in S : \A h \in S : scores[h] <= scores[g]}

\* Faulty variant: sorted in ascending order.
selectionAscending(scores) ==
  {g \in DOMAIN scores : \A h \in DOMAIN scores : scores[g] <= scores[h]}

(* Whom the scores may select: equal scores are in the database's order.   *)
(* A half-open one gives way to the next if that is close enough.          *)
selection(scores) ==
  {selected \in DOMAIN scores :
     \E top \in best(DOMAIN scores, scores) :
       LET next  == best(DOMAIN scores \ {top}, scores)
           close == {g \in next : scores[top] - scores[g] <= degradedSkipThreshold}
       IN  IF circuit[top].state = "HALF_OPEN" /\ close # {} THEN selected \in close
           ELSE selected = top}

go(r, where) == pc' = [pc EXCEPT ![r] = where]

(* The request has failed: what it had in memory is gone. *)
fail(r) ==
  /\ go(r, "failed")
  /\ seen' = [seen EXCEPT ![r] = Nothing]
  /\ decision' = [decision EXCEPT ![r] = NoScores]

(* The table always has its row. *)
loadRoutingConfig == weights

(* selectGateway: its first two queries read tables of their own. *)
readMetrics(r) ==
  /\ pc[r] = "new"
  /\ seen' = [seen EXCEPT ![r] = [weights |-> loadRoutingConfig,
                                 metrics |-> [g \in Gateway |-> getSlidingWindowMetrics(g)]]]
  /\ go(r, "measured")
  /\ UNCHANGED <<breaker, config, decision, routes, gateway, result, health, history, disturbances>>

\* Faulty variant: a circuit that is open lowers the score, no more.
scoreAll(r) ==
  LET eligible == {g \in Gateway : enabled[g]}
      scores   == [g \in eligible |-> compositeScore(g, seen[r].metrics, seen[r].weights)]
  IN  /\ pc[r] = "measured"
      /\ IF eligible = {} THEN fail(r)
         ELSE /\ \E selected \in selection(scores) :
                   decision' = [decision EXCEPT ![r] = routesOf(scores, selected)]
              /\ seen' = [seen EXCEPT ![r] = Nothing]
              /\ go(r, "scored")
      /\ UNCHANGED <<breaker, config, routes, gateway, result, health, history, disturbances>>

(* From the list of the enabled gateways on nothing is awaited.            *)
score(r) ==
  LET eligible == {g \in Gateway : enabled[g] /\ circuit[g].state # "OPEN"}
      scores   == [g \in eligible |-> compositeScore(g, seen[r].metrics, seen[r].weights)]
  IN  /\ pc[r] = "measured"
      /\ IF eligible = {} THEN fail(r)
         ELSE /\ \E selected \in selection(scores) :
                   decision' = [decision EXCEPT ![r] = routesOf(scores, selected)]
              /\ seen' = [seen EXCEPT ![r] = Nothing]
              /\ go(r, "scored")
      /\ UNCHANGED <<breaker, config, routes, gateway, result, health, history, disturbances>>

recordRoutingDecision(r) ==
  /\ pc[r] = "scored"
  /\ routes' = [routes EXCEPT ![r] = decision[r]]
  /\ go(r, "routed")
  /\ UNCHANGED <<breaker, config, seen, decision, gateway, result, health, history, disturbances>>

(* initiatePayment goes on: transitions, the gateway column, the call. *)
callGateway(r) ==
  /\ pc[r] = "routed"
  /\ gateway' = [gateway EXCEPT ![r] = decision[r].selected]
  /\ go(r, "calling")
  /\ UNCHANGED <<breaker, config, seen, decision, routes, result, health, history, disturbances>>

(* A statement before the call fails. *)
routingFails(r) ==
  /\ pc[r] \in {"new", "measured", "scored", "routed"}
  /\ fail(r)
  /\ UNCHANGED <<breaker, config, routes, gateway, result, health, history, disturbances>>

(* The answer of authorise: authorised and pending are successes, declined *)
(* and every exception failures.  record(), the breaker and the history.   *)
answered(r, success, latency) ==
  LET g      == gateway[r]
      entry  == IF success THEN recordSuccess(circuit[g]) ELSE recordFailure(circuit[g], threshold[g])
      run    == IF success THEN 0 ELSE streak[g] + 1
      probed == circuit[g].state = "HALF_OPEN" /\ entry.state = "CLOSED"
  IN  /\ pc[r] = "calling"
      /\ result' = [result EXCEPT ![r] = [success |-> success, latency |-> latency]]
      /\ buffer' = buffer \cup {r}
      /\ circuit' = [circuit EXCEPT ![g] = entry]
      /\ go(r, "answered")
      /\ decision' = [decision EXCEPT ![r] = NoScores]
      /\ unlucky' = IF \E f \in Flush : flushing[f].stage # "idle" THEN unlucky \cup {r} ELSE unlucky
      /\ streak' = [streak EXCEPT ![g] = run]
      /\ earned' = [earned EXCEPT ![g] = (@ /\ ~ probed) \/ run >= threshold[g]]
      /\ straggler' =
           [straggler EXCEPT ![g] =
              IF circuit[g].state # "OPEN" /\ entry.state = "OPEN"
              THEN {q \in Request : decision[q].selected = g} ELSE @]
      /\ UNCHANGED <<threshold, config, seen, routes, gateway, saved, flushing, disturbances>>

(* The time that guardRequest would compare with the timeout. *)
timeoutElapses(g) ==
  /\ circuit[g].state = "OPEN" /\ ~ circuit[g].cooled
  /\ circuit' = [circuit EXCEPT ![g].cooled = TRUE]
  /\ UNCHANGED <<threshold, config, requests, health, history, disturbances>>

------------------------------------------------------------------------------
(* flush: the rows are computed, saved, and the whole buffer cleared.  The *)
(* scheduler does not wait for the flush before.                           *)
beginFlush(f) ==
  /\ flushing[f].stage = "idle" /\ buffer # {}
  /\ flushing' = [flushing EXCEPT ![f] = [stage |-> "saving", samples |-> buffer]]
  /\ UNCHANGED <<breaker, config, requests, buffer, saved, unlucky, history, disturbances>>

saveFlush(f) ==
  /\ flushing[f].stage = "saving"
  /\ saved' = [r \in Request |-> saved[r] + IF r \in flushing[f].samples THEN 1 ELSE 0]
  /\ flushing' = [flushing EXCEPT ![f].stage = "saved"]
  /\ UNCHANGED <<breaker, config, requests, buffer, unlucky, history, disturbances>>

\* Faulty variant: the buffer is cleared after a failure as well.
failAndClear(f) ==
  /\ flushing[f].stage = "saving"
  /\ flushing' = [flushing EXCEPT ![f] = [stage |-> "idle", samples |-> {}]]
  /\ buffer' = {}
  /\ UNCHANGED <<breaker, config, requests, saved, unlucky, history, disturbances>>

(* The scheduler logs the error; the samples are for the next flush. *)
failFlush(f) ==
  /\ flushing[f].stage = "saving"
  /\ flushing' = [flushing EXCEPT ![f] = [stage |-> "idle", samples |-> {}]]
  /\ UNCHANGED <<breaker, config, requests, buffer, saved, unlucky, history, disturbances>>

\* Faulty variant: the buffer keeps what has been saved.
keepBuffer(f) ==
  /\ flushing[f].stage = "saved"
  /\ flushing' = [flushing EXCEPT ![f] = [stage |-> "idle", samples |-> {}]]
  /\ UNCHANGED <<breaker, config, requests, buffer, saved, unlucky, history, disturbances>>

clearBuffer(f) ==
  /\ flushing[f].stage = "saved"
  /\ buffer' = {}
  /\ flushing' = [flushing EXCEPT ![f] = [stage |-> "idle", samples |-> {}]]
  /\ UNCHANGED <<breaker, config, requests, saved, unlucky, history, disturbances>>

------------------------------------------------------------------------------
disturbed == disturbances < MaxDisturbances /\ disturbances' = disturbances + 1

(* updateGatewayConfig writes the row, then loadConfigs reads all rows and *)
(* keeps them in memory.                                                   *)
updateConfig(a, g, on, n) ==
  /\ changing[a].stage = "idle" /\ disturbed
  /\ on # enabled[g] \/ n # dbThreshold[g]
  /\ enabled' = [enabled EXCEPT ![g] = on]
  /\ dbThreshold' = [dbThreshold EXCEPT ![g] = n]
  /\ changing' = [changing EXCEPT ![a].stage = "updated"]
  /\ UNCHANGED <<breaker, weights, requests, health, history>>

findAll(a) ==
  /\ changing[a].stage = "updated"
  /\ changing' = [changing EXCEPT ![a] = [stage |-> "read", read |-> dbThreshold]]
  /\ UNCHANGED <<breaker, enabled, dbThreshold, weights, requests, health, history, disturbances>>

loadConfigs(a) ==
  /\ changing[a].stage = "read"
  /\ threshold' = changing[a].read
  /\ changing' = [changing EXCEPT ![a].stage = "idle"]
  /\ UNCHANGED <<circuit, enabled, dbThreshold, weights, requests, health, history, disturbances>>

updateRoutingConfig(w) ==
  /\ w # weights /\ weights' = w
  /\ disturbed
  /\ UNCHANGED <<breaker, enabled, dbThreshold, changing, requests, health, history>>

(* The process starts anew: circuits, buffer and what was in progress are  *)
(* gone, the thresholds are read again.                                    *)
restart ==
  /\ disturbed
  /\ circuit' = [g \in Gateway |-> Closed]
  /\ threshold' = dbThreshold
  /\ buffer' = {}
  /\ flushing' = [f \in Flush |-> [stage |-> "idle", samples |-> {}]]
  /\ changing' = [a \in Admin |-> [stage |-> "idle", read |-> dbThreshold]]
  /\ pc' = [r \in Request |-> IF pc[r] \in {"new", "answered"} THEN pc[r] ELSE "failed"]
  /\ seen' = [r \in Request |-> Nothing]
  /\ decision' = [r \in Request |-> NoScores]
  /\ unlucky' = unlucky \cup buffer
  /\ streak' = [g \in Gateway |-> 0]
  /\ earned' = [g \in Gateway |-> FALSE]
  /\ straggler' = [g \in Gateway |-> {}]
  /\ UNCHANGED <<enabled, dbThreshold, weights, routes, gateway, result, saved>>

------------------------------------------------------------------------------
Next ==
  \/ \E r \in Request :
       \/ readMetrics(r) \/ score(r) \/ recordRoutingDecision(r)
       \/ callGateway(r) \/ routingFails(r)
       \/ \E success \in BOOLEAN, latency \in Latency : answered(r, success, latency)
  \/ \E g \in Gateway : timeoutElapses(g)
  \/ \E f \in Flush : beginFlush(f) \/ saveFlush(f) \/ failFlush(f) \/ clearBuffer(f)
  \/ \E a \in Admin :
       \/ \E g \in Gateway, on \in BOOLEAN, n \in Threshold : updateConfig(a, g, on, n)
       \/ findAll(a) \/ loadConfigs(a)
  \/ \E w \in Weighting : updateRoutingConfig(w)
  \/ restart

Spec == Init /\ [][Next]_vars

------------------------------------------------------------------------------
TypeOK ==
  /\ circuit \in [Gateway -> [state : {"CLOSED", "OPEN", "HALF_OPEN"}, failureCount : Nat,
                              successCountInHalfOpen : Nat, cooled : BOOLEAN]]
  /\ threshold \in [Gateway -> Threshold] /\ dbThreshold \in [Gateway -> Threshold]
  /\ enabled \in [Gateway -> BOOLEAN] /\ weights \in Weighting
  /\ pc \in [Request -> {"new", "measured", "scored", "routed", "calling", "answered",
                         "failed"}]
  /\ \A r \in Request : decision[r].selected \in Gateway \cup {None}
  /\ gateway \in [Request -> Gateway \cup {None}]
  /\ result \in [Request -> [success : BOOLEAN, latency : Nat]]
  /\ buffer \subseteq Request /\ unlucky \subseteq Request
  /\ saved \in [Request -> 0 .. Cardinality(Flush)]
  /\ flushing \in [Flush -> [stage : {"idle", "saving", "saved"}, samples : SUBSET Request]]
  /\ changing \in [Admin -> [stage : {"idle", "updated", "read"}, read : [Gateway -> Threshold]]]
  /\ streak \in [Gateway -> Nat] /\ earned \in [Gateway -> BOOLEAN]

(***************************************************************************)
(* A circuit opens when as many failures in a row as the threshold then in *)
(* memory have come in, not before and not later, although thresholds      *)
(* change and calls overlap: a success in between starts the count again.  *)
(* Once open it is not closed by a call that was under way and succeeds    *)
(* late, only by a probe.                                                  *)
(***************************************************************************)
OpensWhenEarned ==
  \A g \in Gateway :
    /\ circuit[g].state = "OPEN" => earned[g]
    /\ earned[g] => circuit[g].state # "CLOSED"

(***************************************************************************)
(* The circuit is looked at some steps before the gateway is called.  Only *)
(* requests that had selected it before it opened still call it then.      *)
(***************************************************************************)
OnlyStragglersCallOpen ==
  \A r \in Request :
    pc[r] = "calling" /\ circuit[gateway[r]].state = "OPEN" => r \in straggler[gateway[r]]

(***************************************************************************)
(* Whatever gateway a payment was sent to, gateway_routes shows it as the  *)
(* selected one and as the best of those scored, although health, circuits *)
(* and configuration may have changed since.                               *)
(***************************************************************************)
RoutedAsRecorded ==
  \A r \in Request :
    gateway[r] # None =>
      /\ routes[r].selected = gateway[r]
      /\ gateway[r] \in best(DOMAIN routes[r].scores, routes[r].scores)

(***************************************************************************)
(* The sample of an answered call waits in the buffer or is counted, unless *)
(* it came in while a flush was under way, which clears it unsaved, or a   *)
(* restart took it.  It counts at most once per flush that may overlap.    *)
(***************************************************************************)
SamplesAreAccountedFor ==
  \A r \in Request :
    /\ pc[r] = "answered" => r \in buffer \/ saved[r] > 0 \/ r \in unlucky
    /\ saved[r] <= Cardinality(Flush)

(***************************************************************************)
(* What the breaker is documented to do: an open circuit is half open to a *)
(* probe once its timeout has elapsed.  So no payment is turned away for   *)
(* want of a gateway while an enabled one waits for its probe.             *)
(***************************************************************************)
OpenCircuitIsProbed ==
  [][\A r \in Request : score(r) /\ pc'[r] = "failed" =>
       \A g \in Gateway : ~ (enabled[g] /\ circuit[g].state = "OPEN" /\ circuit[g].cooled)]_vars
==============================================================================
