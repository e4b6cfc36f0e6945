----------------------------- MODULE Emergence ------------------------------
(* What the requests to /emergence read from the events of a swarm: who     *)
(* works with whom, how retries and anomalies spread, how coherent it is,   *)
(* and a label for all of it. Events are those of Analysis with the task    *)
(* they belong to, or None; scores are thousandths. Agents are up to five   *)
(* and events up to twenty-six: see Log2.                                   *)
EXTENDS Analysis

Handoffs == {"TASK_HANDOFF", "TASK_DELEGATED", "TASK_TRANSFER"}
Retries == {"TASK_RETRY", "AGENT_RETRY", "RETRY_ATTEMPT"}
Anomalies == {"ANOMALY_DETECTED", "CIRCUIT_BREAKER_OPEN", "AGENT_TIMEOUT", "AGENT_FAILED"}
Recoveries == {"AGENT_RECOVERED", "CIRCUIT_BREAKER_CLOSED"}
Completed == {"TASK_COMPLETED"}

Avg(s) == IF s = <<>> THEN 0 ELSE SumOf(s) \div Len(s)
Share(n, of) == (1000 * n) \div of

\* The logarithms of 1 .. 25 to the base of 2.
Log2 == <<0, 1000, 1585, 2000, 2322, 2585, 2807, 3000, 3170, 3322, 3459, 3585, 3700,
          3807, 3907, 4000, 4087, 4170, 4248, 4322, 4392, 4459, 4524, 4585, 4644>>

-----------------------------------------------------------------------------
(* Emergent behaviour *)

Edge(es, from, to) ==
  LET handoffs == SelectSeq(Typed(es, Handoffs), LAMBDA e : e.agent = from /\ e.target = to)
      answers(h) == SelectSeq(es, LAMBDA e : e.agent = to /\ e.type \in Completed /\ e.at > h.at)
      answered == SelectSeq(handoffs, LAMBDA h : answers(h) # <<>>)
  IN [from |-> from, to |-> to, count |-> Len(handoffs), latency |-> Avg(Each(answered, LAMBDA h : answers(h)[1].at - h.at))]

CollaborationGraph(es) ==
  LET pairs == Listed(Each(SelectSeq(Typed(es, Handoffs), LAMBDA e : e.target \notin {None, e.agent}),
                           LAMBDA e : <<e.agent, e.target>>))
  IN Each(pairs, LAMBDA p : Edge(es, p[1], p[2]))

\* The tests are made in this order, and the first that succeeds decides.
Archetype(graph, agents, es) ==
  LET n == Len(agents)
      out(a) == Len(SelectSeq(graph, LAMBDA e : e.from = a))
      in(a) == Len(SelectSeq(graph, LAMBDA e : e.to = a))
      done == SelectSeq(Typed(es, Completed), LAMBDA e : e.task # None)
      tasks == Listed(Each(done, LAMBDA e : e.task))
      by(t) == {done[k].agent : k \in {m \in DOMAIN done : done[m].task = t}}
      ends == {e.from : e \in ToSet(graph)} \cup {e.to : e \in ToSet(graph)}
  IN IF n = 0 \/ graph = <<>> THEN "pipeline"
     ELSE IF \E a \in ends : out(a) > 0 /\ out(a) >= n - 1 THEN "hub_spoke"
     ELSE IF 2 * Len(graph) > n * (n - 1) THEN "mesh"
     ELSE IF \E t \in ToSet(tasks) : Cardinality(by(t)) > 1 THEN "competitive"
     ELSE IF tasks # <<>> /\ 2 * Len(done) >= 5 * Len(tasks) THEN "consensus"
     ELSE IF \A a \in ends : out(a) <= 1 /\ in(a) <= 1 THEN "pipeline"
     ELSE "emergent_hybrid"

\* Of the pairs of completions within two seconds those at the same time by two agents.
SynchronizationQuality(es, agents) ==
  LET done == Typed(es, Completed)
      pairs == {p \in (DOMAIN done) \X (DOMAIN done) : p[1] < p[2] /\ done[p[2]].at - done[p[1]].at <= 2}
      synced == {p \in pairs : done[p[1]].at = done[p[2]].at /\ done[p[1]].agent # done[p[2]].agent}
  IN IF Len(agents) < 2 THEN 1000 ELSE IF pairs = {} THEN 500
     ELSE Share(Cardinality(synced), Cardinality(pairs))

\* The entropy of the transitions from agent to agent, of the most there can be.
CoordinationEntropy(es, agents) ==
  LET n == Len(es) - 1
      steps == [k \in 1 .. n |-> <<es[k].agent, es[k + 1].agent>>]
      count(s) == Len(SelectSeq(steps, LAMBDA t : t = s))
      entropy == Log2[n] - SumOf(Each(Listed(steps), LAMBDA s : count(s) * Log2[count(s)])) \div n
  IN IF Len(agents) < 2 THEN 0 ELSE Clamp((1000 * entropy) \div Log2[Len(agents) * Len(agents)])

\* A retry spreads when the next retry of another agent comes within two seconds.
RetryPattern(rs) ==
  LET n == Len(rs)
      spreads(k) == \E m \in k + 1 .. n : rs[m].at - rs[k].at <= 2 /\ rs[m].agent # rs[k].agent
      spread == Share(Cardinality({k \in 1 .. n : spreads(k)}), n)
      lag == rs[n].at - rs[1].at
      kind == IF spread > 600 /\ n > 8 THEN "storm" ELSE IF spread > 400 THEN "cascading"
              ELSE IF 2 * lag < Most(n - 1, 1) /\ Len(Agents(rs)) > 1 THEN "synchronized" ELSE "isolated"
  IN IF rs = <<>> THEN [kind |-> "absent", agents |-> <<>>, spread |-> 0]
     ELSE [kind |-> kind, agents |-> Agents(rs), spread |-> spread]

\* No event of a request has a channel, so all count as one zone.
AnomalyPropagation(as, agents) ==
  LET zones == {"unknown"}
      blast == Share(Len(Agents(as)), Len(agents))
      kind == IF blast > 600 THEN "epidemic" ELSE IF blast > 300 /\ Cardinality(zones) > 1 THEN "fan_out"
              ELSE IF blast > 150 THEN "linear_spread" ELSE IF Len(Agents(as)) = 1 THEN "contained" ELSE "isolated"
  IN IF as = <<>> THEN [kind |-> "isolated", origin |-> None, blast |-> 0]
     ELSE [kind |-> kind, origin |-> as[1].agent, blast |-> blast]

Culture(es, sync, propagation) ==
  LET n == Most(Len(es), 1)
      anomalies == Count(es, Anomalies)
      retries == Count(es, Retries)
      recovers == anomalies = 0 \/ 4 * Count(es, Recoveries \cup Completed) > 3 * anomalies
  IN IF 5 * retries > n /\ propagation.kind = "epidemic" THEN "chaotic"
     ELSE IF 20 * anomalies < n /\ sync > 600 /\ 20 * retries < n THEN "high_reliability"
     ELSE IF recovers /\ 100 * anomalies < 15 * n THEN "agile_recovery"
     ELSE IF sync > 700 /\ 10 * retries > n THEN "brittle_efficient"
     ELSE IF 100 * retries < 8 * n /\ 10 * anomalies < n /\ sync < 400 THEN "conservative"
     ELSE "adaptive"

Emerging(es, agents, graph, sync, propagation) ==
  [archetype |-> Archetype(graph, agents, es), sync |-> sync, entropy |-> CoordinationEntropy(es, agents),
   retry |-> RetryPattern(Typed(es, Retries)), propagation |-> propagation, culture |-> Culture(es, sync, propagation),
   graph |-> graph]

Emergent(events) ==
  LET of(es, agents) == Emerging(es, agents, CollaborationGraph(es), SynchronizationQuality(es, agents),
                                 AnomalyPropagation(Typed(es, Anomalies), agents))
      from(es) == of(es, Agents(es))
  IN from(SortedByTime(events))

-----------------------------------------------------------------------------
(* Coherence *)

SwarmHarmony(es, health) ==
  LET done == Count(es, Completed)
      failed == Count(es, Anomalies)
      smooth == IF done + failed = 0 THEN 500 ELSE Share(done, done + failed)
  IN (35 * health.overall + 25 * health.balance + 20 * health.throughput + 20 * smooth) \div 100

CollectiveStress(es, agents, health) ==
  LET n == Most(Len(es), 1) IN
  (25 * Cap(Share(8 * Count(es, Retries), n), 1000) + 30 * Cap(Share(10 * Count(es, Anomalies), n), 1000)
     + 20 * Cap(Share(2 * Count(es, {"AGENT_TIMEOUT"}), Most(Len(agents), 1)), 1000)
     + 25 * (1000 - health.overall)) \div 100

OperationalCohesion(es, agents) ==
  LET contributing == SelectSeq(agents, LAMBDA a : Count(OfAgent(es, a), Completed) > 0)
      handoffs == Typed(es, {"TASK_HANDOFF", "TASK_DELEGATED"})
      varies == Variation(Each(Agents(handoffs), LAMBDA a : Len(OfAgent(handoffs, a))))
  IN IF agents = <<>> THEN 0
     ELSE (60 * Share(Len(contributing), Len(agents)) + 40 * (100000 \div (100 + varies))) \div 100

\* The weight of a run of the past is its place in the history that is handed over.
RecencyWeighted(history) ==
  LET weights == (Len(history) * (Len(history) + 1)) \div 2 IN
  IF history = <<>> THEN 500 ELSE SumOf([n \in DOMAIN history |-> n * history[n]]) \div weights

SystemicResilience(es, history) ==
  LET anomalies == Count(es, Anomalies)
      recovered == IF anomalies = 0 THEN 1000 ELSE Cap(Share(Count(es, Recoveries), anomalies), 1000)
  IN (recovered + RecencyWeighted(history)) \div 2

CoherenceLabel(harmony, stress, sync) ==
  IF harmony > 720 /\ stress < 250 THEN "cohesive" ELSE IF stress > 650 \/ harmony < 350 THEN "critical"
  ELSE IF sync < 300 \/ harmony < 500 THEN "fragmented" ELSE "stressed"

Stressor(health) ==
  IF health.retry < 350 THEN "retry_pressure" ELSE IF health.anomaly < 400 THEN "anomaly_concentration"
  ELSE IF health.balance < 400 THEN "workload_imbalance" ELSE IF health.throughput < 400 THEN "throughput_instability"
  ELSE IF health.efficiency < 500 THEN "low_orchestration_efficiency" ELSE None

CoherenceOf(events, health, history) ==
  LET with(es, agents, harmony, stress, sync) ==
        [harmony |-> Clamp(harmony), stress |-> Clamp(stress), entropy |-> CoordinationEntropy(es, agents), sync |-> sync,
         cohesion |-> Clamp(OperationalCohesion(es, agents)), resilience |-> Clamp(SystemicResilience(es, history)),
         label |-> CoherenceLabel(harmony, stress, sync), stressor |-> Stressor(health)]
      of(es, agents) ==
        with(es, agents, SwarmHarmony(es, health), CollectiveStress(es, agents, health), SynchronizationQuality(es, agents))
      from(es) == of(es, Agents(es))
  IN from(SortedByTime(events))

-----------------------------------------------------------------------------
(* The signal of consciousness *)

Confidence(health, c) == (35 * health.overall + 25 * health.efficiency + 25 * c.harmony + 15 * c.resilience) \div 100
Unrest(health, c) == (40 * c.stress + 30 * (1000 - health.retry) + 20 * (1000 - health.anomaly) + 10 * c.entropy) \div 100
Stability(health, c) == (30 * c.harmony + 30 * c.resilience + 20 * c.sync + 20 * health.throughput) \div 100

OrchestrationHarmony(emergent, c) ==
  LET of == [mesh |-> 850, hub_spoke |-> 750, pipeline |-> 700, consensus |-> 650, competitive |-> 500, emergent_hybrid |-> 600] IN
  (40 * of[emergent.archetype] + 35 * emergent.sync + 25 * c.cohesion) \div 100

Readiness(generation, health, c) ==
  Clamp(Cap(50 * generation, 400) + (IF health.overall > 650 THEN 300 ELSE 100) + (IF c.label = "cohesive" THEN 300 ELSE 100))

EmergenceIndex(emergent) ==
  LET of == [adaptive |-> 700, agile_recovery |-> 600, high_reliability |-> 400, brittle_efficient |-> 450,
             conservative |-> 200, chaotic |-> 300] IN
  (40 * of[emergent.culture] + 30 * (1000 - emergent.sync) + 30 * emergent.entropy) \div 100

ConsciousnessLabel(confidence, unrest, readiness, index) ==
  IF readiness > 650 /\ index > 550 THEN "evolving" ELSE IF index > 550 /\ confidence > 600 THEN "adaptive"
  ELSE IF confidence > 550 /\ unrest < 350 THEN "active" ELSE IF confidence > 400 THEN "aware" ELSE "dormant"

Consciousness(health, emergent, c, generation) ==
  LET readiness == Readiness(generation, health, c) IN
  [confidence |-> Confidence(health, c), unrest |-> Unrest(health, c), stability |-> Stability(health, c),
   harmony |-> OrchestrationHarmony(emergent, c), readiness |-> readiness, index |-> EmergenceIndex(emergent),
   label |-> ConsciousnessLabel(Confidence(health, c), Unrest(health, c), readiness, EmergenceIndex(emergent))]

=============================================================================
