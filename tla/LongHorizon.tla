---------------------------- MODULE LongHorizon -----------------------------
(* What a request to /evolution/plan advises for a swarm, from its health,  *)
(* what emerges from its events and their coherence. A swarm that is fit    *)
(* enough has a target below what it has reached.                           *)
EXTENDS Emergence

CONSTANT Roles      \* what each agent seems to do, by its name

PickHorizon(health, c) ==
  IF health.overall < 400 \/ c.label = "critical" THEN "short"
  ELSE IF health.overall < 650 \/ c.label = "stressed" THEN "medium" ELSE "long"

\* The archetype to move to and the gain of it; a mesh is left alone.
Topology(emergent, health) ==
  LET targets == [pipeline |-> IF health.overall < 550 THEN "hub_spoke" ELSE "mesh", hub_spoke |-> "mesh",
                  competitive |-> "pipeline", emergent_hybrid |-> "hub_spoke", consensus |-> "pipeline"]
      gains == [mesh |-> 120, hub_spoke |-> 90, pipeline |-> 70]
      target == targets[emergent.archetype]
  IN IF emergent.archetype \in DOMAIN targets THEN [to |-> target, gain |-> gains[target]] ELSE None

\* Roles are advised for agents of uneven load, those that have an obvious one or not.
Specialization(es, health) ==
  LET agents == Agents(es) IN
  IF health.balance > 700 \/ agents = <<>> THEN None
  ELSE [pattern |-> IF Cardinality({Roles[a] : a \in ToSet(agents)}) = 1 THEN "generalist"
                    ELSE IF Len(agents) > 3 THEN "specialized" ELSE "mixed",
        roles |-> Each(FirstFew(agents, 6), LAMBDA a : <<a, Roles[a]>>),
        gain |-> Most(60, (3 * (1000 - health.balance)) \div 10)]

GovernanceEvolution(health, c) ==
  LET fitness == (health.overall + health.efficiency) \div 2
      target == Cap(fitness + 200, 920)
  IN [fitness |-> fitness, target |-> target, generations |-> (target - fitness + 39) \div 40,
      steps |-> Some(health.retry < 450, 1) \o Some(health.anomaly < 500, 2) \o Some(c.entropy > 600, 3)
                  \o Some(health.balance < 550, 4) \o <<5>>]

RiskLevel(score) ==
  IF score > 700 THEN "critical" ELSE IF score > 500 THEN "high" ELSE IF score > 300 THEN "medium" ELSE "low"

DominantThreat(health, c) ==
  IF health.retry < 450 THEN "retry_storm_cascade" ELSE IF health.anomaly < 500 THEN "anomaly_propagation"
  ELSE IF c.stress > 550 THEN "collective_stress_buildup" ELSE IF c.label = "fragmented" THEN "coordination_fragmentation"
  ELSE "general_health_drift"

Outlook(health, c) ==
  LET weighed(first, second) == (40 * first + 35 * second + 25 * (1000 - health.overall)) \div 100 IN
  [short |-> RiskLevel(weighed(1000 - health.retry, 1000 - health.anomaly)),
   medium |-> RiskLevel(weighed(c.stress, 1000 - c.resilience)), threat |-> DominantThreat(health, c)]

\* The last, which is always given, is left out when all others are.
PriorityActions(health, c, topology, specialization) ==
  FirstFew(Some(health.retry < 400, <<"critical", 180>>) \o Some(health.anomaly < 450, <<"high", 140>>)
             \o (IF topology = None THEN <<>> ELSE <<<<"high", topology.gain>>>>)
             \o (IF specialization = None THEN <<>> ELSE Some(specialization.gain > 80, <<"medium", specialization.gain>>))
             \o Some(health.balance < 500, <<"medium", 100>>) \o Some(c.resilience < 550, <<"medium", 120>>)
             \o <<<<"low", 60>>>>, 6)

Objectives(emergent, c) ==
  FirstFew(Some(emergent.retry.kind \in {"storm", "cascading"}, "retries")
             \o Some(emergent.propagation.kind \in {"epidemic", "fan_out"}, "anomalies")
             \o Some(c.entropy > 550, "sequencing") \o <<"transfer", "governance">>, 4)

BuildEvolutionPlan(events, health, emergent, c) ==
  LET plan(topology, specialization) ==
        [horizon |-> PickHorizon(health, c), topology |-> topology, specialization |-> specialization,
         governance |-> GovernanceEvolution(health, c), risk |-> Outlook(health, c),
         actions |-> PriorityActions(health, c, topology, specialization), objectives |-> Objectives(emergent, c)]
  IN plan(Topology(emergent, health), Specialization(events, health))

=============================================================================
