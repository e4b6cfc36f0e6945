--------------------------- MODULE MCIntelligence ---------------------------
EXTENDS Intelligence

CONSTANTS swarm1, swarm2, op, stranger, halt, shift, merge, resize, civ1, civ2, a1, a2, a3, z1, z2

MCWords == (halt :> {"emergency_shutdown"}) @@ (shift :> {"ideology_shift"})
             @@ (merge :> {"merge_agents"}) @@ (resize :> {"resize"})

MCNewConstraints == {Constraint("hard_limit", {"resize"}, None),
                     Constraint("escalation_trigger", {"ideology_shift"}, None)}

Profile(ideology, health, wisdom, trust, tier, skills) ==
  [ideology |-> ideology, health |-> health, wisdom |-> wisdom,
   trust |-> trust, tier |-> tier, skills |-> skills]

MCProfiles == {Profile("mandate", 90, 90, 90, "transcendent", {"ingest"}),
               Profile("autonomy", 41, 20, 60, "nascent", {"transform"}),
               Profile("republic", 0, 0, 0, "nascent", {})}

Reading(health, anomaly, retry, entropy) ==
  [health |-> health, anomaly |-> anomaly, retry |-> retry, entropy |-> entropy]

MCReadings == {Reading(20, 30, 40, 10), Reading(95, 20, 0, 0)}

Agent(id, efficiency, events, retries) ==
  [agent |-> id, efficiency |-> efficiency, events |-> events, retries |-> retries]

\* A swarm in trouble of every sort, and a swarm with the same agents whose
\* incidents are too weak to act on at first.
Trouble(swarm, probability, severity) ==
  [swarm |-> swarm, overall |-> 20, retry |-> 20, anomaly |-> 30, throughput |-> 30, balance |-> 40,
   incidents |-> <<[kind |-> "retry_storm", critical |-> probability > 80, probability |-> probability, agents |-> <<"a1", "a2">>],
                   [kind |-> "anomaly_cascade", critical |-> FALSE, probability |-> probability, agents |-> <<"a2">>]>>,
   bottlenecks |-> <<[kind |-> "anomaly_concentration", agent |-> None, zone |-> "z1", severity |-> severity],
                     [kind |-> "queue_buildup", agent |-> None, zone |-> None, severity |-> severity],
                     [kind |-> "stalled_orchestration", agent |-> "a3", zone |-> None, severity |-> severity]>>,
   agents |-> <<Agent("a1", 10, 20, 12), Agent("a2", 20, 6, 3), Agent("a3", 25, 6, 0)>>]

MCReports == {Trouble(swarm1, 90, 90), Trouble(swarm2, 4, 50),
              [Trouble(swarm2, 90, 90) EXCEPT !.retry = 90, !.anomaly = 90, !.incidents = <<>>]}

State(id, load, health, anomaly, spec) ==
  [id |-> id, load |-> load, health |-> health, anomaly |-> anomaly, spec |-> spec,
   overloaded |-> load > 75, degraded |-> health < 45]

\* Four swarms that each need to be isolated and relieved by the fifth; a
\* healthy pair beside a swarm to shut down, one of them listed twice.
MCEcosystems ==
  {<<State("e1", 95, 40, 30, "ingest"), State("e2", 95, 40, 30, "ingest"), State("e3", 80, 40, 30, "ingest"),
     State("e4", 80, 40, 30, "ingest"), State("e5", 10, 90, 0, "ingest")>>,
   <<State("e5", 10, 90, 0, "ingest"), State("e6", 95, 70, 35, "transform"), State("e1", 95, 20, 50, "ingest"),
     State("e5", 10, 90, 0, "ingest")>>}

Lesson(kind, summary) == [kind |-> kind, summary |-> summary]

MCLessons == {<<Lesson("pattern", "healthy"), Lesson("topology", "small")>>,
              <<Lesson("pattern", "critical"), Lesson("incident", "storm"), Lesson("topology", "small")>>,
              <<Lesson("pattern", "degraded"), Lesson("success", "tasks"), Lesson("topology", "large")>>}
Event(type, agent, zone, at) ==
  [type |-> type, agent |-> agent, zone |-> zone, at |-> at, target |-> None, took |-> None, task |-> None]

\* The same event n times, one every few seconds.
Burst(type, agent, zone, n, every) ==
  [events |-> [k \in 1 .. n |-> Event(type, agent, zone, (k - 1) * every)], lasts |-> n * every]
Once(type, agent, zone, lasts) == Burst(type, agent, zone, 1, lasts)
Quiet == [events |-> <<>>, lasts |-> 11]
Handoff(from, to) == [events |-> <<[Event("TASK_HANDOFF", from, z1, 0) EXCEPT !.target = to]>>, lasts |-> 1]
Task(agent, took) == [events |-> <<[Event("TASK_COMPLETED", agent, None, 0) EXCEPT !.took = took]>>, lasts |-> took]

Mutation(kind, target, from, n) ==
  [kind |-> kind, target |-> target, from |-> from, n |-> n, zone |-> z2, agent |-> a3]

\* Events that come some seconds after those they precede; of the first the time is negative.
Belated(type, agent, to, back) ==
  [events |-> <<[Event(type, agent, z1, 0 - back) EXCEPT !.target = to]>>, lasts |-> 2]

\* Retries; anomalies; handoffs and silence; load; events in disorder.
MCCourses ==
  {[bursts |-> {Once("TASK_RETRY", a1, z1, 2), Once("CIRCUIT_BREAKER_HALF_OPEN", a1, z1, 1),
                Once("TASK_COMPLETED", a1, z1, 4), Once("TASK_RETRY", a2, z1, 1)},
    most |-> 5, mutations |-> {Mutation("alter_retry_policy", "*", 3, 1), Mutation("suppress_retries", None, 0, 0)}],
   [bursts |-> {Once("AGENT_TIMEOUT", a2, z1, 3), Once("ANOMALY_DETECTED", a1, z1, 1), Once("QUEUE_OVERFLOW", a1, z2, 1)},
    most |-> 5, mutations |-> {Mutation("inject_anomaly", a1, 1, 2), Mutation("reroute_agent", a1, 0, 0)}],
   [bursts |-> {Handoff(a1, a2), Task(a2, 1), Task(a1, 4), Quiet},
    most |-> 4, mutations |-> {Mutation("change_throughput", None, 0, 50), Mutation("add_capacity", a2, 1, 0)}],
   [bursts |-> {Burst("TASK_COMPLETED", a1, z1, 5, 1), Burst("TASK_RETRY", a2, z2, 10, 1),
                Once("SWARM_FAILED", a1, z1, 1), Once("SWARM_COMPLETED", a1, z1, 1)},
    most |-> 3, mutations |-> {Mutation("remove_agent", a1, 2, 0)}],
   [bursts |-> {Belated("TASK_RETRY", a1, None, 8), Once("TASK_RETRY", a1, z1, 1), Belated("AGENT_TIMEOUT", a2, None, 7),
                Once("ANOMALY_DETECTED", a1, z1, 9), Belated("TASK_HANDOFF", a1, a2, 6), Task(a1, -1)},
    most |-> 4, mutations |-> {Mutation("alter_retry_policy", "*", 0, 0)}]}

\* Retries and anomalies of some agents; the second swarm is more than twice as large.
MCSamples ==
  {[events |-> <<Event("TASK_RETRY", "agent_process", None, 0), Event("TASK_RETRY", "agent_process", None, 1),
                 Event("TASK_RETRY", "agent_process", None, 1), Event("ANOMALY_DETECTED", "agent_validate", None, 2)>>,
    lasts |-> 5],
   [events |-> [n \in 1 .. 24 |->
      Event(IF n % 4 = 0 THEN "ANOMALY_DETECTED" ELSE IF n % 3 = 0 THEN "TASK_RETRY" ELSE "TASK_COMPLETED",
            IF n % 2 = 0 THEN "agent_validate" ELSE "agent_ingest", None, n)],
    lasts |-> 30]}

ForTask(event, to) == [event EXCEPT !.task = "t", !.target = to]

\* A task that is handed off and completed; one that is retried amid anomalies.
MCWindows ==
  {[events |-> <<Event("TASK_STARTED", a1, z1, 0), ForTask(Event("TASK_HANDOFF", a1, z1, 1), a2),
                 ForTask(Event("TASK_COMPLETED", a2, z1, 3), None), Event("SWARM_COMPLETED", a1, z1, 4)>>, lasts |-> 5],
   [events |-> [n \in 1 .. 8 |-> IF n = 8 THEN Event("TASK_COMPLETED", a2, z1, 8)
                                 ELSE IF n \in {3, 4} THEN Event("ANOMALY_DETECTED", a3, z1, 3)
                                 ELSE ForTask(Event("TASK_RETRY", a1, z1, n), None)], lasts |-> 9]}

MCRoles == (a1 :> "ingest") @@ (a2 :> "generalist") @@ (a3 :> "generalist")

MCNames == [n \in 1 .. 5 |-> [id |-> n, family |-> IF n = 3 THEN "f" ELSE "g"]]

=============================================================================
