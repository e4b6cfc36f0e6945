------------------------------ MODULE Governor ------------------------------
(* The two governors of the intelligence service: GovernanceEngine orders   *)
(* actions for one swarm from its health report, decideEcosystem for all    *)
(* swarms of a request. Each remembers in memory when it last ordered an    *)
(* action, so as not to repeat it within its cooldown. Scores are           *)
(* percentages; time passes in units of 15 seconds.                         *)
EXTENDS Swarms, Integers, FiniteSets

CONSTANTS
  Reports,        \* health reports of single swarms
  Ecosystems,     \* sequences of swarm states, as requests give them
  MaxTime, MaxDecisions

VARIABLES
  clock,
  recentActions,  \* GovernanceEngine: <<kind, target>> |-> when last ordered
  ecoActions,     \* decideEcosystem: <<kind, source, target>> |-> when last considered
  decisions       \* history: [by, at, wanted, ordered, dropped], the last three sets of keys

governor == <<clock, recentActions, ecoActions, decisions>>

GovernorInit == clock = 0 /\ recentActions = <<>> /\ ecoActions = <<>> /\ decisions = <<>>

\* The maps are lost; the history ends, for what was ordered before is forgotten.
GovernorRestart ==
  recentActions' = <<>> /\ ecoActions' = <<>> /\ decisions' = <<>> /\ UNCHANGED clock

TimePasses == clock < MaxTime /\ clock' = clock + 1 /\ UNCHANGED <<recentActions, ecoActions, decisions>>

Action(kind, target, confidence) == [key |-> <<kind, target>>, confidence |-> confidence]

-----------------------------------------------------------------------------
(* One swarm: a report has overall, retry, anomaly, throughput and balance, *)
(* incidents [kind, critical, probability, agents], bottlenecks [kind,      *)
(* agent, zone, severity] and agents [agent, efficiency, events, retries]   *)

Ratio(r, a) ==
  LET of == SelectSeq(r.agents, LAMBDA x : x.agent = a) IN
  IF of = <<>> THEN 0 ELSE (100 * of[1].retries) \div of[1].events

Cooling(r) ==
  Some(r.overall < 30 /\ \E n \in DOMAIN r.incidents : r.incidents[n].critical,
       Action("cool_swarm", r.swarm, 85))

SuppressRetries(r) ==
  LET storm == OfKind(r.incidents, "retry_storm")
      retrying == SelectSeq(r.agents, LAMBDA x : 10 * x.retries > 3 * x.events)
      affected == IF storm # <<>> THEN storm[1].agents ELSE Each(retrying, LAMBDA x : x.agent)
  IN IF r.retry >= 35 THEN <<>>
     ELSE Each(FirstFew(affected, 3), LAMBDA a : Action("suppress_retries", a, Cap(60 + Ratio(r, a), 95)))

Quarantine(r) ==
  LET cascade == OfKind(r.incidents, "anomaly_cascade")
      zones == FirstFew(OfKind(r.bottlenecks, "anomaly_concentration"), 2)
  IN IF r.anomaly >= 45 THEN <<>>
     ELSE (IF cascade = <<>> THEN <<>>
           ELSE Each(FirstFew(cascade[1].agents, 2),
                     LAMBDA a : Action("quarantine_anomaly", a, Cap(50 + cascade[1].probability, 95))))
          \o Each(SelectSeq(zones, LAMBDA b : b.zone # None),
                  LAMBDA b : Action("stabilize_orchestration", b.zone, (9 * b.severity) \div 10))

Throttle(r) ==
  LET queue == OfKind(r.bottlenecks, "queue_buildup") IN
  IF r.throughput >= 40 \/ queue = <<>> THEN <<>>
  ELSE <<Action("throttle_agent", IF queue[1].agent = None THEN r.swarm ELSE queue[1].agent,
                (85 * queue[1].severity) \div 100)>>

Redistribute(r) ==
  LET events == {r.agents[n].events : n \in DOMAIN r.agents}
      all == FoldSeq(LAMBDA x, sum : x.events + sum, 0, r.agents)
      skewed == \E m, n \in events : 10 * (m - n) > 4 * all
  IN Some(r.balance < 45 /\ Len(r.agents) > 1 /\ skewed,
          Action("redistribute_load", r.swarm, Cap(100 - r.balance, 90)))

Isolate(r) ==
  Each(FirstFew(SelectSeq(r.agents, LAMBDA x : x.efficiency < 30 /\ x.events > 5), 2),
       LAMBDA x : Action("isolate_agent", x.agent, Cap(130 - x.efficiency, 92)))

Reroute(r) ==
  Each(SelectSeq(FirstFew(OfKind(r.bottlenecks, "stalled_orchestration"), 2), LAMBDA b : b.agent # None),
       LAMBDA b : Action("reroute_task", b.agent, (8 * b.severity) \div 10))

Candidates(r) ==
  Cooling(r) \o SuppressRetries(r) \o Quarantine(r) \o Throttle(r)
    \o Redistribute(r) \o Isolate(r) \o Reroute(r)

Recent(memory, key, cooldown) == key \in DOMAIN memory /\ clock - memory[key] < cooldown

\* The actions that pass the gate: not on cooldown, and not ordered earlier in the same list.
Passing(list, memory, cooldown) ==
  {n \in DOMAIN list : /\ ~Recent(memory, list[n].key, cooldown)
                       /\ ~\E m \in 1 .. n - 1 : list[m].key = list[n].key}

Keys(list, chosen) == {list[n].key : n \in chosen}
Noted(memory, keys) == [k \in DOMAIN memory \cup keys |-> IF k \in keys THEN clock ELSE memory[k]]

Confident(r) == SelectSeq(Candidates(r), LAMBDA a : a.confidence >= 55)

DecideBeforeConfidence(r) ==     \* starts the cooldown of what it does not dare to order
  LET wanted == Confident(r)
      ordered == Passing(wanted, recentActions, 2)
  IN
  /\ Len(decisions) < MaxDecisions
  /\ recentActions' = Noted(recentActions, Keys(Candidates(r), DOMAIN Candidates(r)))
  /\ decisions' = Append(decisions, [by |-> "swarm", at |-> clock, dropped |-> {}, wanted |-> Keys(wanted, DOMAIN wanted),
                                     ordered |-> Keys(wanted, ordered)])
  /\ UNCHANGED <<clock, ecoActions>>

\* POST /governance/decide. The cooldown of 30 seconds ignores which swarm an agent is of.
Decide(r) ==
  LET wanted == Confident(r)
      ordered == Passing(wanted, recentActions, 2)
  IN
  /\ Len(decisions) < MaxDecisions
  /\ recentActions' = Noted(recentActions, Keys(wanted, ordered))
  /\ decisions' = Append(decisions,
       [by |-> "swarm", at |-> clock, wanted |-> Keys(wanted, DOMAIN wanted),
        ordered |-> Keys(wanted, ordered), dropped |-> {}])
  /\ UNCHANGED <<clock, ecoActions>>

-----------------------------------------------------------------------------
(* All swarms: a state is [id, load, health, anomaly, spec, overloaded,     *)
(* degraded], as the request says                                           *)

Order(kind, source, target, urgency) == [key |-> <<kind, source, target>>, urgency |-> urgency]

BestRecipient(others) ==
  LET eligible == SelectSeq(others, LAMBDA s : s.load < 60 /\ s.health > 55 /\ ~s.degraded) IN
  SelectSeq(eligible, LAMBDA s : \A n \in DOMAIN eligible : s.load <= eligible[n].load)

BuildActionsForSwarm(s, all) ==
  LET others == SelectSeq(all, LAMBDA o : o.id # s.id)
      recipient == BestRecipient(others)
      ailing == SelectSeq(others, LAMBDA o : o.degraded /\ o.health > 25)
  IN IF s.health < 25 /\ s.anomaly > 40 THEN <<Order("emergency_shutdown", s.id, None, 4)>>
     ELSE Some(s.health < 45 /\ s.anomaly > 25, Order("isolate_swarm", s.id, None, 3))
       \o (IF s.overloaded /\ s.load > 75 /\ recipient # <<>>
           THEN <<Order("rebalance_load", s.id, recipient[1].id, IF s.load > 90 THEN 3 ELSE 2)>> ELSE <<>>)
       \o Some(s.anomaly > 30 /\ s.health > 45, Order("throttle_swarm", s.id, None, 2))
       \o (IF s.load < 20 /\ s.health > 70 /\ ailing # <<>>
           THEN <<Order("migrate_agents", s.id, ailing[1].id, 1)>> ELSE <<>>)

Complementary == {{"ingest", "transform"}, {"transform", "validate"}, {"validate", "output"},
                  {"coordination", "ingest"}, {"coordination", "output"}}

DetectFederationOpportunities(all) ==
  LET able == SelectSeq(all, LAMBDA s : s.health > 65 /\ s.spec # "generalist" /\ ~s.degraded)
      mates(n) == SelectSeq(SubSeq(able, n + 1, Len(able)), LAMBDA o : {able[n].spec, o.spec} \in Complementary)
      pairs(n) == Each(mates(n), LAMBDA o : Order("federate_swarms", able[n].id, o.id, 1))
  IN FirstFew(FlattenSeq([n \in DOMAIN able |-> pairs(n)]), 2)

EcoCandidates(all) ==
  FlattenSeq(Each(all, LAMBDA s : BuildActionsForSwarm(s, all))) \o DetectFederationOpportunities(all)

\* The n most urgent of the chosen actions of a list, in the order of the list among equals.
MostUrgent(list, chosen, n) ==
  {i \in chosen : Cardinality({j \in chosen : \/ list[j].urgency > list[i].urgency
                                              \/ list[j].urgency = list[i].urgency /\ j < i}) < n}

\* POST /ecosystem/decide: the eight most urgent actions are ordered, but the
\* cooldown of 45 seconds starts for all that were considered.
DecideEcosystem(all) ==
  LET wanted == EcoCandidates(all)
      gated == Passing(wanted, ecoActions, 3)
      ordered == MostUrgent(wanted, gated, 8)
  IN
  /\ Len(decisions) < MaxDecisions
  /\ ecoActions' = Noted(ecoActions, Keys(wanted, gated))
  /\ decisions' = Append(decisions,
       [by |-> "ecosystem", at |-> clock, wanted |-> Keys(wanted, DOMAIN wanted),
        ordered |-> Keys(wanted, ordered), dropped |-> Keys(wanted, gated \ ordered)])
  /\ UNCHANGED <<clock, recentActions>>

\* The reports and states are well formed: what the governors derive from them are lists.
ASSUME ListsAssumption ==
  /\ \A r \in Reports : IsList(Confident(r))
  /\ \A e \in Ecosystems : IsList(EcoCandidates(e))

GovernorNext ==
  \/ TimePasses
  \/ \E r \in Reports : Decide(r)
  \/ \E e \in Ecosystems : DecideEcosystem(e)

-----------------------------------------------------------------------------
(* Properties                                                               *)

Cooldown(by) == IF by = "swarm" THEN 2 ELSE 3

\* The same governor never orders the same action of the same target twice
\* within its cooldown, and withholds an action it wants only if it has ordered
\* it, or has dropped it as less urgent than eight others, within that time.
WithheldWasOrdered ==
  \A n \in DOMAIN decisions : \A k \in decisions[n].wanted :
    LET before == {m \in 1 .. n - 1 : /\ decisions[m].by = decisions[n].by
                                      /\ decisions[n].at - decisions[m].at < Cooldown(decisions[n].by)
                                      /\ k \in decisions[m].ordered \cup decisions[m].dropped}
    IN k \in decisions[n].ordered \cup decisions[n].dropped <=> before = {}
=============================================================================
