------------------------------ MODULE Learning ------------------------------
(* What the intelligence service remembers of the runs of swarms, in        *)
(* SQLite, and what the later requests make of it: trends, recurring        *)
(* patterns, a temperament, learnings, a strategy, a plan and the signals   *)
(* of Emergence. A swarm has one row, replaced when it is analyzed again.   *)
(* Scores are thousandths and their changes percentages, rounded down.      *)
EXTENDS LongHorizon

CONSTANTS
  Windows,        \* the events of complete runs and of the swarms asked about: [events, lasts]
  Names,          \* the swarms, [id, family], in the order in which they first complete
  MaxAnalyses,    \* bound on analyses of complete runs
  MaxAgain        \* bound on those of runs that had been analyzed before

VARIABLES
  swarm_history,  \* the rows, in the order of completed_at_ms
  analyses,       \* what was analyzed, in order: [swarm, health]
  reply           \* the answer to the request about the rows, None before it

learning == <<swarm_history, analyses, reply>>

LearningInit == swarm_history = <<>> /\ analyses = <<>> /\ reply = None

\* The health of each window, worked out beforehand.
Healths == [w \in Windows |-> HealthReport(w.events, w.lasts)]

-----------------------------------------------------------------------------
(* OperationalMemory *)

Summed(agents, field) == SumOf(Each(agents, LAMBDA a : a[field]))
KindsIn(troubles) == {t.kind : t \in ToSet(troubles)}

\* What record makes of a report: the count of anomalies is a percentage.
Row(swarm, health) ==
  [swarm |-> swarm, health |-> health.overall, efficiency |-> health.efficiency,
   retries |-> Summed(health.agents, "retries"), anomalies |-> (1000 - health.anomaly + 5) \div 10,
   failures |-> Summed(health.agents, "failures"), agents |-> Len(health.agents), events |-> Summed(health.agents, "events"),
   bottlenecks |-> KindsIn(health.bottlenecks), incidents |-> KindsIn(health.incidents)]

Replaced(rows, row) ==
  LET known == {n \in DOMAIN rows : rows[n].swarm = row.swarm} IN
  Append(IF known = {} THEN rows ELSE RemoveAt(rows, CHOOSE n \in known : TRUE), row)

\* The newest first.
GetHistory(limit) == FirstFew(Reverse(swarm_history), limit)

Metrics == <<"health", "efficiency", "retries", "anomalies", "failures">>

\* The halves of the latest twenty runs, the older against the newer.
TrendNewestFirst(metric, history) ==
  LET n == Len(history)
      value(k) == history[k][metric]
      prior == SumOf([k \in 1 .. n \div 2 |-> value(k)])
      recent == SumOf([k \in 1 .. n - (n \div 2) |-> value(k + (n \div 2))])
      change == IF prior = 0 THEN 0 ELSE (100 * (recent * (n \div 2) - prior * (n - (n \div 2)))) \div (prior * (n - (n \div 2)))
      better == IF metric \in {"health", "efficiency"} THEN change ELSE 0 - change
  IN [metric |-> metric, change |-> change,
      direction |-> IF better > 5 THEN "improving" ELSE IF better < -5 THEN "degrading" ELSE "stable"]

TrendOf(metric, history) == TrendNewestFirst(metric, Reverse(history))

\* Of the latest twenty.
ComputeTrends(history) == IF Len(history) < 4 THEN <<>> ELSE Each(Metrics, LAMBDA m : TrendOf(m, history))

\* The kinds of trouble that at least two of the latest hundred runs had, with the share of these.
FindRecurringPatterns(history) ==
  LET kinds(n) == history[n].bottlenecks \cup history[n].incidents
      of(kind) == Cardinality({n \in DOMAIN history : kind \in kinds(n)})
      recurring == {k \in UNION {kinds(n) : n \in DOMAIN history} : of(k) >= 2}
  IN IF Len(history) < 5 THEN {} ELSE {[kind |-> k, frequency |-> Share(of(k), Len(history))] : k \in recurring}

-----------------------------------------------------------------------------
(* TemperamentModeler *)

DefaultTemperament ==
  [samples |-> 0, stability |-> 500, resilience |-> 500, aggression |-> 500, sensitivity |-> 500,
   persistence |-> 500, recovery |-> 500, traits |-> {}, risk |-> "moderate", failure |-> 300]

\* The two strongest of the traits that are strong enough.
Traits(t) ==
  LET all == <<<<"highly stable", t.stability, 750>>, <<"resilient", t.resilience, 700>>, <<"aggressive", t.aggression, 550>>,
               <<"anomaly-prone", t.sensitivity, 500>>, <<"retry-persistent", t.persistence, 500>>,
               <<"fast-recovering", t.recovery, 700>>>>
  IN {x[1] : x \in ToSet(FirstFew(Ranked(SelectSeq(all, LAMBDA x : x[2] >= x[3]), LAMBDA x : x[2]), 2))}

\* Runs of the same family count; anomalies are set against events though they are a percentage.
TemperamentOf(rows, mean) ==
  LET n == Len(rows)
      deviation == Root(Avg(Each(rows, LAMBDA r : (r.health - mean) * (r.health - mean))))
      hit == SelectSeq(rows, LAMBDA r : r.incidents # {})
      recent == SubSeq(Reverse(rows), (n \div 2) + 1, n)
      worse == Avg(Each(recent, LAMBDA r : r.health)) < mean - 100
      retrying == SelectSeq(rows, LAMBDA r : r.incidents \cap {"retry_storm", "orchestration_instability"} # {})
  IN [samples |-> n, stability |-> Clamp(1000 - (IF n < 2 THEN 0 ELSE 3 * deviation)),
      resilience |-> IF hit = <<>> THEN 700 ELSE Clamp(Avg(Each(hit, LAMBDA r : r.health)) + 200),
      aggression |-> Clamp(5 * Avg(Each(rows, LAMBDA r : Share(r.retries, Most(r.events, 1))))),
      sensitivity |-> Clamp(8 * Avg(Each(rows, LAMBDA r : Share(r.anomalies, Most(r.events, 1))))),
      persistence |-> Clamp(Share(2 * Len(retrying), n)),
      recovery |-> IF hit = <<>> THEN 500 ELSE Share(Len(SelectSeq(hit, LAMBDA r : r.health > 600)), Len(hit)),
      worse |-> worse]

Inclined(t) ==
  t @@ [traits |-> Traits(t),
        risk |-> IF t.aggression > 650 \/ t.persistence > 650 THEN "aggressive"
                 ELSE IF t.aggression < 300 /\ t.sensitivity < 300 THEN "conservative" ELSE "moderate",
        failure |-> Clamp((25 * t.aggression + 25 * t.sensitivity + 20 * (1000 - t.resilience)
                             + 20 * (1000 - t.stability)) \div 100 + (IF t.worse THEN 300 ELSE 0))]

Temperament(family, history) ==
  LET of(rows) ==
        IF rows = <<>> THEN DefaultTemperament
        ELSE Inclined(TemperamentOf(rows, Avg(Each(rows, LAMBDA r : r.health))))
  IN of(SelectSeq(history, LAMBDA r : r.swarm.family = family))

-----------------------------------------------------------------------------
(* SelfOptimizer *)

Learnt(parameter, suggested, improvement) ==
  [parameter |-> parameter, suggested |-> suggested, improvement |-> improvement]

\* No retry policy is ever put into force, so the learnings about backoff and
\* circuit breakers, which adapt the policies in force, are never made.

BatchSize(trends) ==
  LET rising == SelectSeq(trends, LAMBDA t : t.metric = "retries" /\ t.direction = "degrading") IN
  IF rising = <<>> THEN <<>> ELSE <<Learnt("queue_batch_size", 35, Cap(5 * rising[1].change, 150))>>

Sensitivity(history) ==
  LET recovered == SelectSeq(FirstFew(history, 20), LAMBDA r : r.incidents # {} /\ r.health > 650) IN
  IF Len(history) < 20 THEN <<>>
  ELSE Some(Len(recovered) > 14, Learnt("governance_min_confidence_threshold", 500, 50))
         \o Some(Len(recovered) < 6, Learnt("governance_min_confidence_threshold", 650, 80))

ComputeLearnings(history, trends) ==
  IF Len(history) < 4 THEN <<>> ELSE Ranked(BatchSize(trends) \o Sensitivity(history), LAMBDA l : l.improvement)

-----------------------------------------------------------------------------
(* StrategicAdvisor *)

Rec(category, priority, confidence) == [category |-> category, priority |-> priority, confidence |-> confidence]

RetryAdvice(health, history, t) ==
  LET storms == SelectSeq(health.incidents, LAMBDA i : i.kind \in {"retry_storm", "orchestration_instability"})
      chronic == Share(Len(SelectSeq(history, LAMBDA r : 5 * r.retries > Most(r.events, 1))), Most(Len(history), 1))
      tune == IF chronic > 500 THEN Rec("retry_policy", 4, Cap(500 + chronic, 950)) ELSE Rec("retry_policy", 3, 820)
  IN Some(storms # <<>> \/ health.retry < 500, tune) \o Some(t.persistence > 600, Rec("retry_policy", 2, 740))

TopologyAdvice(health) ==
  LET held == {b.agent : b \in ToSet(health.bottlenecks)}
      tired == SelectSeq(health.agents, LAMBDA s : s.efficiency < 400)
  IN Some(\E s \in ToSet(health.agents) : s.agent \in held, Rec("agent_topology", 3, 780))
       \o Some(10 * Len(tired) > 4 * Most(Len(health.agents), 1), Rec("agent_topology", 3, 850))

WorkloadAdvice(health, history) ==
  LET heavy == SelectSeq(history, LAMBDA r : r.events > 0 /\ r.agents > 0 /\ r.events > 150 * r.agents) IN
  Some(health.balance < 500, Rec("workload_distribution", 2, 720))
    \o Some(10 * Len(heavy) > 6 * Most(Len(history), 1), Rec("workload_distribution", 2, 680))

AnomalyAdvice(health, t) ==
  Some(OfKind(health.incidents, "anomaly_cascade") # <<>>, Rec("anomaly_mitigation", 4, 890))
    \o Some(t.sensitivity > 600, Rec("anomaly_mitigation", 2, 710))

ThroughputAdvice(health, trends) ==
  Some(health.throughput < 500, Rec("throughput_tuning", 2, 760))
    \o Some(\E x \in ToSet(trends) : x.metric = "efficiency" /\ x.direction = "degrading", Rec("throughput_tuning", 3, 810))

PostureAdvice(health, t) ==
  Some(t.risk = "aggressive" /\ health.overall < 700, Rec("governance_posture", 3, 770))
    \o Some(t.resilience > 750 /\ t.stability > 700, Rec("governance_posture", 1, 650))

\* The eight weightiest.
Advise(health, history, trends, t) ==
  FirstFew(Ranked(RetryAdvice(health, history, t) \o TopologyAdvice(health) \o WorkloadAdvice(health, history)
                    \o AnomalyAdvice(health, t) \o ThroughputAdvice(health, trends) \o PostureAdvice(health, t),
                  LAMBDA r : 1000 * r.priority + r.confidence), 8)

-----------------------------------------------------------------------------
(* The requests; one about each history, for these change nothing *)

\* POST /analyze of a complete run; one that is analyzed again becomes the newest.
Record(swarm, health) ==
  LET known == {a.swarm : a \in ToSet(analyses)} IN
  /\ Len(analyses) < MaxAnalyses /\ Len(analyses) - Cardinality(known \cup {swarm}) < MaxAgain
  /\ swarm_history' = Replaced(swarm_history, Row(swarm, health))
  /\ analyses' = Append(analyses, [swarm |-> swarm, health |-> health])
  /\ reply' = None

Answer(to, answer) == reply = None /\ reply' = [to |-> to, answer |-> answer] /\ UNCHANGED <<swarm_history, analyses>>

MemoryTrends == Answer("trends", ComputeTrends(GetHistory(20)))
MemoryPatterns == Answer("patterns", FindRecurringPatterns(GetHistory(100)))
SimulateTemperament(family) == Answer("temperament", Temperament(family, GetHistory(100)))
OptimizeLearnings == Answer("learnings", ComputeLearnings(GetHistory(50), ComputeTrends(GetHistory(20))))
StrategyRecommend(family, health) ==
  Answer("strategy", Advise(health, GetHistory(50), ComputeTrends(GetHistory(20)), Temperament(family, GetHistory(50))))

HealthHistory == Each(GetHistory(20), LAMBDA r : r.health)
EmergenceAnalyze(emergent) == Answer("emergence", emergent)
EmergenceCoherence(c) == Answer("coherence", c)
EmergenceConsciousness(health, emergent, c) == Answer("consciousness", Consciousness(health, emergent, c, 0))
EvolutionPlan(events, health, emergent, c) == Answer("plan", BuildEvolutionPlan(events, health, emergent, c))

\* The requests about the events of a swarm begin with what these tell.
AboutEvents(events, health, emergent, c) ==
  \/ EmergenceAnalyze(emergent) \/ EmergenceCoherence(c)
  \/ EmergenceConsciousness(health, emergent, c) \/ EvolutionPlan(events, health, emergent, c)

Families == {Names[n].family : n \in DOMAIN Names}

LearningNext ==
  \/ \E n \in DOMAIN Names, w \in Windows :
       (\A m \in 1 .. n - 1 : \E a \in ToSet(analyses) : a.swarm = Names[m]) /\ Record(Names[n], Healths[w])
  \/ MemoryTrends \/ MemoryPatterns \/ OptimizeLearnings
  \/ \E family \in Families : SimulateTemperament(family) \/ \E w \in Windows : StrategyRecommend(family, Healths[w])
  \/ \E w \in Windows :
       AboutEvents(w.events, Healths[w], Emergent(w.events), CoherenceOf(w.events, Healths[w], HealthHistory))

LearningRestart == reply' = None /\ UNCHANGED <<swarm_history, analyses>>

-----------------------------------------------------------------------------
(* Properties *)

Replied(to) == reply # None /\ reply.to = to

\* The places of the last analysis of each swarm, and the last few of these.
LastOnes == {n \in DOMAIN analyses : \A m \in n + 1 .. Len(analyses) : analyses[m].swarm # analyses[n].swarm}
Newest(few) == {n \in LastOnes : Cardinality({m \in LastOnes : m > n}) < few}

\* The recurring patterns are the kinds of trouble that at least two of the
\* hundred swarms analyzed last show, when these are five or more, each with
\* the share of the swarms that show it by their last analysis: one that was
\* analyzed often counts once, and what it no longer shows does not count.
PatternsCountSwarms ==
  Replied("patterns") =>
    LET shown(n) == KindsIn(analyses[n].health.bottlenecks) \cup KindsIn(analyses[n].health.incidents)
        with(kind) == Cardinality({n \in Newest(100) : kind \in shown(n)})
        swarms == Cardinality(Newest(100))
    IN /\ \A p \in reply.answer : with(p.kind) >= 2 /\ p.frequency = Share(with(p.kind), swarms)
       /\ swarms >= 5 => \A n \in Newest(100) : \A kind \in shown(n) :
            with(kind) >= 2 => \E p \in reply.answer : p.kind = kind

\* When no run was worse than one before it, by the order of the last analyses
\* of the twenty swarms analyzed last, their health is never said to be
\* degrading, and when none was better never to be improving.
TrendsFollowTime ==
  Replied("trends") =>
    LET rising == \A m, n \in Newest(20) : m < n => analyses[m].health.overall <= analyses[n].health.overall
        falling == \A m, n \in Newest(20) : m < n => analyses[m].health.overall >= analyses[n].health.overall
    IN \A t \in ToSet(reply.answer) : t.metric = "health" =>
         /\ (rising => t.direction # "degrading")
         /\ (falling => t.direction # "improving")

\* What the memory tells of many analyses counts each swarm once, by its last
\* analysis, and follows the order of time, however often swarms are re-analyzed.
MemoryFollowsSwarms == PatternsCountSwarms /\ TrendsFollowTime

\* What a comment says of the history that a report on coherence is given: it
\* has the newest run last. So the best run weighs most when runs get better,
\* and the resilience is no less than it would be with equal weights.
RecentRunsWeighMost ==
  Replied("coherence") =>
    LET rising == \A m, n \in Newest(20) : m < n => analyses[m].health.overall <= analyses[n].health.overall
    IN rising /\ analyses # <<>> =>
         RecencyWeighted(HealthHistory) >= Avg(HealthHistory)

=============================================================================
