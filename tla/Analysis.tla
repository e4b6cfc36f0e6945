------------------------------ MODULE Analysis ------------------------------
(* What the intelligence service reads from the events of a swarm: the      *)
(* efficiency of its agents, its bottlenecks, its incidents and its health. *)
(* An event is [type, agent, zone, at, target, took]: at is in seconds from *)
(* the start, and events may come in any order; target is whom a handoff    *)
(* goes to and took how long a task lasted, in seconds, or None. Scores are *)
(* thousandths, severities and probabilities percentages, rounded down.     *)
EXTENDS Swarms, FiniteSets

RetryTypes == {"TASK_RETRY", "AGENT_RETRY", "CIRCUIT_BREAKER_HALF_OPEN"}
AnomalyTypes == {"ANOMALY_DETECTED", "CIRCUIT_BREAKER_OPEN", "AGENT_TIMEOUT", "QUEUE_OVERFLOW"}
FailureTypes == {"TASK_FAILED", "AGENT_FAILED", "SWARM_FAILED"}
StepTypes == {"TASK_COMPLETED", "AGENT_STEP_COMPLETED"}
SuccessTypes == StepTypes \cup {"SWARM_COMPLETED"}
HandoffTypes == {"TASK_HANDOFF", "AGENT_HANDOFF"}
CriticalTypes == {"SWARM_FAILED", "CIRCUIT_BREAKER_OPEN", "ANOMALY_DETECTED"}

Typed(es, types) == At(es, {n \in DOMAIN es : es[n].type \in types})
Count(es, types) == Cardinality({n \in DOMAIN es : es[n].type \in types})
OfAgent(es, a) == At(es, {n \in DOMAIN es : es[n].agent = a})
Listed(s) == At(s, {n \in DOMAIN s : \A m \in 1 .. n - 1 : s[m] # s[n]})
Agents(es) == Listed(Each(es, LAMBDA e : e.agent))
Zones(es) == Listed(Each(At(es, {n \in DOMAIN es : es[n].zone # None}), LAMBDA e : e.zone))
Most(m, n) == IF m > n THEN m ELSE n
SumOf(s) == FoldLeft(LAMBDA sum, n : sum + n, 0, s)
SortedByTime(s) == Ranked(s, LAMBDA e : 0 - e.at)
FirstHalf(es) == SubSeq(es, 1, Len(es) \div 2)
SecondHalf(es) == SubSeq(es, (Len(es) \div 2) + 1, Len(es))

-----------------------------------------------------------------------------
(* Agents *)

Mean(s) == IF s = <<>> THEN None ELSE SumOf(s) \div Len(s)

\* Of an agent's events.
Score(of) ==
  LET retries == Count(of, RetryTypes)
      attempts == Count(of, SuccessTypes) + retries + Count(of, FailureTypes)
      success == IF attempts = 0 THEN 1000 ELSE (1000 * Count(of, SuccessTypes)) \div attempts
      timed == At(of, {n \in DOMAIN of : of[n].took # None})
  IN [agent |-> of[1].agent, events |-> Len(of), retries |-> retries, failures |-> Count(of, FailureTypes),
      efficiency |-> Most(0, success - (300 * retries) \div Len(of)),
      avg |-> Mean(Each(timed, LAMBDA e : 1000 * e.took))]

Scores(es) == Each(Agents(es), LAMBDA a : Score(OfAgent(es, a)))

-----------------------------------------------------------------------------
(* Bottlenecks *)

Bottleneck(kind, agent, zone, severity, onset) ==
  [kind |-> kind, agent |-> agent, zone |-> zone, severity |-> Cap(severity, 100), onset |-> onset]

RetryLoopsNever(rs) ==          \* the window never lets go of its first retry
  FlattenSeq([n \in DOMAIN rs |-> Some(n >= 3 /\ rs[n].at - rs[1].at <= 5,
                                       Bottleneck("retry_loop", rs[n].agent, rs[n].zone, 10 * n, rs[1].at))])

\* Three retries of an agent within five seconds; the search starts anew behind them.
RetryLoopsOf(rs) ==
  LET begin(acc, n) == Min({k \in acc.from .. Len(rs) + 1 : k >= n \/ rs[n].at - rs[k].at <= 5})
      slide(acc, n) ==
        IF n < 3 THEN acc
        ELSE LET k == begin(acc, n) IN
             IF n - k < 2 THEN [acc EXCEPT !.from = k]
             ELSE [from |-> n + 1,
                   found |-> Append(acc.found, Bottleneck("retry_loop", rs[n].agent, rs[n].zone, 10 * (n - k + 1), rs[k].at))]
  IN FoldLeftDomain(slide, [from |-> 1, found |-> <<>>], rs).found

RetryLoops(retries) == Joined(Each(Agents(retries), LAMBDA a : RetryLoopsOf(OfAgent(retries, a))))

Median(s) == Ranked(s, LAMBDA n : 0 - n)[(Len(s) \div 2) + 1]
SlowAgent(s, first, median) ==
  LET excess == 40 * s.avg - 100 * median
      severity == IF median > 0 THEN excess \div median ELSE IF median < 0 THEN (0 - excess) \div (0 - median) ELSE 100
  IN Bottleneck("slow_agent", s.agent, first.zone, severity, first.at)
SlowAgents(es, timed) ==
  LET median == Median(Each(timed, LAMBDA s : s.avg))
      slow == At(timed, {n \in DOMAIN timed : 2 * timed[n].avg > 5 * median})
  IN IF Len(timed) < 2 THEN <<>> ELSE Each(slow, LAMBDA s : SlowAgent(s, OfAgent(es, s.agent)[1], median))

\* A handoff is late when its target's next event is more than five seconds away.
HandoffDelays(es, lasts) ==
  LET next(h) == {n \in DOMAIN es : es[n].agent = h.target /\ es[n].at > h.at}
      delay(h) == (IF next(h) = {} THEN lasts ELSE es[Min(next(h))].at) - h.at
      late(h) == h.type \in HandoffTypes /\ h.target # None /\ delay(h) > 5
  IN Each(At(es, {n \in DOMAIN es : late(es[n])}), LAMBDA h : Bottleneck("handoff_delay", h.agent, h.zone, (100 * delay(h)) \div 30, h.at))

\* The buckets of three seconds in which nothing happens are passed over.
Spike(bucket, size, before) ==
  Some(size >= 3 * before,
       Bottleneck("queue_buildup", None, None, (100 * (size - 3 * before)) \div (3 * before), 3 * bucket))
Buildup(es, buckets) ==
  LET size(b) == Cardinality({n \in DOMAIN es : es[n].at \div 3 = b}) IN
  Joined([n \in 1 .. Len(buckets) - 1 |-> Spike(buckets[n + 1], size(buckets[n + 1]), size(buckets[n]))])
QueueBuildup(es) ==
  IF Len(es) < 10 THEN <<>> ELSE Buildup(es, Ranked(Listed(Each(es, LAMBDA e : e.at \div 3)), LAMBDA b : 0 - b))

AnomalyConcentration(es) ==
  LET concentrated(z, in, bad) ==
        Some(Len(in) >= 5 /\ 5 * Len(bad) >= 2 * Len(in),
             Bottleneck("anomaly_concentration", None, z, (150 * Len(bad)) \div Len(in), bad[1].at))
      in(z) == At(es, {n \in DOMAIN es : es[n].zone = z})
  IN Joined(Each(Zones(es), LAMBDA z : concentrated(z, in(z), Typed(in(z), AnomalyTypes))))

Stalled(es, lasts) ==
  LET silent(of, last) ==
        Some(Len(of) >= 3 /\ lasts - last.at > 10,
             Bottleneck("stalled_orchestration", last.agent, last.zone, (100 * (lasts - last.at)) \div 30, last.at))
  IN IF lasts < 20 THEN <<>>
     ELSE Joined(Each(Agents(es), LAMBDA a : silent(OfAgent(es, a), Last(OfAgent(es, a)))))

\* Per kind, agent and zone the first of the worst; the worst come first.
Deduplicated(bs) ==
  LET key(n) == <<bs[n].kind, bs[n].agent, bs[n].zone>>
      same(n) == {m \in DOMAIN bs : key(m) = key(n)}
      worst(n) == Min({m \in same(n) : \A o \in same(n) : bs[o].severity <= bs[m].severity})
      kept == At([n \in DOMAIN bs |-> bs[worst(n)]], {n \in DOMAIN bs : \A m \in same(n) : n <= m})
  IN Ranked(kept, LAMBDA b : b.severity)

Bottlenecks(es, lasts, scores) ==
  Deduplicated(RetryLoops(Typed(es, RetryTypes)) \o SlowAgents(es, At(scores, {n \in DOMAIN scores : scores[n].avg # None}))
                 \o HandoffDelays(es, lasts) \o QueueBuildup(es) \o AnomalyConcentration(es) \o Stalled(es, lasts))

-----------------------------------------------------------------------------
(* Incidents *)

Risk(p) == IF p >= 80 THEN "critical" ELSE IF p >= 60 THEN "high" ELSE IF p >= 35 THEN "medium" ELSE "low"
RiskValue == [low |-> 1, medium |-> 2, high |-> 3, critical |-> 4]

Incident(kind, probability, onset, escalates, agents) ==
  LET p == Cap(probability, 100) IN
  [kind |-> kind, risk |-> Risk(p), probability |-> p, onset |-> onset, escalates |-> escalates, agents |-> agents]

RetryStorm(rs, lasts) ==
  LET span == Most(lasts, 6)
      p == Cap((375 * Len(rs)) \div span, 100)
      bursts == {n \in 3 .. Len(rs) : rs[n].at - rs[n - 2].at <= 10}
      onset == rs[IF bursts = {} THEN 1 ELSE Min(bursts) - 2].at
  IN IF Len(rs) < 3 \/ 15 * Len(rs) < span THEN <<>>
     ELSE <<Incident("retry_storm", p, onset, IF p > 70 THEN onset + 3000 \div p ELSE None, Agents(rs))>>

\* The share of retries and failures rises from the first half of the events to the second.
Degradation(es, scores) ==
  LET bad(half) == Count(half, RetryTypes \cup FailureTypes)
      n1 == Len(FirstHalf(es))
      n2 == Len(SecondHalf(es))
      rise == bad(SecondHalf(es)) * n1 - bad(FirstHalf(es)) * n2
      p == Cap((400 * rise) \div (n1 * n2), 100)
      onset == SecondHalf(es)[1].at
      weak == At(scores, {n \in DOMAIN scores : scores[n].efficiency < 500})
  IN IF Len(es) < 20 \/ 8 * rise < n1 * n2 THEN <<>>
     ELSE <<Incident("swarm_degradation", p, onset, IF p > 60 THEN onset + 60 ELSE None, Each(weak, LAMBDA s : s.agent))>>

\* Three anomalies of two agents within ten seconds: the first place where they are seen.
AnomalyCascade(as) ==
  LET near(n) == SubSeq(as, Min({k \in 1 .. n : as[k].at >= as[n].at - 10}), n)
      seen == {n \in 3 .. Len(as) : Len(near(n)) >= 3 /\ Len(Agents(near(n))) >= 2}
      cascade(first) ==
        Incident("anomaly_cascade", (100 * Len(first)) \div 6, first[1].at, first[1].at + 15, Agents(first))
  IN IF seen = {} THEN <<>> ELSE <<cascade(near(Min(seen)))>>

\* The rates compared are the numbers of events in the two halves of the list of events.
ThroughputCollapse(es) ==
  LET n1 == Len(FirstHalf(es))
      drop == n1 - Len(SecondHalf(es))
      onset == SecondHalf(es)[1].at
  IN IF Len(es) < 10 \/ 5 * drop < 3 * n1 THEN <<>>
     ELSE <<Incident("throughput_collapse", (125 * drop) \div n1, onset, onset + 30, <<>>)>>

\* How often an agent begins to retry, first or after a step it completed.
Flips(of) ==
  LET since(m, n) == \E k \in m + 1 .. n - 1 : of[k].type \in StepTypes
      retry(n) == of[n].type \in RetryTypes
  IN Cardinality({n \in DOMAIN of : retry(n) /\ \A m \in 1 .. n - 1 : retry(m) => since(m, n)})

FlipFlops(es) ==
  LET flips(a) == Flips(OfAgent(es, a))
      unstable(agents, n) == Some(n >= 4, Incident("orchestration_instability", (100 * n) \div 8, es[1].at, None, agents))
      flipping == At(Agents(es), {n \in DOMAIN Agents(es) : flips(Agents(es)[n]) >= 2})
  IN unstable(flipping, SumOf(Each(flipping, flips)))

Exhaustion(es, scores) ==
  LET tired == At(scores, {n \in DOMAIN scores : 20 * scores[n].retries >= 7 * scores[n].events})
      exhausted(s, p, onset) == Incident("agent_exhaustion", p, onset, IF p > 70 THEN onset + 20 ELSE None, <<s.agent>>)
  IN Each(tired, LAMBDA s : exhausted(s, Cap((500 * s.retries) \div (3 * s.events), 100), OfAgent(es, s.agent)[1].at))

\* The riskiest first, then the most probable.
Incidents(es, lasts, scores) ==
  Ranked(RetryStorm(Typed(es, RetryTypes), lasts) \o Degradation(es, scores) \o AnomalyCascade(Typed(es, AnomalyTypes))
           \o ThroughputCollapse(es) \o (IF es = <<>> THEN <<>> ELSE FlipFlops(es)) \o Exhaustion(es, scores),
         LAMBDA i : 1000 * RiskValue[i.risk] + i.probability)

-----------------------------------------------------------------------------
(* Health *)

Root(x) == FoldLeft(LAMBDA r, bit : IF (r + bit) * (r + bit) <= x THEN r + bit ELSE r,
                    0, <<256, 128, 64, 32, 16, 8, 4, 2, 1>>)

\* The coefficient of variation of some counts, in percent.
Variation(counts) ==
  LET sum == SumOf(counts) IN
  IF Len(counts) < 2 \/ sum = 0 THEN 0
  ELSE Root((10000 * (Len(counts) * SumOf(Each(counts, LAMBDA c : c * c)) - sum * sum)) \div (sum * sum))

Clamp(n) == IF n \in 0 .. 1000 THEN n ELSE IF n < 0 THEN 0 ELSE 1000

\* The numbers of events in each second from the first event in the list to the last; those
\* that come earlier are not counted, those that come later count in the last second.
PerSecond(es) ==
  LET since(e) == e.at - es[1].at
      seconds == Most(1, since(Last(es)) + 1)
  IN IF es = <<>> THEN <<>>
     ELSE [s \in 1 .. seconds |-> Len(SelectSeq(es, LAMBDA e : Cap(since(e), seconds - 1) = s - 1))]

Trend(es) ==
  LET bad(half) == Count(half, RetryTypes \cup AnomalyTypes)
      n1 == Len(FirstHalf(es))
      n2 == Len(SecondHalf(es))
      rise == 20 * (bad(SecondHalf(es)) * n1 - bad(FirstHalf(es)) * n2)
  IN IF Len(es) < 20 THEN "unknown"
     ELSE IF rise < 0 - n1 * n2 THEN "improving" ELSE IF rise > n1 * n2 THEN "degrading" ELSE "stable"

Label(overall) ==
  IF overall >= 800 THEN "healthy" ELSE IF overall >= 550 THEN "degraded"
  ELSE IF overall >= 300 THEN "critical" ELSE "failed"

\* How evenly the events are spread over the agents, and how efficient these are.
Balance(scores) == Clamp(1000 - 10 * Variation(Each(scores, LAMBDA s : s.events)))
Efficiency(scores, n) ==
  IF scores = <<>> THEN 1000 ELSE Clamp(SumOf(Each(scores, LAMBDA s : s.efficiency * s.events)) \div n)

\* SwarmHealthScorer.score: the report on the events of a window that lasts so
\* long, and on the scores of its agents.
ReportOf(es, lasts, scores) ==
  LET n == Most(Len(es), 1)
      retry == Clamp(1000 - (5000 * Count(es, RetryTypes)) \div n)
      anomaly == Clamp(1000 - (8000 * Count(es, AnomalyTypes)) \div n)
      balance == Balance(scores)
      efficiency == Efficiency(scores, n)
      throughput == Clamp(1000 - 5 * Variation(PerSecond(es)))
      composite == (30 * efficiency + 25 * anomaly + 20 * retry + 15 * throughput + 10 * balance) \div 100
      overall == Clamp(composite - Cap(100 * Count(es, CriticalTypes), 300) - Cap(50 * Count(es, FailureTypes), 200))
  IN [overall |-> overall, efficiency |-> efficiency, anomaly |-> anomaly, retry |-> retry,
      throughput |-> throughput, balance |-> balance, label |-> Label(overall), trend |-> Trend(es),
      agents |-> scores, bottlenecks |-> Bottlenecks(es, lasts, scores), incidents |-> Incidents(es, lasts, scores)]

HealthReport(es, lasts) == ReportOf(es, lasts, Scores(es))

-----------------------------------------------------------------------------
(* What the experiments leave of the events *)

\* Of its events at the places of a set each agent keeps the first few.
Limited(es, places, most) ==
  LET nth(n) == Cardinality({m \in places : m <= n /\ es[m].agent = es[n].agent}) IN
  At(es, {n \in DOMAIN es : n \in places => nth(n) <= most})

=============================================================================
