------------------------------ MODULE Insight -------------------------------
(* The requests about the events of one swarm: /analyze answers with their  *)
(* health, a summary, a knowledge graph and a narrative, /simulate/branch   *)
(* with what the health would be had some events been different. The        *)
(* service keeps nothing of them; the window of the client grows.           *)
EXTENDS Analysis

CONSTANTS
  Courses         \* what swarms do: [bursts, most, mutations], a set of bursts [events, lasts], with times
                  \* relative to the beginning of the burst, the bound on how many bursts there are, and
                  \* the mutations [kind, target, from, n, zone, agent] that the client asks about

\* Events as a client may send them: at any times, in any order; a task may have no duration.
WellFormed(es, lasts) ==
  /\ IsList(es) /\ lasts \in Int
  /\ \A n \in DOMAIN es : /\ {"type", "agent", "zone", "at", "target", "took"} \subseteq DOMAIN es[n]
                           /\ es[n].at \in Int /\ es[n].took \in Int \cup {None}

ASSUME InsightAssumption ==
  \A c \in Courses : {"bursts", "most"} \subseteq DOMAIN c /\ \A b \in c.bursts : WellFormed(b.events, b.lasts)

VARIABLES
  course,         \* what the swarm may do next, and how often still; None before it begins
  window,         \* the events of the swarm so far
  elapsed,        \* seconds since it started
  answer          \* the answer to the request about the window, None before it

insight == <<course, window, elapsed, answer>>

InsightInit == course = None /\ window = <<>> /\ elapsed = 0 /\ answer = None

\* A swarm begins, and
Begin(c) == course = None /\ course' = c /\ UNCHANGED <<window, elapsed, answer>>

\* goes on: neither is this service's doing.
Arrive(b) ==
  /\ course.most > 0 /\ course' = [course EXCEPT !.most = @ - 1]
  /\ window' = window \o Each(b.events, LAMBDA e : [e EXCEPT !.at = e.at + elapsed])
  /\ elapsed' = elapsed + b.lasts
  /\ answer' = None

-----------------------------------------------------------------------------
(* The summary *)

Outcome(health, complete) ==
  IF ~complete THEN "ongoing" ELSE IF health.label = "failed" THEN "failure"
  ELSE IF health.overall < 600 THEN "partial" ELSE "success"

BottleneckHighlight ==
  [retry_loop |-> "retry", stalled_orchestration |-> "failure", anomaly_concentration |-> "anomaly",
   slow_agent |-> "anomaly", handoff_delay |-> "anomaly", queue_buildup |-> "anomaly"]
IncidentHighlight(kind) ==
  IF kind = "retry_storm" THEN "retry" ELSE IF kind = "throughput_collapse" THEN "failure" ELSE "anomaly"

HeadOr(s) == IF s = <<>> THEN None ELSE s[1]
Highlight(at, kind, agent) == [at |-> at, kind |-> kind, agent |-> agent]

Highlights(es, health) ==
  LET serious == SelectSeq(FirstFew(health.incidents, 4), LAMBDA i : i.risk # "low")
      recoveries == FirstFew(Typed(es, {"CIRCUIT_BREAKER_CLOSED", "AGENT_RECOVERED", "SWARM_RECOVERED"}), 3)
      done == FirstFew(Typed(es, {"SWARM_COMPLETED"}), 1)
  IN SortedByTime(
       Each(FirstFew(health.bottlenecks, 5), LAMBDA b : Highlight(b.onset, BottleneckHighlight[b.kind], b.agent))
         \o Each(serious, LAMBDA i : Highlight(i.onset, IncidentHighlight(i.kind), HeadOr(i.agents)))
         \o Each(recoveries, LAMBDA e : Highlight(e.at, "recovery", e.agent))
         \o Each(done, LAMBDA e : Highlight(e.at, "success", None)))

\* The first of the buckets of five seconds that hold the most events, by where they are first met.
Peak(es) ==
  LET size(b) == Cardinality({n \in DOMAIN es : es[n].at \div 5 = b}) IN
  IF es = <<>> THEN 0 ELSE 5 * Ranked(Listed(Each(es, LAMBDA e : e.at \div 5)), size)[1]

Moment(at, phase) == [at |-> at, phase |-> phase]

\* Of entries of the same moment the first is kept.
FirstOfMoments(s) == FlattenSeq([n \in DOMAIN s |-> Some(n = 1 \/ s[n].at # s[n - 1].at, s[n])])

Timeline(es, health, lasts, peak) ==
  LET ramp == (15 * lasts) \div 100
      told == FirstFew(SelectSeq(health.incidents, LAMBDA i : i.risk # "low"), 2)
      incident(i) == <<Moment(i.onset, "incident")>> \o Some(i.escalates # None, Moment(i.escalates, "recovery"))
      done == FirstFew(Typed(es, {"SWARM_COMPLETED"}), 1)
  IN IF lasts <= 0 THEN <<>>
     ELSE FirstOfMoments(SortedByTime(
            <<Moment(0, "init"), Moment(ramp, "ramp")>> \o Some(peak > ramp, Moment(peak, "peak"))
              \o FlattenSeq(Each(told, incident)) \o <<Moment((85 * lasts) \div 100, "wind_down")>>
              \o Each(done, LAMBDA e : Moment(e.at, "complete"))))

Advice(health) ==
  LET given == Some(health.retry < 600, "backoff") \o Some(health.balance < 500, "distribution")
                 \o Some(health.throughput < 500, "smoothing")
                 \o Some(OfKind(health.incidents, "retry_storm") # <<>>, "jitter")
                 \o Some(\E n \in DOMAIN health.agents : health.agents[n].efficiency < 300, "capacity")
                 \o Some(\E n \in DOMAIN health.bottlenecks : health.bottlenecks[n].zone # None, "zones")
  IN given \o Some(health.overall > 850 /\ given = <<>>, "no change")

Summary(es, health, lasts, complete) ==
  [outcome |-> Outcome(health, complete), highlights |-> Highlights(es, health),
   timeline |-> Timeline(es, health, lasts, Peak(es)), advice |-> Advice(health)]

-----------------------------------------------------------------------------
(* The knowledge graph: nodes by agent and zone, edges with weights *)

GraphNode(of, busiest) ==
  [weight |-> (100 * Len(of)) \div busiest, state |-> Last(of).type, anomaly |-> Count(of, AnomalyTypes) > 0]

GraphNodes(es, swarm) ==
  LET of(id) == At(es, {n \in DOMAIN es : id \in {es[n].agent, es[n].zone}})
      among(id, ids) == GraphNode(of(id), Max({Len(of(other)) : other \in ids}))
      zones == ToSet(Zones(es))
      agents == ToSet(Agents(es))
      root == [weight |-> 100 * Len(es), state |-> "active", anomaly |-> FALSE]
      node(id) == IF id \in zones THEN among(id, zones) ELSE IF id \in agents THEN among(id, agents) ELSE root
  IN [id \in zones \cup agents \cup {swarm} |-> node(id)]

\* From each anomaly the search goes on until one that is more than five seconds away.
CoAnomalies(as) ==
  LET reached(m, n) == \A k \in m + 1 .. n : as[k].at - as[m].at \in -5 .. 5
      pair(m, n) == Some(m < n /\ reached(m, n) /\ as[m].agent # as[n].agent /\ as[m].zone = as[n].zone,
                         <<as[m].agent, as[n].agent, "anomaly_propagation">>)
  IN Joined([m \in DOMAIN as |-> Joined([n \in DOMAIN as |-> pair(m, n)])])

\* The edges, one for each event or pair of events that speaks for them.
EdgeList(es, swarm) ==
  LET agents == Agents(es)
      zoned == At(es, {n \in DOMAIN es : es[n].zone # None})
      known == At(es, {n \in DOMAIN es : es[n].type \in HandoffTypes /\ es[n].target \in ToSet(agents)})
      retrying == At(agents, {n \in DOMAIN agents : Count(OfAgent(es, agents[n]), RetryTypes) >= 2})
  IN Each(zoned, LAMBDA e : <<e.agent, e.zone, "collaboration">>)
       \o Each(agents, LAMBDA a : <<a, swarm, "dependency">>)
       \o Each(known, LAMBDA e : <<e.agent, e.target, "handoff">>)
       \o Each(retrying, LAMBDA a : <<a, a, "retry">>)
       \o CoAnomalies(Typed(es, AnomalyTypes))

Weighed(count) == [k \in DOMAIN count |-> (100 * count[k]) \div Max(Range(count))]
GraphEdges(list) == Weighed([k \in ToSet(list) |-> Cardinality({n \in DOMAIN list : list[n] = k})])

-----------------------------------------------------------------------------
(* The narrative *)

Grave(health) == SelectSeq(health.incidents, LAMBDA i : i.risk \in {"high", "critical"})

Phase(es, health, now) ==
  IF Count(es, {"SWARM_FAILED"}) > 0 THEN "resolution"
  ELSE IF Count(es, {"SWARM_COMPLETED"}) > 0 THEN "epilogue"
  ELSE IF health.trend = "improving" /\ health.overall < 700 THEN "recovery"
  ELSE IF Grave(health) # <<>> THEN "incident"
  ELSE IF now < 8 THEN "activation" ELSE IF now < 20 THEN "ramp"
  ELSE IF health.overall < 400 THEN "incident" ELSE "peak_operation"

PhaseBoost == [activation |-> 0, ramp |-> 50, peak_operation |-> 50, incident |-> 300,
               recovery |-> 100, resolution |-> 50, epilogue |-> 0]

Tension(health, phase) ==
  LET criticals == Len(SelectSeq(health.incidents, LAMBDA i : i.risk = "critical")) IN
  Clamp((40 * (1000 - health.overall)) \div 100 + (1000 - health.retry) \div 4
          + Cap(200 * criticals, 300) + PhaseBoost[phase])

Pacing(tension, phase) ==
  IF phase = "incident" \/ tension > 750 THEN "urgent" ELSE IF tension > 450 THEN "fast"
  ELSE IF phase \in {"activation", "epilogue"} \/ tension < 150 THEN "slow" ELSE "medium"

\* An agent in grave trouble, else one that holds others up, else a weak one, else the busiest.
FocusAgent(health) ==
  LET grave == SelectSeq(Grave(health), LAMBDA i : i.agents # <<>>)
      stuck == SelectSeq(health.bottlenecks, LAMBDA b : b.agent # None)
      agents == health.agents
      weakest == SelectSeq(agents, LAMBDA s : \A n \in DOMAIN agents : s.efficiency <= agents[n].efficiency)
      busiest == SelectSeq(agents, LAMBDA s : \A n \in DOMAIN agents : s.events >= agents[n].events)
  IN IF grave # <<>> THEN grave[1].agents[1] ELSE IF stuck # <<>> THEN stuck[1].agent
     ELSE IF agents = <<>> THEN None
     ELSE IF weakest[1].efficiency < 600 THEN weakest[1].agent ELSE busiest[1].agent

FocusZone(health) ==
  LET zoned == SelectSeq(health.bottlenecks, LAMBDA b : b.zone # None) IN
  IF zoned = <<>> THEN None ELSE zoned[1].zone

\* What the camera is pointed at, by the priority of the shot.
Shots(phase, tension, agent, zone) ==
  LET shot(target, priority) == [target |-> target, priority |-> priority]
      first == IF tension > 350 THEN <<shot(agent, 0), shot(zone, 1)>> ELSE <<shot(None, 0)>>
      more == CASE phase = "activation" -> <<shot(agent, 2)>>
                [] phase = "peak_operation" -> <<shot(None, 2)>>
                [] phase = "incident" -> <<shot(agent, 1), shot(None, 3)>>
                [] phase = "recovery" -> <<shot(agent, 2)>>
                [] phase = "epilogue" -> <<shot(None, 1), shot(agent, 2)>>
                [] OTHER -> <<>>
  IN Ranked(first \o more, LAMBDA s : 0 - s.priority)

StoryBeat(health, phase) ==
  LET grave == Grave(health) IN
  IF grave # <<>> THEN grave[1].kind
  ELSE IF health.bottlenecks # <<>> /\ health.bottlenecks[1].severity > 50 THEN health.bottlenecks[1].kind
  ELSE phase

Told(health, phase, tension, agent, zone) ==
  [phase |-> phase, tension |-> tension, pacing |-> Pacing(tension, phase), beat |-> StoryBeat(health, phase),
   agent |-> agent, zone |-> zone, shots |-> Shots(phase, tension, agent, zone)]
Narrative(es, health, now) ==
  LET in(phase) == Told(health, phase, Tension(health, phase), FocusAgent(health), FocusZone(health)) IN
  in(Phase(es, health, now))

-----------------------------------------------------------------------------
(* The digital twin *)

Mutated(es, m) ==
  LET later(e) == e.at >= m.from
      of(e) == e.agent = m.target
      among(types, all) == {n \in DOMAIN es : es[n].type \in types /\ later(es[n]) /\ (all \/ of(es[n]))}
  IN CASE m.kind = "alter_retry_policy" -> Limited(es, among(RetryTypes, m.target = "*"), m.n)
       [] m.kind = "reroute_agent" -> Each(es, LAMBDA e : IF of(e) /\ later(e) THEN [e EXCEPT !.zone = m.zone] ELSE e)
       [] m.kind = "inject_anomaly" ->
            SortedByTime(es \o [n \in 1 .. m.n |-> [type |-> "ANOMALY_DETECTED", agent |-> m.target, zone |-> m.zone,
                                                     at |-> m.from + 2 * (n - 1), target |-> None, took |-> None]])
       [] m.kind = "remove_agent" -> SelectSeq(es, LAMBDA e : ~of(e) \/ ~later(e))
       [] m.kind = "add_capacity" ->
            SortedByTime(es \o Each(SelectSeq(es, LAMBDA e : of(e) /\ later(e)), LAMBDA e : [e EXCEPT !.agent = m.agent]))
       [] m.kind = "change_throughput" ->
            Each(es, LAMBDA e : IF later(e) THEN [e EXCEPT !.at = m.from + ((e.at - m.from) * m.n) \div 100] ELSE e)
       [] m.kind = "suppress_retries" -> Limited(es, among({"TASK_RETRY", "AGENT_RETRY"}, TRUE), 2)
       [] OTHER -> es

Kinds(s) == {s[n].kind : n \in DOMAIN s}

\* createBranch and simulate: the retry pressure is 1000 when nothing is retried.
Simulation(base, new) ==
  LET gain == new.efficiency - base.efficiency IN
  [baseline |-> base.overall, predicted |-> new.overall, gain |-> gain,
   retry_reduction |-> Most(0, base.retry - new.retry),
   risk |-> IF gain < -100 THEN "high" ELSE IF gain < 0 THEN "medium" ELSE "low",
   removed |-> Kinds(base.bottlenecks) \ Kinds(new.bottlenecks),
   prevented |-> Kinds(base.incidents) \ Kinds(new.incidents)]

-----------------------------------------------------------------------------
(* The requests: one about each window, for the service keeps nothing of them *)

Analyze(health, complete) ==
  answer' = [to |-> "analyze", health |-> health, summary |-> Summary(window, health, elapsed, complete),
             nodes |-> GraphNodes(window, "swarm"), edges |-> GraphEdges(EdgeList(window, "swarm")),
             narrative |-> Narrative(window, health, elapsed)]

AnalyzeHealth(health) == answer' = [to |-> "health", health |-> health]

AnalyzeNarrative(health) == answer' = [to |-> "narrative", narrative |-> Narrative(window, health, elapsed)]

SimulateBranch(health, m) ==
  answer' = [to |-> "simulate", mutation |-> m,
             result |-> Simulation(health, HealthReport(Mutated(window, m), elapsed))]

\* Every request begins with the health of the window.
Request(health) ==
  /\ answer = None
  /\ \/ \E complete \in BOOLEAN : Analyze(health, complete)
     \/ AnalyzeHealth(health)
     \/ AnalyzeNarrative(health)
     \/ course # None /\ \E m \in course.mutations : SimulateBranch(health, m)
  /\ UNCHANGED <<course, window, elapsed>>

InsightNext ==
  \/ \E c \in Courses : Begin(c)
  \/ course # None /\ \E b \in course.bursts : Arrive(b)
  \/ Request(HealthReport(window, elapsed))

InsightRestart == UNCHANGED insight

-----------------------------------------------------------------------------
(* Properties *)

\* Events that come in the order of their times, within the window. The requests
\* neither ask for it nor sort, and the client of the repository sends events by their priority.
InOrder(es, lasts) ==
  /\ \A n \in DOMAIN es : es[n].at \in 0 .. lasts
  /\ \A m, n \in DOMAIN es : m < n => es[m].at <= es[n].at

\* Whatever the order of the events p is a reason for q; in the order of their times it is the only one.
Entails(p, q) == (p => q) /\ (InOrder(window, elapsed) /\ q => p)

\* Of an agent that is reported to loop three retries lie within five seconds.
LoopsFound(health) ==
  \A a \in ToSet(Agents(window)) :
    Entails(\E n \in DOMAIN health.bottlenecks : health.bottlenecks[n].kind = "retry_loop" /\ health.bottlenecks[n].agent = a,
            LET rs == OfAgent(Typed(window, RetryTypes), a) IN
            \E i, j, k \in DOMAIN rs : i < j /\ j < k /\ rs[k].at <= rs[i].at + 5)

\* When three anomalies hit two agents in some ten seconds a cascade is reported.
CascadesFound(health) ==
  LET as == Typed(window, AnomalyTypes)
      near(t) == {n \in DOMAIN as : as[n].at >= t /\ as[n].at <= t + 10}
  IN Entails(\E t \in 0 .. elapsed : Cardinality(near(t)) >= 3 /\ Cardinality({as[n].agent : n \in near(t)}) >= 2,
             "anomaly_cascade" \in Kinds(health.incidents))

\* A handoff is reported late when its target did nothing in the five seconds behind it.
DelaysFound(health) ==
  \A a \in ToSet(Agents(window)) :
    Entails(\E n \in DOMAIN window :
              LET h == window[n] IN
              /\ h.agent = a /\ h.type \in HandoffTypes /\ h.target # None /\ elapsed > h.at + 5
              /\ \A m \in DOMAIN window : window[m].agent = h.target => window[m].at \notin h.at + 1 .. h.at + 5,
            \E n \in DOMAIN health.bottlenecks : health.bottlenecks[n].kind = "handoff_delay" /\ health.bottlenecks[n].agent = a)

\* An agent is reported stalled when it had been at work and then did nothing for the last ten seconds.
StallsFound(health) ==
  \A a \in ToSet(Agents(window)) :
    Entails(/\ elapsed >= 20 /\ Len(OfAgent(window, a)) >= 3
            /\ \A n \in DOMAIN window : window[n].agent = a => window[n].at < elapsed - 10,
            \E n \in DOMAIN health.bottlenecks :
              health.bottlenecks[n].kind = "stalled_orchestration" /\ health.bottlenecks[n].agent = a)

\* The one-pass searches of the detectors, with their sliding windows, against the
\* definitions their comments give: no loop is invented, and no cascade, late handoff
\* or stall is missed, in whatever order the events come; and when they come in the
\* order of their times, nothing else is reported and no loop missed either.
DetectorsExact ==
  answer # None /\ answer.to = "health" =>
    LoopsFound(answer.health) /\ CascadesFound(answer.health) /\ DelaysFound(answer.health) /\ StallsFound(answer.health)

\* Whom the detectors of retries accuse of what.
Accused(health) ==
  LET of(i) == IF i.kind = "retry_storm" THEN {"swarm"}
               ELSE IF i.kind \in {"agent_exhaustion", "orchestration_instability"} THEN ToSet(i.agents) ELSE {}
  IN {<<b.kind, b.agent>> : b \in {b \in ToSet(health.bottlenecks) : b.kind = "retry_loop"}}
       \cup UNION {{<<i.kind, a>> : a \in of(i)} : i \in ToSet(health.incidents)}

\* In the digital twin, giving retries up never makes an agent look worse to
\* the detectors of retry trouble: what they say of the branch they said before.
\* Only when events come in the order of their times: else a retry that is given
\* up may be the one that hid a loop from the search.
SuppressionNeverHarms ==
  answer # None /\ answer.to = "simulate" /\ InOrder(window, elapsed) =>
    (answer.mutation.kind \in {"alter_retry_policy", "suppress_retries"} =>
       Accused(HealthReport(Mutated(window, answer.mutation), elapsed)) \subseteq Accused(HealthReport(window, elapsed)))

\* Every edge of the graph joins two of its nodes, and two agents that are joined as
\* stricken together were: in one zone within five seconds. In the order of time all
\* such agents are joined; else the search for them may have ended at an anomaly between.
LinksExact ==
  answer # None /\ answer.to = "analyze" =>
    /\ \A k \in DOMAIN answer.edges : {k[1], k[2]} \subseteq DOMAIN answer.nodes
    /\ \A a, b \in ToSet(Agents(window)) :
         Entails(<<a, b, "anomaly_propagation">> \in DOMAIN answer.edges,
                 \E m, n \in DOMAIN window :
                   /\ m < n /\ window[m].agent = a /\ window[n].agent = b /\ a # b
                   /\ {window[m].type, window[n].type} \subseteq AnomalyTypes
                   /\ window[m].zone = window[n].zone /\ window[n].at - window[m].at \in -5 .. 5)

\* What the analysis tells of a window, in one pass over it, is what its
\* definitions say, and the twin's branch without retries is never accused of more.
AnalysisExact == DetectorsExact /\ LinksExact /\ SuppressionNeverHarms

=============================================================================
