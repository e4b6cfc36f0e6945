--------------------------- MODULE PublishPipeline ---------------------------
(***************************************************************************)
(* publish_event of the backend (apps/backend/app/main.py) with what it    *)
(* calls: the trace context of the publishing task, the graph in Neo4j,    *)
(* the stream to viewers, the rollups, and the agent states kept in        *)
(* memory, in Redis and in the graph.  A step is the code between two      *)
(* suspension points, or a write done by a worker thread in between.       *)
(***************************************************************************)
EXTENDS Integers, Sequences, FiniteSets

CONSTANTS
  Task,          \* publishers: the pulse emitter, swarm runs, requests
  Agent,         \* agent ids
  NoAgent,       \* an absent agent_id
  Types,         \* event types that are published
  RedisEnabled,  \* settings.redis_enabled
  FailedRate, DegradedRate, AlarmRate,  \* failure rates, in percent
  MaxPosts       \* bound of the model: events published

Agentless == {"HEALTH_CHECK", "SWARM_STARTED"}  \* types without an agent_id

ASSUME AgentAssumption == NoAgent \notin Agent
ASSUME TypesAssumption ==
  Types \subseteq Agentless \cup {"TASK_SUCCESS", "TASK_FAIL"}
ASSUME RedisAssumption == RedisEnabled \in BOOLEAN
ASSUME RatesAssumption ==
  FailedRate \in Nat /\ DegradedRate \in Nat /\ AlarmRate \in Nat
ASSUME BoundsAssumption == MaxPosts \in Nat

VARIABLES
  available,  \* Neo4jGraphRepository.available
  kept,       \* the Event nodes of the graph
  next,       \* NEXT relationships
  shown,      \* what was broadcast on the channel "events", in order
  rollup,     \* AggregationService.agent_rollups, all agents present
  memory,     \* AgentStateStore.memory_state
  redis,      \* the agent states in Redis
  node,       \* the agent states in the graph
  ctx,        \* TraceContext of every task
  pc,         \* where publish_event of a task is suspended
  cur,        \* enriched
  metric,     \* agent_metric
  left,       \* anomalies still to be published
  posts,      \* events published so far
  failed      \* history: agents whose last state did not reach Redis or graph

graph == <<available, kept, next>>
states == <<rollup, memory, redis, node, failed>>
frames == <<cur, metric, left>>
vars == <<graph, shown, states, ctx, pc, frames, posts>>

(* Derived records: the decision made before an event, the anomalies found *)
(* after it and the retry_logic decision that ends its publication.        *)
Alarms == {"LATENCY_SPIKE", "HIGH_FAILURE_RATE"}
Derived == Alarms \cup {"GATE", "RETRY"}
Record == [type : Types \cup Derived, of : 0..MaxPosts, by : Task,
           agent : Agent \cup {NoAgent}, step : 0..MaxPosts]

(* The graph takes no event of a type it does not list.                    *)
Recorded(e) == e.type # "SWARM_STARTED"

Blank(t) == [type |-> "GATE", of |-> 0, by |-> t, agent |-> NoAgent, step |-> 0]
NoState == [state |-> "NONE", seen |-> 0]
NoMetric == [seen |-> 0, completed |-> 0, failures |-> 0]

Init ==
  /\ available \in BOOLEAN
  /\ kept = {} /\ next = {}
  /\ shown = <<>>
  /\ rollup = [a \in Agent |-> NoMetric]
  /\ memory = [a \in Agent |-> NoState]
  /\ redis = [a \in Agent |-> NoState]
  /\ node = [a \in Agent |-> NoState]
  /\ ctx = [t \in Task |-> [last |-> {}, step |-> 0]]
  /\ pc = [t \in Task |-> "idle"]
  /\ cur = [t \in Task |-> Blank(t)]
  /\ metric = [t \in Task |-> NoMetric]
  /\ left = [t \in Task |-> <<>>]
  /\ posts = 0
  /\ failed = {}

-----------------------------------------------------------------------------
(* A record about the current event of a task, whose number, task and      *)
(* agent it keeps, at the step the context gives it.                       *)
About(t, type) == [cur[t] EXCEPT !.type = type, !.step = ctx[t].step]

(* _persist_event_tx: the node, and NEXT from the previous event of the    *)
(* context if the graph has it.                                            *)
Commit(t, e) ==
  /\ kept' = kept \cup {e}
  /\ next' = next \cup (ctx[t].last \cap kept) \X {e}

(* Mutation of Persist: an exception leaves the repository available. *)
PersistStaying(t, e) ==
  IF available /\ Recorded(e)
    THEN (Commit(t, e) /\ UNCHANGED available) \/ UNCHANGED graph
    ELSE UNCHANGED graph

(* persist_event: nothing without a connection or for an unlisted type; an *)
(* exception, after the transaction or instead of it, gives the            *)
(* connection up.                                                          *)
Persist(t, e) ==
  IF available /\ Recorded(e)
    THEN \/ Commit(t, e) /\ available' \in BOOLEAN
         \/ available' = FALSE /\ UNCHANGED <<kept, next>>
    ELSE UNCHANGED graph

Goto(t, label) == pc' = [pc EXCEPT ![t] = label]

(* publish_event ends, and its locals with it.                             *)
Return(t) ==
  /\ Goto(t, "idle")
  /\ cur' = [cur EXCEPT ![t] = Blank(t)]
  /\ metric' = [metric EXCEPT ![t] = NoMetric]
  /\ left' = [left EXCEPT ![t] = <<>>]

(* publish_event begins: the event is enriched from the context, and       *)
(* publish_decision starts to persist the decision of the control plane.   *)
Post(t, type, agent) ==
  /\ pc[t] = "idle" /\ posts < MaxPosts
  /\ agent = NoAgent <=> type \in Agentless
  /\ posts' = posts + 1
  /\ cur' = [cur EXCEPT ![t] = [type |-> type, of |-> posts + 1, by |-> t, agent |-> agent,
                                step |-> ctx[t].step]]
  /\ Goto(t, "gate")
  /\ UNCHANGED <<graph, shown, states, ctx, metric, left>>

PersistGate(t) ==
  /\ pc[t] = "gate"
  /\ Persist(t, About(t, "GATE"))
  /\ Goto(t, "store")
  /\ UNCHANGED <<shown, states, ctx, frames, posts>>

PersistEvent(t) ==
  /\ pc[t] = "store"
  /\ Persist(t, cur[t])
  /\ Goto(t, "show")
  /\ UNCHANGED <<shown, states, ctx, frames, posts>>

Broadcast(e) == shown' = Append(shown, e)

ShowEvent(t) ==
  /\ pc[t] = "show"
  /\ Broadcast(cur[t])
  /\ Goto(t, "count")
  /\ UNCHANGED <<graph, states, ctx, frames, posts>>

-----------------------------------------------------------------------------
(* _agent_metric: the failure rate, in percent, of completed tasks.        *)
RateOver(m, rate) == m.completed > 0 /\ 100 * m.failures > rate * m.completed
RateFrom(m, rate) == m.completed > 0 /\ 100 * m.failures >= rate * m.completed

(* update_from_metrics: the state of an agent after an event.              *)
StateOf(m, type) ==
  [seen |-> m.seen,
   state |-> IF type = "TASK_FAIL" \/ RateFrom(m, FailedRate) THEN "FAILED"
             ELSE IF RateFrom(m, DegradedRate) THEN "DEGRADED" ELSE "ACTIVE"]

Ingested(m, type) ==
  [seen |-> m.seen + 1,
   completed |-> m.completed + IF type \in {"TASK_SUCCESS", "TASK_FAIL"} THEN 1 ELSE 0,
   failures |-> m.failures + IF type = "TASK_FAIL" THEN 1 ELSE 0]

(* Mutation of Register: the step index stays. *)
RegisterUncounted(t) ==
  /\ ctx' = [ctx EXCEPT ![t].last = {cur[t]}]
  /\ Goto(t, "retry")

(* register_event_in_trace, and the retry_logic decision starts.           *)
Register(t) ==
  /\ ctx' = [ctx EXCEPT ![t] = [last |-> {cur[t]}, step |-> @.step + 1]]
  /\ Goto(t, "retry")

(* The broadcast returned: without an agent the event is done; otherwise   *)
(* it is ingested and the state in memory follows at once.                 *)
CountAgentless(t) ==
  /\ pc[t] = "count" /\ cur[t].agent = NoAgent
  /\ Register(t)
  /\ UNCHANGED <<graph, shown, states, frames, posts>>

Count(t) ==
  /\ pc[t] = "count" /\ cur[t].agent # NoAgent
  /\ LET a == cur[t].agent
         m == Ingested(rollup[a], cur[t].type)
     IN  /\ rollup' = [rollup EXCEPT ![a] = m]
         /\ metric' = [metric EXCEPT ![t] = m]
         /\ memory' = [memory EXCEPT ![a] = StateOf(m, cur[t].type)]
  /\ Goto(t, IF RedisEnabled THEN "cache" ELSE "node")
  /\ UNCHANGED <<graph, shown, redis, node, failed, ctx, cur, left, posts>>

Snapshot(t) == StateOf(metric[t], cur[t].type)

(* Mutation of SetRedis: SET with NX. *)
SetRedisOnce(t) ==
  /\ pc[t] = "cache"
  /\ redis' = [redis EXCEPT ![cur[t].agent] = IF @ = NoState THEN Snapshot(t) ELSE @]
  /\ Goto(t, "node")
  /\ UNCHANGED <<graph, shown, rollup, memory, node, failed, ctx, frames, posts>>

(* Redis takes the state this event led to, whatever came since.           *)
SetRedis(t) ==
  /\ pc[t] = "cache"
  /\ redis' = [redis EXCEPT ![cur[t].agent] = Snapshot(t)]
  /\ Goto(t, "node")
  /\ UNCHANGED <<graph, shown, rollup, memory, node, failed, ctx, frames, posts>>

(* Redis raises, whether or not it took the state: publish_event ends, and *)
(* its caller goes on or gives up.                                         *)
RedisFails(t) ==
  /\ pc[t] = "cache"
  /\ redis' \in {redis, [redis EXCEPT ![cur[t].agent] = Snapshot(t)]}
  /\ failed' = failed \cup {cur[t].agent}
  /\ Return(t)
  /\ UNCHANGED <<graph, shown, rollup, memory, node, ctx, posts>>

(* detect_agent_anomalies on the metric of this event; latencies are not   *)
(* modelled, so any event may show a spike.                                *)
Detected(m, spike) ==
  (IF spike THEN <<"LATENCY_SPIKE">> ELSE <<>>)
    \o (IF RateOver(m, AlarmRate) THEN <<"HIGH_FAILURE_RATE">> ELSE <<>>)

(* After persist_agent_state, or after an anomaly was published.           *)
NextAlarm(t, alarms) ==
  /\ left' = [left EXCEPT ![t] = alarms]
  /\ IF alarms # <<>> THEN Goto(t, "alarm") /\ UNCHANGED ctx ELSE Register(t)

(* persist_agent_state: nothing without a connection, and a failure, with  *)
(* or without effect, is logged.                                           *)
SetNode(t) ==
  /\ pc[t] = "node"
  /\ LET a == cur[t].agent
     IN  \/ /\ available
            /\ node' = [node EXCEPT ![a] = Snapshot(t)]
            /\ failed' = failed \ {a}
         \/ /\ \/ UNCHANGED node
               \/ available /\ node' = [node EXCEPT ![a] = Snapshot(t)]
            /\ failed' = failed \cup {a}
  /\ \E spike \in BOOLEAN : NextAlarm(t, Detected(metric[t], spike))
  /\ UNCHANGED <<graph, shown, rollup, memory, redis, cur, metric, posts>>

PersistAlarm(t) ==
  /\ pc[t] = "alarm"
  /\ Persist(t, About(t, Head(left[t])))
  /\ Goto(t, "showAlarm")
  /\ UNCHANGED <<shown, states, ctx, frames, posts>>

(* publish_anomaly_event broadcasts it, on the channel alerts and then on  *)
(* events.                                                                 *)
ShowAlarm(t) ==
  /\ pc[t] = "showAlarm"
  /\ Broadcast(About(t, Head(left[t])))
  /\ NextAlarm(t, Tail(left[t]))
  /\ UNCHANGED <<graph, states, cur, metric, posts>>

-----------------------------------------------------------------------------

(* The retry_logic decision is persisted and broadcast.                    *)
PersistRetry(t) ==
  /\ pc[t] = "retry"
  /\ Persist(t, About(t, "RETRY"))
  /\ Goto(t, "showRetry")
  /\ UNCHANGED <<shown, states, ctx, frames, posts>>

ShowRetry(t) ==
  /\ pc[t] = "showRetry"
  /\ Broadcast(About(t, "RETRY"))
  /\ Return(t)
  /\ UNCHANGED <<graph, states, ctx, posts>>

(* The backend restarts and tries to connect: only the graph and Redis     *)
(* keep what they had.                                                     *)
Restart ==
  /\ available' \in BOOLEAN
  /\ rollup' = [a \in Agent |-> NoMetric]
  /\ memory' = [a \in Agent |-> NoState]
  /\ ctx' = [t \in Task |-> [last |-> {}, step |-> 0]]
  /\ pc' = [t \in Task |-> "idle"]
  /\ cur' = [t \in Task |-> Blank(t)]
  /\ metric' = [t \in Task |-> NoMetric]
  /\ left' = [t \in Task |-> <<>>]
  /\ UNCHANGED <<kept, next, shown, redis, node, posts, failed>>

(* A read query of the repository fails.                                   *)
QueryFails ==
  /\ available /\ available' = FALSE
  /\ UNCHANGED <<kept, next, shown, states, ctx, pc, frames, posts>>

-----------------------------------------------------------------------------
Proceed(t) ==
  \/ PersistGate(t) \/ PersistEvent(t) \/ ShowEvent(t)
  \/ CountAgentless(t) \/ Count(t) \/ SetRedis(t) \/ RedisFails(t) \/ SetNode(t)
  \/ PersistAlarm(t) \/ ShowAlarm(t)
  \/ PersistRetry(t) \/ ShowRetry(t)

Next ==
  \/ Restart \/ QueryFails
  \/ \E t \in Task :
       Proceed(t) \/ \E type \in Types, a \in Agent \cup {NoAgent} : Post(t, type, a)

(* The event loop resumes what is ready, worker threads return, and both   *)
(* databases answer or time out.                                           *)
Fairness == \A t \in Task : WF_vars(Proceed(t))

Spec == Init /\ [][Next]_vars /\ Fairness
-----------------------------------------------------------------------------
Stages == {"idle", "gate", "store", "show", "count", "cache", "node", "alarm",
           "showAlarm", "retry", "showRetry"}
States == [state : {"NONE", "ACTIVE", "DEGRADED", "FAILED"}, seen : Nat]
Metrics == [seen : Nat, completed : Nat, failures : Nat]

Unregistered == Stages \ {"idle", "retry", "showRetry"}

(* Every variable keeps its type; a task writes the state of an agent only *)
(* if the event has one, publishes an anomaly only if one is left, and has *)
(* a post that its context does not count until it registers the event.    *)
TypeOK ==
  /\ available \in BOOLEAN
  /\ kept \subseteq Record /\ next \subseteq Record \X Record
  /\ shown \in Seq(Record)
  /\ rollup \in [Agent -> Metrics]
  /\ memory \in [Agent -> States] /\ redis \in [Agent -> States]
  /\ node \in [Agent -> States] /\ failed \subseteq Agent
  /\ ctx \in [Task -> [last : SUBSET Record, step : 0..posts]]
  /\ pc \in [Task -> Stages]
  /\ cur \in [Task -> Record] /\ metric \in [Task -> Metrics]
  /\ left \in [Task -> Seq(Alarms)]
  /\ posts \in 0..MaxPosts
  /\ \A t \in Task :
       /\ pc[t] \in {"cache", "node"} => cur[t].agent \in Agent
       /\ pc[t] \in {"alarm", "showAlarm"} => left[t] # <<>>
       /\ pc[t] \in Unregistered => ctx[t].step < posts

(* The lineage of the graph is that of the tasks: NEXT joins an event to a *)
(* record of the same task one step later, and a record has one            *)
(* predecessor at most, whatever was lost in between (register_event_in_-  *)
(* trace comes last, a failed publication leaves the context as it was).   *)
LineageIntact ==
  /\ \A edge \in next :
       /\ edge[1].by = edge[2].by /\ edge[1].type \in Types
       /\ edge[2].step = edge[1].step + 1
  /\ \A e1, e2 \in next : e1[2] = e2[2] => e1 = e2

(* What Redis and the graph say of an agent settles on what the backend    *)
(* holds in memory, if one task alone publishes for the agent and no write *)
(* failed since: two writers may leave an older state behind, because each *)
(* writes the snapshot it took before it was suspended.                    *)
Writers(a) == {shown[k].by : k \in {i \in DOMAIN shown : shown[i].agent = a}}

SoleWriterSettles ==
  \A a \in Agent :
    /\ memory[a] # NoState /\ a \notin failed
    /\ \E t \in Task : Writers(a) \subseteq {t} /\ pc[t] = "idle"
    => node[a] = memory[a] /\ (RedisEnabled => redis[a] = memory[a])

-----------------------------------------------------------------------------
(* The promise: a record is kept after the decision that opened its        *)
(* publication, and shown after the event it is about.                     *)
Founded(e, S) == e.type = "GATE" \/ \E d \in S : d.type = "GATE" /\ d.of = e.of
Announced(e, S) == e.type \in Types \/ \E c \in S : c.type \in Types /\ c.of = e.of

Journal == INSTANCE EventJournal WITH open <- available

(* publish_event implements the journal of EventJournal: viewers are shown *)
(* nothing the connected graph takes and does not have, nothing twice, no  *)
(* alarm before its event; the graph holds no event without its decision.  *)
ImplementsJournal == Journal!Spec
=============================================================================
