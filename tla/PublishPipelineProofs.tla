------------------------ MODULE PublishPipelineProofs ------------------------
(***************************************************************************)
(* Proofs about PublishPipeline, for any tasks, agents, rates and number   *)
(* of posts: types, that it implements EventJournal, that the lineage of   *)
(* an event is its task's, and what the three copies of an agent's state   *)
(* come to when one task writes it.                                        *)
(***************************************************************************)
EXTENDS PublishPipeline, SequenceTheorems, TLAPS

-----------------------------------------------------------------------------
(* The inductive invariant behind the journal.                             *)

AlarmLists == {<<>>, <<"LATENCY_SPIKE">>, <<"HIGH_FAILURE_RATE">>,
               <<"LATENCY_SPIKE", "HIGH_FAILURE_RATE">>}
Shown == {shown[k] : k \in DOMAIN shown}

(* The types a task still has to show of its publication.                  *)
Before == {"gate", "store", "show"}
Between == {"count", "cache", "node"}
Alarming == {"alarm", "showAlarm"}
Ending == {"retry", "showRetry"}
Pending(t) ==
  {type \in Types : pc[t] \in Before}
    \cup {type \in Alarms : \/ pc[t] \in Before \cup Between
                            \/ pc[t] \in Alarming /\ type \in Range(left[t])}
    \cup {type \in {"RETRY"} : pc[t] # "idle"}

(* A task works on a publication of its own, shows nothing of it twice,    *)
(* and has shown, and stored unless the database was lost, what came so    *)
(* far.                                                                    *)
OwnPost(t) ==
  pc[t] # "idle" => /\ cur[t].of \in 1..posts /\ cur[t].type \in Types
                    /\ \A u \in Task : u # t /\ pc[u] # "idle" => cur[u].of # cur[t].of
NotShown(t) == \A e \in Shown : e.of = cur[t].of => e.type \notin Pending(t)
EventShown(t) == pc[t] \in Between \cup Alarming \cup Ending => cur[t] \in Shown
GateKept(t) ==
  available /\ pc[t] \notin {"idle", "gate"} =>
    \E d \in kept : d.type = "GATE" /\ d.of = cur[t].of
NextKept(t) ==
  available => /\ pc[t] = "show" /\ Recorded(cur[t]) => cur[t] \in kept
               /\ pc[t] = "showAlarm" => About(t, Head(left[t])) \in kept
               /\ pc[t] = "showRetry" => About(t, "RETRY") \in kept

TaskInv(t) ==
  /\ left[t] \in AlarmLists
  /\ pc[t] \in Alarming => left[t] # <<>>
  /\ OwnPost(t) /\ NotShown(t) /\ EventShown(t) /\ GateKept(t) /\ NextKept(t)

JournalInv ==
  /\ \A e \in Shown : e.of \in 1..posts
  /\ \A t \in Task : TaskInv(t)
-----------------------------------------------------------------------------
(* Types.                                                                  *)

(* A record about an event is a record.                                    *)
LEMMA AboutType ==
  ASSUME TypeOK, NEW t \in Task, NEW type \in Types \cup Derived
  PROVE  /\ About(t, type) \in Record
         /\ About(t, type).of = cur[t].of /\ About(t, type).type = type
         /\ About(t, type).by = cur[t].by /\ About(t, type).step = ctx[t].step
<1>1. cur[t] \in Record /\ ctx[t].step \in 0..posts /\ posts \in 0..MaxPosts
  BY DEF TypeOK
<1>2. ctx[t].step \in 0..MaxPosts
  BY <1>1, BoundsAssumption
<1> QED
  BY <1>1, <1>2 DEF About, Record

(* What detect_agent_anomalies returns.                                    *)
LEMMA DetectedType ==
  ASSUME NEW m, NEW spike \in BOOLEAN
  PROVE  Detected(m, spike) \in AlarmLists
<1>1. CASE spike /\ RateOver(m, AlarmRate)
  <2>1. Detected(m, spike) = <<"LATENCY_SPIKE">> \o <<"HIGH_FAILURE_RATE">>
    BY <1>1 DEF Detected
  <2>2. @ = <<"LATENCY_SPIKE", "HIGH_FAILURE_RATE">>
    <3> DEFINE p == <<"LATENCY_SPIKE">>  q == <<"HIGH_FAILURE_RATE">>
               r == <<"LATENCY_SPIKE", "HIGH_FAILURE_RATE">>
    <3>1. p \in Seq(Alarms) /\ q \in Seq(Alarms) /\ r \in Seq(Alarms)
      BY DEF Alarms
    <3>2. Len(p) = 1 /\ Len(q) = 1 /\ Len(r) = 2 /\ p[1] = r[1] /\ q[1] = r[2]
      OBVIOUS
    <3> HIDE DEF p, q, r
    <3>3. /\ p \o q \in Seq(Alarms) /\ Len(p \o q) = 2
          /\ \A i \in 1..2 : (p \o q)[i] = IF i <= 1 THEN p[i] ELSE q[i - 1]
      BY <3>1, <3>2, ConcatProperties
    <3>4. \A i \in 1..2 : (p \o q)[i] = r[i]
      BY <3>2, <3>3
    <3>5. p \o q = r
      BY <3>1, <3>2, <3>3, <3>4, SeqEqual
    <3> QED
      BY <3>5 DEF p, q, r
  <2> QED
    BY <2>1, <2>2 DEF AlarmLists
<1>2. CASE spike /\ ~RateOver(m, AlarmRate)
  BY <1>2 DEF Detected, AlarmLists
<1>3. CASE ~spike /\ RateOver(m, AlarmRate)
  BY <1>3 DEF Detected, AlarmLists
<1>4. CASE ~spike /\ ~RateOver(m, AlarmRate)
  BY <1>4 DEF Detected, AlarmLists
<1> QED
  BY <1>1, <1>2, <1>3, <1>4

(* The lists of anomalies are sequences, and so is what is left of one.    *)
LEMMA AlarmListType ==
  ASSUME NEW q \in AlarmLists
  PROVE  /\ q \in Seq(Alarms)
         /\ q # <<>> => /\ Head(q) \in Alarms
                        /\ Tail(q) \in AlarmLists
                        /\ Range(Tail(q)) = Range(q) \ {Head(q)}
<1>1. CASE q = <<>>
  BY <1>1 DEF AlarmLists
<1>2. CASE q = <<"LATENCY_SPIKE">>
  BY <1>2 DEF AlarmLists, Alarms, Range
<1>3. CASE q = <<"HIGH_FAILURE_RATE">>
  BY <1>3 DEF AlarmLists, Alarms, Range
<1>4. CASE q = <<"LATENCY_SPIKE", "HIGH_FAILURE_RATE">>
  BY <1>4 DEF AlarmLists, Alarms, Range
<1> QED
  BY <1>1, <1>2, <1>3, <1>4 DEF AlarmLists

(* The state of an agent after an event, and its counters.                 *)
LEMMA StateType ==
  ASSUME NEW m \in Metrics, NEW type
  PROVE  StateOf(m, type) \in States /\ Ingested(m, type) \in Metrics
<1>1. m.seen \in Nat
  BY DEF Metrics
<1>2. StateOf(m, type) \in States
  BY <1>1 DEF StateOf, States
<1>3. Ingested(m, type) \in Metrics
  BY DEF Ingested, Metrics
<1> QED
  BY <1>1, <1>2, <1>3

(* The parts of the type invariant, and what it needs besides.             *)
GraphType == available \in BOOLEAN /\ kept \subseteq Record /\ next \subseteq Record \X Record
StatesType ==
  /\ rollup \in [Agent -> Metrics]
  /\ memory \in [Agent -> States] /\ redis \in [Agent -> States]
  /\ node \in [Agent -> States] /\ failed \subseteq Agent
FramesType ==
  cur \in [Task -> Record] /\ metric \in [Task -> Metrics] /\ left \in [Task -> Seq(Alarms)]
CtxType == ctx \in [Task -> [last : SUBSET Record, step : 0..posts]]
StageOK(t) ==
  /\ pc[t] \in {"cache", "node"} => cur[t].agent \in Agent
  /\ pc[t] \in Alarming => left[t] # <<>>
  /\ pc[t] \in Unregistered => ctx[t].step < posts
  /\ left[t] \in AlarmLists

TypeInv == TypeOK /\ \A t \in Task : left[t] \in AlarmLists

LEMMA TypeParts ==
  TypeInv <=> /\ GraphType /\ shown \in Seq(Record) /\ StatesType /\ FramesType /\ CtxType
              /\ pc \in [Task -> Stages] /\ posts \in 0..MaxPosts
              /\ \A t \in Task : StageOK(t)
BY DEF TypeInv, TypeOK, GraphType, StatesType, FramesType, CtxType, StageOK, Alarming

LEMMA TypePartsNext ==
  ASSUME GraphType', shown' \in Seq(Record), StatesType', FramesType', CtxType',
         pc' \in [Task -> Stages], posts' \in 0..MaxPosts, \A t \in Task : StageOK(t)'
  PROVE  TypeInv'
BY DEF TypeInv, TypeOK, GraphType, StatesType, FramesType, CtxType, StageOK, Alarming

(* Persisting a record keeps the graph a graph of records.                 *)
LEMMA PersistType ==
  ASSUME TypeInv, NEW t \in Task, NEW e \in Record, Persist(t, e)
  PROVE  GraphType'
<1>1. kept \subseteq Record /\ next \subseteq Record \X Record /\ available \in BOOLEAN
  BY DEF TypeInv, TypeOK
<1>2. CASE Commit(t, e)
  <2>1. available' \in BOOLEAN
    BY <1>1, <1>2 DEF Persist, graph
  <2>2. kept' \subseteq Record
    BY <1>1, <1>2 DEF Commit
  <2>3. next' \subseteq Record \X Record
    BY <1>1, <1>2 DEF Commit
  <2> QED
    BY <2>1, <2>2, <2>3 DEF GraphType
<1>3. CASE UNCHANGED <<kept, next>> /\ available' \in BOOLEAN
  BY <1>1, <1>3 DEF GraphType
<1>4. Commit(t, e) \/ (UNCHANGED <<kept, next>> /\ available' \in BOOLEAN)
  BY <1>1 DEF Persist, graph
<1> QED
  BY <1>2, <1>3, <1>4

(* A task that moves on leaves the others where they are.                  *)
LEMMA StageStep ==
  ASSUME TypeInv, NEW t \in Task, NEW label \in Stages, Goto(t, label), posts' = posts,
         \A u \in Task : u # t => ctx'[u] = ctx[u] /\ cur'[u] = cur[u] /\ left'[u] = left[u],
         label \in {"cache", "node"} => cur'[t].agent \in Agent,
         label \in Alarming => left'[t] # <<>>,
         label \in Unregistered => ctx'[t].step < posts,
         left'[t] \in AlarmLists
  PROVE  pc' \in [Task -> Stages] /\ \A u \in Task : StageOK(u)'
<1>1. pc \in [Task -> Stages] /\ \A u \in Task : StageOK(u)
  BY TypeParts
<1>2. pc' \in [Task -> Stages] /\ pc'[t] = label /\ \A u \in Task : u # t => pc'[u] = pc[u]
  BY <1>1 DEF Goto
<1>3. StageOK(t)'
  BY <1>2 DEF StageOK
<1>4. ASSUME NEW u \in Task, u # t
      PROVE  StageOK(u)'
  <2>1. StageOK(u)
    BY <1>1
  <2>2. pc'[u] = pc[u] /\ ctx'[u] = ctx[u] /\ cur'[u] = cur[u] /\ left'[u] = left[u]
    BY <1>2, <1>4
  <2> QED
    BY <2>1, <2>2 DEF StageOK
<1> QED
  BY <1>2, <1>3, <1>4

(* register_event_in_trace.                                                *)
LEMMA RegisterType ==
  ASSUME TypeInv, NEW t \in Task, Register(t), posts' = posts, pc[t] \in Unregistered
  PROVE  CtxType' /\ Goto(t, "retry") /\ \A u \in Task : u # t => ctx'[u] = ctx[u]
<1>1. /\ ctx \in [Task -> [last : SUBSET Record, step : 0..posts]]
      /\ cur[t] \in Record /\ ctx[t].step < posts /\ posts \in 0..MaxPosts
  BY DEF TypeInv, TypeOK
<1>2. ctx' = [ctx EXCEPT ![t] = [last |-> {cur[t]}, step |-> ctx[t].step + 1]]
  BY DEF Register
<1>3. ctx[t].step + 1 \in 0..posts
  BY <1>1, BoundsAssumption
<1>4. [last |-> {cur[t]}, step |-> ctx[t].step + 1] \in [last : SUBSET Record, step : 0..posts]
  BY <1>1, <1>3
<1> QED
  BY <1>1, <1>2, <1>4 DEF CtxType, Register

LEMMA InitType == Init => TypeInv
<1> SUFFICES ASSUME Init PROVE TypeInv
  OBVIOUS
<1>1. \A t \in Task : Blank(t) \in Record
  BY BoundsAssumption DEF Blank, Record, Derived
<1>2. NoMetric \in Metrics /\ NoState \in States
  BY DEF NoMetric, NoState, Metrics, States
<1>3. FramesType /\ StatesType
  BY <1>1, <1>2 DEF Init, FramesType, StatesType
<1>4. GraphType /\ shown \in Seq(Record) /\ CtxType /\ pc \in [Task -> Stages]
  BY DEF Init, GraphType, CtxType, Stages
<1>5. posts \in 0..MaxPosts
  BY BoundsAssumption DEF Init
<1>6. \A t \in Task : StageOK(t)
  BY DEF Init, StageOK, Alarming, Unregistered, AlarmLists
<1> QED
  BY <1>3, <1>4, <1>5, <1>6, TypeParts

LEMMA ReturnType ==
  ASSUME TypeInv, NEW t \in Task, Return(t), posts' = posts, ctx' = ctx
  PROVE  FramesType' /\ CtxType' /\ pc' \in [Task -> Stages] /\ \A u \in Task : StageOK(u)'
<1>1. FramesType /\ CtxType
  BY TypeParts
<1>2. Blank(t) \in Record /\ NoMetric \in Metrics /\ <<>> \in Seq(Alarms)
  BY BoundsAssumption DEF Blank, Record, Derived, NoMetric, Metrics
<1>3. FramesType'
  BY <1>1, <1>2 DEF FramesType, Return
<1>4. \A u \in Task : u # t => cur'[u] = cur[u] /\ left'[u] = left[u]
  BY <1>1 DEF FramesType, Return
<1>5. left'[t] \in AlarmLists
  BY <1>1 DEF FramesType, Return, AlarmLists
<1>6. "idle" \in Stages /\ "idle" \notin Unregistered /\ "idle" \notin Alarming
  BY DEF Stages, Unregistered, Alarming
<1>7. Goto(t, "idle")
  BY DEF Return
<1>8. pc' \in [Task -> Stages] /\ \A u \in Task : StageOK(u)'
  BY <1>4, <1>5, <1>6, <1>7, StageStep
<1> QED
  BY <1>1, <1>3, <1>8 DEF CtxType

(* A step that only moves a task on, and what it persists or shows.        *)
LEMMA MoveType ==
  ASSUME TypeInv, NEW t \in Task, NEW label \in Stages, Goto(t, label),
         UNCHANGED <<states, ctx, frames, posts>>,
         GraphType', shown' \in Seq(Record),
         label \in {"cache", "node"} => cur[t].agent \in Agent,
         label \in Alarming => left[t] # <<>>,
         label \in Unregistered => ctx[t].step < posts
  PROVE  TypeInv'
<1>1. StatesType /\ FramesType /\ CtxType /\ posts \in 0..MaxPosts /\ \A u \in Task : StageOK(u)
  BY TypeParts
<1>2. StatesType' /\ FramesType' /\ CtxType' /\ posts' \in 0..MaxPosts
  BY <1>1 DEF StatesType, FramesType, CtxType, states, frames
<1>3. posts' = posts /\ ctx' = ctx /\ cur' = cur /\ left' = left
  BY DEF frames
<1>4. left'[t] \in AlarmLists
  BY <1>1, <1>3 DEF StageOK
<1>5. pc' \in [Task -> Stages] /\ \A u \in Task : StageOK(u)'
  BY <1>3, <1>4, StageStep
<1> QED
  BY <1>2, <1>5, TypePartsNext

(* Publication of the anomalies goes on, or the event is registered.       *)
LEMMA NextAlarmType ==
  ASSUME TypeInv, NEW t \in Task, NEW alarms \in AlarmLists, NextAlarm(t, alarms),
         pc[t] \in Unregistered, UNCHANGED <<cur, metric, posts>>
  PROVE  FramesType' /\ CtxType' /\ pc' \in [Task -> Stages] /\ \A u \in Task : StageOK(u)'
<1>1. FramesType /\ CtxType /\ StageOK(t)
  BY TypeParts
<1>2. alarms \in Seq(Alarms)
  BY AlarmListType
<1>3. /\ FramesType' /\ left'[t] = alarms
      /\ \A u \in Task : u # t => left'[u] = left[u] /\ cur'[u] = cur[u]
  BY <1>1, <1>2 DEF FramesType, NextAlarm
<1>4. "alarm" \in Stages /\ "retry" \in Stages /\ "retry" \notin Unregistered \cup Alarming
  BY DEF Stages, Unregistered, Alarming
<1>5. CASE alarms # <<>>
  <2>1. Goto(t, "alarm") /\ ctx' = ctx
    BY <1>5 DEF NextAlarm
  <2>2. CtxType'
    BY <1>1, <2>1 DEF CtxType
  <2>3. ctx'[t].step < posts
    BY <1>1, <2>1 DEF StageOK
  <2>4. \A u \in Task : u # t => ctx'[u] = ctx[u]
    BY <2>1
  <2>5. pc' \in [Task -> Stages] /\ \A u \in Task : StageOK(u)'
    BY <1>3, <1>4, <1>5, <2>1, <2>3, <2>4, StageStep
  <2> QED
    BY <1>3, <2>2, <2>5
<1>6. CASE alarms = <<>>
  <2>1. Register(t)
    BY <1>6 DEF NextAlarm
  <2>2. CtxType' /\ Goto(t, "retry") /\ \A u \in Task : u # t => ctx'[u] = ctx[u]
    BY <2>1, RegisterType
  <2>3. pc' \in [Task -> Stages] /\ \A u \in Task : StageOK(u)'
    BY <1>3, <1>4, <2>2, StageStep
  <2> QED
    BY <1>3, <2>2, <2>3
<1> QED
  BY <1>5, <1>6

LEMMA TypeStep == TypeInv /\ [Next]_vars => TypeInv'
<1> SUFFICES ASSUME TypeInv, [Next]_vars PROVE TypeInv'
  OBVIOUS
<1> USE BoundsAssumption
<1>0. /\ GraphType /\ shown \in Seq(Record) /\ StatesType /\ FramesType /\ CtxType
      /\ pc \in [Task -> Stages] /\ posts \in 0..MaxPosts /\ \A u \in Task : StageOK(u)
  BY TypeParts
<1>1. CASE UNCHANGED vars
  <2>1. /\ GraphType' /\ shown' \in Seq(Record) /\ StatesType' /\ FramesType' /\ CtxType'
        /\ pc' \in [Task -> Stages] /\ posts' \in 0..MaxPosts
    BY <1>0, <1>1 DEF vars, graph, states, frames, GraphType, StatesType, FramesType, CtxType
  <2>2. \A u \in Task : StageOK(u)'
    BY <1>0, <1>1 DEF vars, frames, StageOK
  <2> QED
    BY <2>1, <2>2, TypePartsNext
<1>2. CASE Restart
  <2>1. \A t \in Task : Blank(t) \in Record
    BY DEF Blank, Record, Derived
  <2>2. NoMetric \in Metrics /\ NoState \in States
    BY DEF NoMetric, NoState, Metrics, States
  <2>3. FramesType'
    BY <1>2, <2>1, <2>2 DEF Restart, FramesType
  <2>4. StatesType'
    BY <1>0, <1>2, <2>2 DEF Restart, StatesType
  <2>5. GraphType' /\ shown' \in Seq(Record) /\ posts' \in 0..MaxPosts
    BY <1>0, <1>2 DEF Restart, GraphType
  <2>6. CtxType' /\ pc' \in [Task -> Stages]
    BY <1>0, <1>2 DEF Restart, CtxType, Stages
  <2>7. \A t \in Task : StageOK(t)'
    BY <1>2 DEF Restart, StageOK, Alarming, Unregistered, AlarmLists
  <2> QED
    BY <2>3, <2>4, <2>5, <2>6, <2>7, TypePartsNext
<1>3. CASE QueryFails
  <2>1. /\ GraphType' /\ shown' \in Seq(Record) /\ StatesType' /\ FramesType' /\ CtxType'
        /\ pc' \in [Task -> Stages] /\ posts' \in 0..MaxPosts
    BY <1>0, <1>3 DEF QueryFails, states, frames, GraphType, StatesType, FramesType, CtxType
  <2>2. \A u \in Task : StageOK(u)'
    BY <1>0, <1>3 DEF QueryFails, frames, StageOK
  <2> QED
    BY <2>1, <2>2, TypePartsNext
<1>4. ASSUME NEW t \in Task, NEW type \in Types, NEW a \in Agent \cup {NoAgent}, Post(t, type, a)
      PROVE  TypeInv'
  <2>1. posts' = posts + 1 /\ posts' \in 0..MaxPosts
    BY <1>0, <1>4 DEF Post
  <2> DEFINE e == [type |-> type, of |-> posts + 1, by |-> t, agent |-> a, step |-> ctx[t].step]
  <2>2. ctx[t].step \in 0..posts /\ cur' = [cur EXCEPT ![t] = e]
    BY <1>0, <1>4 DEF CtxType, Post
  <2>3. e \in Record
    BY <1>0, <2>1, <2>2 DEF Record
  <2>4. FramesType' /\ StatesType' /\ GraphType' /\ shown' \in Seq(Record)
    BY <1>0, <1>4, <2>2, <2>3 DEF Post, FramesType, StatesType, GraphType, states, graph
  <2>5. ctx' = ctx /\ 0..posts \subseteq 0..posts'
    BY <1>0, <1>4, <2>1 DEF Post
  <2>6. CtxType'
    BY <1>0, <2>5 DEF CtxType
  <2>7. pc' \in [Task -> Stages] /\ pc'[t] = "gate" /\ \A u \in Task : u # t => pc'[u] = pc[u]
    BY <1>0, <1>4 DEF Post, Goto, Stages
  <2>8. left' = left /\ \A u \in Task : u # t => cur'[u] = cur[u]
    BY <1>0, <1>4 DEF Post, FramesType
  <2>9. StageOK(t)'
    BY <1>0, <2>1, <2>2, <2>5, <2>7, <2>8 DEF StageOK, Alarming
  <2>10. ASSUME NEW u \in Task, u # t
         PROVE  StageOK(u)'
    <3>1. ctx[u].step \in 0..posts
      BY <1>0 DEF CtxType
    <3>2. StageOK(u) /\ pc'[u] = pc[u] /\ cur'[u] = cur[u] /\ left'[u] = left[u] /\ ctx'[u] = ctx[u]
      BY <1>0, <2>5, <2>7, <2>8, <2>10
    <3> QED
      BY <1>0, <2>1, <3>1, <3>2 DEF StageOK
  <2> QED
    BY <2>1, <2>4, <2>6, <2>7, <2>9, <2>10, TypePartsNext
<1>5. ASSUME NEW t \in Task, PersistGate(t) PROVE TypeInv'
  <2>1. About(t, "GATE") \in Record
    BY AboutType DEF TypeInv, Derived
  <2>2. GraphType'
    BY <1>5, <2>1, PersistType DEF PersistGate
  <2>3. /\ "store" \in Stages /\ "store" \notin {"cache", "node"} \cup Alarming
        /\ pc[t] = "gate" /\ "gate" \in Unregistered
    BY <1>5 DEF Stages, Alarming, Unregistered, PersistGate
  <2>4. ctx[t].step < posts /\ shown' \in Seq(Record)
    BY <1>0, <1>5, <2>3 DEF StageOK, PersistGate
  <2>5. Goto(t, "store") /\ UNCHANGED <<states, ctx, frames, posts>>
    BY <1>5 DEF PersistGate
  <2> QED
    BY <2>2, <2>3, <2>4, <2>5, MoveType
<1>6. ASSUME NEW t \in Task, PersistEvent(t) PROVE TypeInv'
  <2>1. cur[t] \in Record
    BY <1>0 DEF FramesType
  <2>2. GraphType'
    BY <1>6, <2>1, PersistType DEF PersistEvent
  <2>3. /\ "show" \in Stages /\ "show" \notin {"cache", "node"} \cup Alarming
        /\ pc[t] = "store" /\ "store" \in Unregistered
    BY <1>6 DEF Stages, Alarming, Unregistered, PersistEvent
  <2>4. ctx[t].step < posts /\ shown' \in Seq(Record)
    BY <1>0, <1>6, <2>3 DEF StageOK, PersistEvent
  <2>5. Goto(t, "show") /\ UNCHANGED <<states, ctx, frames, posts>>
    BY <1>6 DEF PersistEvent
  <2> QED
    BY <2>2, <2>3, <2>4, <2>5, MoveType
<1>7. ASSUME NEW t \in Task, ShowEvent(t) PROVE TypeInv'
  <2>1. cur[t] \in Record
    BY <1>0 DEF FramesType
  <2>2. GraphType'
    BY <1>0, <1>7 DEF ShowEvent, GraphType, graph
  <2>3. /\ "count" \in Stages /\ "count" \notin {"cache", "node"} \cup Alarming
        /\ pc[t] = "show" /\ "show" \in Unregistered
    BY <1>7 DEF Stages, Alarming, Unregistered, ShowEvent
  <2>4. ctx[t].step < posts
    BY <1>0, <2>3 DEF StageOK
  <2>5. shown' \in Seq(Record)
    BY <1>0, <1>7, <2>1, AppendProperties DEF ShowEvent, Broadcast
  <2>6. Goto(t, "count") /\ UNCHANGED <<states, ctx, frames, posts>>
    BY <1>7 DEF ShowEvent
  <2> QED
    BY <2>2, <2>3, <2>4, <2>5, <2>6, MoveType
<1>8. ASSUME NEW t \in Task, CountAgentless(t) PROVE TypeInv'
  <2>1. pc[t] \in Unregistered
    BY <1>8 DEF CountAgentless, Unregistered, Stages
  <2>2. Register(t) /\ UNCHANGED <<graph, shown, states, frames, posts>>
    BY <1>8 DEF CountAgentless
  <2>3. CtxType' /\ Goto(t, "retry") /\ \A u \in Task : u # t => ctx'[u] = ctx[u]
    BY <2>1, <2>2, RegisterType
  <2>4. GraphType' /\ StatesType' /\ FramesType' /\ shown' \in Seq(Record) /\ posts' \in 0..MaxPosts
    BY <1>0, <2>2 DEF graph, states, frames, GraphType, StatesType, FramesType
  <2>5. "retry" \in Stages /\ "retry" \notin Unregistered \cup Alarming \cup {"cache", "node"}
    BY DEF Stages, Unregistered, Alarming
  <2>6. left' = left /\ cur' = cur /\ posts' = posts /\ left[t] \in AlarmLists
    BY <1>0, <2>2 DEF frames, StageOK
  <2>7. pc' \in [Task -> Stages] /\ \A u \in Task : StageOK(u)'
    BY <2>3, <2>5, <2>6, StageStep
  <2> QED
    BY <2>3, <2>4, <2>7, TypePartsNext
<1>9. ASSUME NEW t \in Task, Count(t) PROVE TypeInv'
  <2> DEFINE a == cur[t].agent  m == Ingested(rollup[a], cur[t].type)
             label == IF RedisEnabled THEN "cache" ELSE "node"
  <2>1. cur[t] \in Record /\ a # NoAgent
    BY <1>0, <1>9 DEF FramesType, Count
  <2>2. a \in Agent
    BY <2>1 DEF Record
  <2>3. m \in Metrics /\ StateOf(m, cur[t].type) \in States
    BY <1>0, <2>2, StateType DEF StatesType
  <2>4. /\ rollup' = [rollup EXCEPT ![a] = m] /\ metric' = [metric EXCEPT ![t] = m]
        /\ memory' = [memory EXCEPT ![a] = StateOf(m, cur[t].type)]
        /\ Goto(t, label) /\ UNCHANGED <<graph, shown, redis, node, failed, ctx, cur, left, posts>>
    BY <1>9 DEF Count
  <2>5. pc[t] \in Unregistered
    BY <1>9 DEF Count, Unregistered, Stages
  <2>6. label \in Stages \ Alarming /\ ctx[t].step < posts /\ left[t] \in AlarmLists
    BY <1>0, <2>5 DEF Stages, Alarming, StageOK
  <2> HIDE DEF a, m, label
  <2>7. StatesType' /\ FramesType'
    BY <1>0, <2>3, <2>4 DEF StatesType, FramesType
  <2>8. GraphType' /\ CtxType' /\ shown' \in Seq(Record) /\ posts' \in 0..MaxPosts
    BY <1>0, <2>4 DEF graph, GraphType, CtxType
  <2>9. cur'[t].agent \in Agent
    BY <2>2, <2>4 DEF a
  <2>10. pc' \in [Task -> Stages] /\ \A u \in Task : StageOK(u)'
    BY <2>4, <2>6, <2>9, StageStep
  <2> QED
    BY <2>7, <2>8, <2>10, TypePartsNext
<1>10. ASSUME NEW t \in Task, SetRedis(t) PROVE TypeInv'
  <2>1. /\ pc[t] = "cache" /\ "cache" \in Unregistered
        /\ "node" \in Stages /\ "node" \notin Alarming
    BY <1>10 DEF SetRedis, Stages, Unregistered, Alarming
  <2>2. Snapshot(t) \in States
    BY <1>0, StateType DEF FramesType, Snapshot
  <2>3. StatesType'
    BY <1>0, <1>10, <2>2 DEF SetRedis, StatesType
  <2>4. GraphType' /\ FramesType' /\ CtxType' /\ shown' \in Seq(Record) /\ posts' \in 0..MaxPosts
    BY <1>0, <1>10 DEF SetRedis, GraphType, FramesType, CtxType, graph, frames
  <2>5. /\ cur' = cur /\ left' = left /\ ctx' = ctx /\ posts' = posts /\ Goto(t, "node")
        /\ cur[t].agent \in Agent /\ ctx[t].step < posts /\ left[t] \in AlarmLists
    BY <1>0, <1>10, <2>1 DEF SetRedis, frames, StageOK
  <2>6. pc' \in [Task -> Stages] /\ \A u \in Task : StageOK(u)'
    BY <2>1, <2>5, StageStep
  <2> QED
    BY <2>3, <2>4, <2>6, TypePartsNext
<1>11. ASSUME NEW t \in Task, RedisFails(t) PROVE TypeInv'
  <2>1. pc[t] = "cache" /\ cur[t].agent \in Agent
    BY <1>0, <1>11 DEF RedisFails, StageOK
  <2>2. Snapshot(t) \in States
    BY <1>0, StateType DEF FramesType, Snapshot
  <2>3. StatesType'
    BY <1>0, <1>11, <2>1, <2>2 DEF RedisFails, StatesType
  <2>4. Return(t) /\ posts' = posts /\ ctx' = ctx
    BY <1>11 DEF RedisFails
  <2>5. FramesType' /\ CtxType' /\ pc' \in [Task -> Stages] /\ \A u \in Task : StageOK(u)'
    BY <2>4, ReturnType
  <2>6. GraphType' /\ shown' \in Seq(Record) /\ posts' \in 0..MaxPosts
    BY <1>0, <1>11 DEF RedisFails, GraphType, graph
  <2> QED
    BY <2>3, <2>5, <2>6, TypePartsNext
<1>12. ASSUME NEW t \in Task, SetNode(t) PROVE TypeInv'
  <2>1. pc[t] = "node" /\ pc[t] \in Unregistered /\ cur[t].agent \in Agent
    BY <1>0, <1>12 DEF SetNode, StageOK, Unregistered, Stages
  <2>2. Snapshot(t) \in States
    BY <1>0, StateType DEF FramesType, Snapshot
  <2>3. node' \in {node, [node EXCEPT ![cur[t].agent] = Snapshot(t)]}
    BY <1>12 DEF SetNode
  <2>4. failed' \in {failed \cup {cur[t].agent}, failed \ {cur[t].agent}}
    BY <1>12 DEF SetNode
  <2>5. UNCHANGED <<graph, shown, rollup, memory, redis, cur, metric, posts>>
    BY <1>12 DEF SetNode
  <2>6. StatesType'
    BY <1>0, <2>1, <2>2, <2>3, <2>4, <2>5 DEF StatesType
  <2>7. PICK spike \in BOOLEAN : NextAlarm(t, Detected(metric[t], spike))
    BY <1>12 DEF SetNode
  <2>8. FramesType' /\ CtxType' /\ pc' \in [Task -> Stages] /\ \A u \in Task : StageOK(u)'
    BY <2>1, <2>5, <2>7, DetectedType, NextAlarmType
  <2>9. GraphType' /\ shown' \in Seq(Record) /\ posts' \in 0..MaxPosts
    BY <1>0, <2>5 DEF GraphType, graph
  <2> QED
    BY <2>6, <2>8, <2>9, TypePartsNext
<1>13. ASSUME NEW t \in Task, PersistAlarm(t) PROVE TypeInv'
  <2>1. /\ "showAlarm" \in Stages /\ "showAlarm" \notin {"cache", "node"}
        /\ pc[t] = "alarm" /\ "alarm" \in Unregistered \cap Alarming
    BY <1>13 DEF Stages, Alarming, Unregistered, PersistAlarm
  <2>2. ctx[t].step < posts /\ left[t] # <<>> /\ left[t] \in AlarmLists
    BY <1>0, <2>1 DEF StageOK
  <2>3. About(t, Head(left[t])) \in Record
    BY <2>2, AlarmListType, AboutType DEF TypeInv, Derived
  <2>4. GraphType'
    BY <1>13, <2>3, PersistType DEF PersistAlarm
  <2>5. shown' \in Seq(Record) /\ Goto(t, "showAlarm") /\ UNCHANGED <<states, ctx, frames, posts>>
    BY <1>0, <1>13 DEF PersistAlarm
  <2> QED
    BY <2>1, <2>2, <2>4, <2>5, MoveType
<1>14. ASSUME NEW t \in Task, ShowAlarm(t) PROVE TypeInv'
  <2>1. pc[t] = "showAlarm" /\ pc[t] \in Unregistered \cap Alarming
    BY <1>14 DEF Stages, Alarming, Unregistered, ShowAlarm
  <2>2. left[t] # <<>> /\ left[t] \in AlarmLists
    BY <1>0, <2>1 DEF StageOK
  <2>3. Tail(left[t]) \in AlarmLists /\ About(t, Head(left[t])) \in Record
    BY <2>2, AlarmListType, AboutType DEF TypeInv, Derived
  <2>4. shown' \in Seq(Record)
    BY <1>0, <1>14, <2>3, AppendProperties DEF ShowAlarm, Broadcast
  <2>5. NextAlarm(t, Tail(left[t])) /\ UNCHANGED <<graph, states, cur, metric, posts>>
    BY <1>14 DEF ShowAlarm
  <2>6. FramesType' /\ CtxType' /\ pc' \in [Task -> Stages] /\ \A u \in Task : StageOK(u)'
    BY <2>1, <2>3, <2>5, NextAlarmType
  <2>7. GraphType' /\ StatesType' /\ posts' \in 0..MaxPosts
    BY <1>0, <2>5 DEF GraphType, StatesType, graph, states
  <2> QED
    BY <2>4, <2>6, <2>7, TypePartsNext
<1>15. ASSUME NEW t \in Task, PersistRetry(t) PROVE TypeInv'
  <2>1. About(t, "RETRY") \in Record
    BY AboutType DEF TypeInv, Derived
  <2>2. GraphType'
    BY <1>15, <2>1, PersistType DEF PersistRetry
  <2>3. "showRetry" \in Stages /\ "showRetry" \notin Unregistered \cup Alarming \cup {"cache", "node"}
    BY DEF Stages, Alarming, Unregistered
  <2>4. shown' \in Seq(Record) /\ Goto(t, "showRetry") /\ UNCHANGED <<states, ctx, frames, posts>>
    BY <1>0, <1>15 DEF PersistRetry
  <2> QED
    BY <2>2, <2>3, <2>4, MoveType
<1>16. ASSUME NEW t \in Task, ShowRetry(t) PROVE TypeInv'
  <2>1. About(t, "RETRY") \in Record
    BY AboutType DEF TypeInv, Derived
  <2>2. shown' \in Seq(Record)
    BY <1>0, <1>16, <2>1, AppendProperties DEF ShowRetry, Broadcast
  <2>3. Return(t) /\ UNCHANGED <<graph, states, ctx, posts>>
    BY <1>16 DEF ShowRetry
  <2>4. FramesType' /\ CtxType' /\ pc' \in [Task -> Stages] /\ \A u \in Task : StageOK(u)'
    BY <2>3, ReturnType
  <2>5. GraphType' /\ StatesType' /\ posts' \in 0..MaxPosts
    BY <1>0, <2>3 DEF GraphType, StatesType, graph, states
  <2> QED
    BY <2>2, <2>4, <2>5, TypePartsNext
<1> QED
  BY <1>1, <1>2, <1>3, <1>4, <1>5, <1>6, <1>7, <1>8, <1>9, <1>10, <1>11, <1>12, <1>13, <1>14,
     <1>15, <1>16 DEF Next, Proceed

(* Every variable keeps its type, whatever fails in between.               *)
THEOREM TypeCorrect == Spec => []TypeOK
<1>1. TypeInv => TypeOK
  BY DEF TypeInv
<1> QED
  BY <1>1, InitType, TypeStep, PTL DEF Spec

-----------------------------------------------------------------------------
(* Steps of the journal.                                                   *)

(* Persisting a well-founded record is Keep, or a loss of the connection.  *)
LEMMA PersistMaps ==
  ASSUME available \in BOOLEAN, NEW t \in Task, NEW e \in Record, Persist(t, e), shown' = shown,
         available => Founded(e, kept)
  PROVE  Journal!Next \/ UNCHANGED <<available, kept, shown>>
<1>1. CASE available /\ Recorded(e) /\ Commit(t, e)
  <2>1. available' \in BOOLEAN
    BY <1>1 DEF Persist
  <2>2. Journal!Keep(e)
    BY <1>1, <2>1 DEF Journal!Keep, Commit
  <2> QED
    BY <2>2 DEF Journal!Next
<1>2. CASE available /\ Recorded(e) /\ ~Commit(t, e)
  <2>1. Journal!Reconnect
    BY <1>2 DEF Journal!Reconnect, Persist
  <2> QED
    BY <2>1 DEF Journal!Next
<1>3. CASE ~(available /\ Recorded(e))
  BY <1>3 DEF Persist, graph
<1> QED
  BY <1>1, <1>2, <1>3

(* Broadcasting a record for the first time, kept if it can be, is Show.   *)
LEMMA BroadcastMaps ==
  ASSUME NEW e \in Record, Broadcast(e), UNCHANGED graph, e \notin Shown, Announced(e, Shown),
         Recorded(e) /\ available => e \in kept
  PROVE  Journal!Next
<1>1. Journal!Shown = Shown
  BY DEF Journal!Shown, Shown
<1>2. Journal!Show(e)
  BY <1>1 DEF Journal!Show, Broadcast, graph
<1> QED
  BY <1>2 DEF Journal!Next

-----------------------------------------------------------------------------
(* The inductive invariant is kept.                                        *)

Unmoved(t) ==
  \A u \in Task : u # t => /\ pc'[u] = pc[u] /\ cur'[u] = cur[u]
                          /\ left'[u] = left[u] /\ ctx'[u] = ctx[u]

LEMMA PersistKeeps ==
  ASSUME available \in BOOLEAN, NEW t \in Task, NEW e \in Record, Persist(t, e)
  PROVE  /\ kept \subseteq kept' /\ (available' => available)
         /\ available' /\ Recorded(e) => e \in kept'
<1>1. CASE available /\ Recorded(e)
  BY <1>1 DEF Persist, Commit
<1>2. CASE ~(available /\ Recorded(e))
  BY <1>2 DEF Persist, graph
<1> QED
  BY <1>1, <1>2

LEMMA BroadcastShows ==
  ASSUME shown \in Seq(Record), NEW e \in Record, Broadcast(e)
  PROVE  Shown' = Shown \cup {e}
<1>1. /\ Len(shown') = Len(shown) + 1 /\ shown' \in Seq(Record) /\ shown'[Len(shown) + 1] = e
      /\ \A k \in 1..Len(shown) : shown'[k] = shown[k]
  BY AppendProperties DEF Broadcast
<1>2. DOMAIN shown' = 1..Len(shown) + 1 /\ DOMAIN shown = 1..Len(shown) /\ Len(shown) \in Nat
  BY <1>1
<1>3. \A k \in 1..Len(shown) + 1 : k \in 1..Len(shown) \/ k = Len(shown) + 1
  BY <1>2
<1> QED
  BY <1>1, <1>2, <1>3 DEF Shown

(* What a task does about its publication leaves the invariant of the      *)
(* others.                                                                 *)
LEMMA OthersStep ==
  ASSUME TypeInv, JournalInv, NEW t \in Task, Unmoved(t), posts' \in Nat, posts <= posts',
         kept \subseteq kept', available' => available, Shown \subseteq Shown',
         \A u \in Task : u # t /\ pc[u] # "idle" =>
            /\ \A e \in Shown' : e \in Shown \/ e.of # cur[u].of
            /\ pc'[t] # "idle" => cur'[t].of # cur[u].of,
         NEW u \in Task, u # t
  PROVE  TaskInv(u)'
<1>1. TaskInv(u) /\ posts \in Nat
  BY BoundsAssumption DEF JournalInv, TypeInv, TypeOK
<1>2. pc'[u] = pc[u] /\ cur'[u] = cur[u] /\ left'[u] = left[u] /\ ctx'[u] = ctx[u]
  BY DEF Unmoved
<1>3. OwnPost(u)'
  <2>1. SUFFICES ASSUME pc[u] # "idle"
                 PROVE  /\ cur[u].of \in 1..posts' /\ cur[u].type \in Types
                        /\ \A w \in Task : w # u /\ pc'[w] # "idle" => cur'[w].of # cur[u].of
    BY <1>2 DEF OwnPost
  <2>2. /\ cur[u].of \in 1..posts /\ cur[u].type \in Types
        /\ \A w \in Task : w # u /\ pc[w] # "idle" => cur[w].of # cur[u].of
    BY <1>1, <2>1 DEF TaskInv, OwnPost
  <2>3. ASSUME NEW w \in Task, w # u, pc'[w] # "idle"
        PROVE  cur'[w].of # cur[u].of
    <3>1. CASE w = t
      BY <2>1, <2>3, <3>1
    <3>2. CASE w # t
      BY <2>2, <2>3, <3>2 DEF Unmoved
    <3> QED
      BY <3>1, <3>2
  <2> QED
    BY <1>1, <2>2, <2>3
<1>4. NotShown(u)'
  <2>1. Pending(u)' = Pending(u)
    BY <1>2 DEF Pending
  <2>2. CASE pc[u] = "idle"
    BY <1>2, <2>2 DEF NotShown, Pending, Before, Between, Alarming
  <2>3. CASE pc[u] # "idle"
    BY <1>1, <1>2, <2>1, <2>3 DEF TaskInv, NotShown
  <2> QED
    BY <2>2, <2>3
<1>5. EventShown(u)' /\ GateKept(u)'
  BY <1>1, <1>2 DEF TaskInv, EventShown, GateKept
<1>6. NextKept(u)'
  BY <1>1, <1>2 DEF TaskInv, NextKept, About
<1> QED
  BY <1>1, <1>2, <1>3, <1>4, <1>5, <1>6 DEF TaskInv

(* A task that goes on with its publication, showing at most records of it *)
(* that it will not show again.                                            *)
LEMMA OwnStep ==
  ASSUME TypeInv, JournalInv, NEW t \in Task, Unmoved(t), pc[t] # "idle", cur'[t] = cur[t],
         posts' = posts, kept \subseteq kept', available' => available,
         Shown \subseteq Shown',
         \A e \in Shown' \ Shown : e.of = cur[t].of /\ e.type \notin Pending(t)',
         Pending(t)' \subseteq Pending(t),
         left'[t] \in AlarmLists, pc'[t] \in Alarming => left'[t] # <<>>,
         EventShown(t)', pc'[t] # "idle" => GateKept(t)', NextKept(t)'
  PROVE  JournalInv'
<1>1. /\ TaskInv(t) /\ posts \in Nat /\ cur[t].of \in 1..posts /\ cur[t].type \in Types
      /\ \A u \in Task : u # t /\ pc[u] # "idle" => cur[u].of # cur[t].of
      /\ \A e \in Shown : e.of \in 1..posts
  BY BoundsAssumption DEF JournalInv, TypeInv, TypeOK, TaskInv, OwnPost
<1>2. \A u \in Task : u # t => TaskInv(u)'
  BY <1>1, OthersStep
<1>3. OwnPost(t)'
  BY <1>1 DEF OwnPost, Unmoved
<1>4. NotShown(t)'
  BY <1>1 DEF TaskInv, NotShown
<1>5. GateKept(t)'
  BY DEF GateKept
<1>6. TaskInv(t)'
  BY <1>3, <1>4, <1>5 DEF TaskInv
<1>7. \A e \in Shown' : e.of \in 1..posts'
  BY <1>1
<1> QED
  BY <1>2, <1>6, <1>7 DEF JournalInv

(* A task that returns.                                                    *)
LEMMA ReturnStep ==
  ASSUME TypeInv, JournalInv, NEW t \in Task, Unmoved(t), pc[t] # "idle", Return(t),
         posts' = posts, kept \subseteq kept', available' => available,
         Shown \subseteq Shown', \A e \in Shown' \ Shown : e.of = cur[t].of
  PROVE  JournalInv'
<1>1. /\ posts \in Nat /\ cur[t].of \in 1..posts
      /\ \A u \in Task : u # t /\ pc[u] # "idle" => cur[u].of # cur[t].of
      /\ \A e \in Shown : e.of \in 1..posts
  BY BoundsAssumption DEF JournalInv, TypeInv, TypeOK, TaskInv, OwnPost
<1>2. pc'[t] = "idle" /\ left'[t] = <<>>
  BY DEF Return, Goto, TypeInv, TypeOK
<1>3. \A u \in Task : u # t => TaskInv(u)'
  BY <1>1, <1>2, OthersStep
<1>4. OwnPost(t)' /\ NotShown(t)' /\ EventShown(t)' /\ GateKept(t)' /\ NextKept(t)'
  BY <1>2 DEF OwnPost, NotShown, EventShown, GateKept, NextKept, Pending, Before, Between,
             Alarming, Ending
<1>5. TaskInv(t)'
  BY <1>2, <1>4 DEF TaskInv, AlarmLists, Alarming
<1>6. \A e \in Shown' : e.of \in 1..posts'
  BY <1>1
<1> QED
  BY <1>3, <1>5, <1>6 DEF JournalInv

(* Publication of the anomalies goes on, or the event is registered.       *)
LEMMA NextAlarmStep ==
  ASSUME TypeInv, JournalInv, NEW t \in Task, NEW alarms \in AlarmLists, NextAlarm(t, alarms),
         UNCHANGED <<graph, cur, posts>>,
         pc[t] = "node" \/ (pc[t] = "showAlarm" /\ Range(alarms) \subseteq Range(left[t])),
         Shown \subseteq Shown',
         \A e \in Shown' \ Shown : e.of = cur[t].of /\ e.type \in Alarms \ Range(alarms)
  PROVE  JournalInv'
<1>1. /\ pc \in [Task -> Stages] /\ left \in [Task -> Seq(Alarms)] /\ DOMAIN ctx = Task
      /\ TaskInv(t) /\ pc[t] # "idle" /\ cur' = cur /\ kept' = kept /\ available' = available
  BY DEF TypeInv, TypeOK, JournalInv, graph
<1>2. left'[t] = alarms /\ \A u \in Task : u # t => left'[u] = left[u]
  BY <1>1 DEF NextAlarm
<1>3. cur[t] \in Shown' /\ GateKept(t)
  BY <1>1 DEF TaskInv, EventShown, Between, Alarming
<1>4. "RETRY" \notin Alarms /\ posts' = posts
  BY DEF Alarms
<1>5. CASE alarms # <<>>
  <2>1. Goto(t, "alarm") /\ ctx' = ctx
    BY <1>5 DEF NextAlarm
  <2>2. pc'[t] = "alarm" /\ Unmoved(t)
    BY <1>1, <1>2, <2>1 DEF Goto, Unmoved
  <2>3. Pending(t)' = {type \in Alarms : type \in Range(alarms)} \cup {"RETRY"}
    BY <1>2, <2>2 DEF Pending, Before, Between, Alarming
  <2>4. Pending(t)' \subseteq Pending(t)
    BY <1>1, <2>3 DEF Pending, Before, Between, Alarming
  <2>5. EventShown(t)' /\ GateKept(t)' /\ NextKept(t)'
    BY <1>1, <1>3, <2>2 DEF EventShown, GateKept, NextKept
  <2>6. \A e \in Shown' \ Shown : e.of = cur[t].of /\ e.type \notin Pending(t)'
    BY <1>4, <2>3
  <2> QED
    BY <1>1, <1>2, <1>4, <1>5, <2>2, <2>4, <2>5, <2>6, OwnStep
<1>6. CASE alarms = <<>>
  <2>1. Goto(t, "retry") /\ \A u \in Task : u # t => ctx'[u] = ctx[u]
    BY <1>1, <1>6 DEF NextAlarm, Register
  <2>2. pc'[t] = "retry" /\ Unmoved(t)
    BY <1>1, <1>2, <2>1 DEF Goto, Unmoved
  <2>3. Pending(t)' = {"RETRY"}
    BY <2>2 DEF Pending, Before, Between, Alarming
  <2>4. Pending(t)' \subseteq Pending(t)
    BY <1>1, <2>3 DEF Pending
  <2>5. EventShown(t)' /\ GateKept(t)' /\ NextKept(t)'
    BY <1>1, <1>3, <2>2 DEF EventShown, GateKept, NextKept
  <2>6. \A e \in Shown' \ Shown : e.of = cur[t].of /\ e.type \notin Pending(t)'
    BY <1>4, <2>3
  <2>7. pc'[t] \notin Alarming
    BY <2>2 DEF Alarming
  <2> QED
    BY <1>1, <1>2, <1>4, <2>2, <2>4, <2>5, <2>6, <2>7, OwnStep
<1> QED
  BY <1>5, <1>6

(* A task that moves to its next stage.                                    *)
LEMMA MoveStep ==
  ASSUME TypeInv, JournalInv, NEW t \in Task, NEW label \in Stages \ {"idle"}, Goto(t, label),
         UNCHANGED <<ctx, cur, left, posts>>, pc[t] # "idle",
         kept \subseteq kept', available' => available,
         Shown \subseteq Shown',
         \A e \in Shown' \ Shown : e.of = cur[t].of /\ e.type \notin Pending(t)',
         Pending(t)' \subseteq Pending(t),
         label \in Alarming => pc[t] \in Alarming,
         label \in Between \cup Alarming \cup Ending => cur[t] \in Shown',
         pc[t] = "gate" => GateKept(t)', NextKept(t)'
  PROVE  JournalInv'
<1>1. pc \in [Task -> Stages] /\ TaskInv(t)
  BY DEF TypeInv, TypeOK, JournalInv
<1>2. pc'[t] = label /\ Unmoved(t)
  BY <1>1 DEF Goto, Unmoved
<1>3. EventShown(t)'
  BY <1>2 DEF EventShown
<1>4. GateKept(t)'
  <2>1. CASE pc[t] # "gate"
    BY <1>1, <2>1 DEF TaskInv, GateKept
  <2> QED
    BY <2>1
<1>5. left'[t] \in AlarmLists /\ (pc'[t] \in Alarming => left'[t] # <<>>)
  BY <1>1, <1>2 DEF TaskInv
<1> QED
  BY <1>2, <1>3, <1>4, <1>5, OwnStep

LEMMA TypesApart == Types \cap Derived = {} /\ "RETRY" \notin Alarms /\ "GATE" \notin Alarms
BY TypesAssumption DEF Derived, Alarms, Agentless

LEMMA JournalInit == Init => JournalInv
<1> SUFFICES ASSUME Init PROVE JournalInv
  OBVIOUS
<1>1. Shown = {}
  BY DEF Init, Shown
<1>2. ASSUME NEW t \in Task
      PROVE  TaskInv(t)
  <2>1. pc[t] = "idle" /\ left[t] = <<>>
    BY DEF Init
  <2>2. OwnPost(t) /\ NotShown(t) /\ EventShown(t) /\ GateKept(t) /\ NextKept(t)
    BY <1>1, <2>1 DEF OwnPost, NotShown, EventShown, GateKept, NextKept, Between, Alarming, Ending
  <2> QED
    BY <2>1, <2>2 DEF TaskInv, AlarmLists, Alarming
<1> QED
  BY <1>1, <1>2 DEF JournalInv

LEMMA JournalStep == TypeInv /\ TypeInv' /\ JournalInv /\ [Next]_vars => JournalInv'
<1> SUFFICES ASSUME TypeInv, TypeInv', JournalInv, [Next]_vars PROVE JournalInv'
  OBVIOUS
<1> USE BoundsAssumption
<1>0. /\ available \in BOOLEAN /\ shown \in Seq(Record) /\ posts \in Nat
      /\ cur \in [Task -> Record] /\ pc \in [Task -> Stages] /\ left \in [Task -> Seq(Alarms)]
      /\ DOMAIN ctx = Task /\ \A t \in Task : TaskInv(t)
      /\ \A e \in Shown : e.of \in 1..posts
  BY DEF TypeInv, TypeOK, JournalInv
<1>1. CASE UNCHANGED vars
  <2>1. Shown' = Shown
    BY <1>1 DEF vars, Shown
  <2>2. /\ posts' = posts /\ available' = available /\ kept' = kept /\ ctx' = ctx
        /\ pc' = pc /\ cur' = cur /\ left' = left
    BY <1>1 DEF vars, graph, frames
  <2>3. ASSUME NEW t \in Task
        PROVE  TaskInv(t)'
    <3>1. TaskInv(t)
      BY <1>0
    <3>2. OwnPost(t)' = OwnPost(t)
      BY <2>2 DEF OwnPost
    <3>3. NotShown(t)' = NotShown(t)
      BY <2>1, <2>2 DEF NotShown, Pending, Before
    <3>4. EventShown(t)' = EventShown(t)
      BY <2>1, <2>2 DEF EventShown
    <3>5. GateKept(t)' = GateKept(t)
      BY <2>2 DEF GateKept
    <3>6. NextKept(t)' = NextKept(t)
      BY <2>2 DEF NextKept, About
    <3> QED
      BY <2>2, <3>1, <3>2, <3>3, <3>4, <3>5, <3>6 DEF TaskInv
  <2> QED
    BY <1>0, <2>1, <2>2, <2>3 DEF JournalInv
<1>2. CASE Restart
  <2>1. Shown' = Shown /\ posts' = posts
    BY <1>2 DEF Restart, Shown
  <2>2. ASSUME NEW t \in Task
        PROVE  TaskInv(t)'
    <3>1. pc'[t] = "idle" /\ left'[t] = <<>>
      BY <1>2 DEF Restart
    <3>2. OwnPost(t)' /\ NotShown(t)' /\ EventShown(t)' /\ GateKept(t)' /\ NextKept(t)'
      BY <3>1 DEF OwnPost, NotShown, EventShown, GateKept, NextKept, Pending, Before, Between,
         Alarming, Ending
    <3> QED
      BY <3>1, <3>2 DEF TaskInv, AlarmLists, Alarming
  <2> QED
    BY <1>0, <2>1, <2>2 DEF JournalInv
<1>3. CASE QueryFails
  <2>1. /\ Shown' = Shown /\ posts' = posts /\ available' = FALSE /\ kept' = kept
        /\ ctx' = ctx /\ pc' = pc /\ cur' = cur /\ left' = left
    BY <1>3 DEF QueryFails, Shown, frames
  <2>2. \A t \in Task : TaskInv(t)'
    BY <1>0, <2>1 DEF TaskInv, OwnPost, NotShown, EventShown, GateKept, NextKept, Pending
  <2> QED
    BY <1>0, <2>1, <2>2 DEF JournalInv
<1>4. ASSUME NEW t \in Task, NEW type \in Types, NEW a \in Agent \cup {NoAgent}, Post(t, type, a)
      PROVE  JournalInv'
  <2>1. /\ posts' = posts + 1 /\ Shown' = Shown /\ kept' = kept /\ available' = available
        /\ ctx' = ctx /\ left' = left /\ pc'[t] = "gate"
        /\ cur'[t].of = posts + 1 /\ cur'[t].type = type
    BY <1>0, <1>4 DEF Post, Shown, graph, Goto
  <2>2. Unmoved(t)
    BY <1>0, <1>4 DEF Unmoved, Post, Goto
  <2>3. \A u \in Task : pc[u] # "idle" => cur[u].of \in 1..posts
    BY <1>0 DEF TaskInv, OwnPost
  <2>4. \A u \in Task : u # t /\ pc[u] # "idle" => cur'[t].of # cur[u].of
    BY <1>0, <2>1, <2>3
  <2>5. posts' \in Nat /\ posts <= posts'
    BY <1>0, <2>1
  <2>6. \A u \in Task : u # t => TaskInv(u)'
    BY <2>1, <2>2, <2>4, <2>5, OthersStep
  <2>7. OwnPost(t)'
    <3>1. cur'[t].of \in 1..posts'
      BY <1>0, <2>1
    <3> QED
      BY <2>1, <2>2, <2>4, <3>1 DEF OwnPost, Unmoved
  <2>8. NotShown(t)'
    BY <1>0, <2>1 DEF NotShown
  <2>9. EventShown(t)' /\ GateKept(t)' /\ NextKept(t)'
    BY <2>1 DEF EventShown, GateKept, NextKept, Between, Alarming, Ending
  <2>10. TaskInv(t)'
    BY <1>0, <2>1, <2>7, <2>8, <2>9 DEF TaskInv, Alarming
  <2>11. \A e \in Shown' : e.of \in 1..posts'
    BY <1>0, <2>1
  <2> QED
    BY <2>6, <2>10, <2>11 DEF JournalInv
<1>5. ASSUME NEW t \in Task, PersistGate(t) PROVE JournalInv'
  <2> DEFINE e == About(t, "GATE")
  <2>1. /\ pc[t] = "gate" /\ Persist(t, e) /\ Goto(t, "store")
        /\ Shown' = Shown /\ UNCHANGED <<ctx, cur, left, posts>>
    BY <1>5 DEF PersistGate, Shown, frames
  <2>2. e \in Record /\ e.of = cur[t].of /\ e.type = "GATE"
    BY AboutType DEF TypeInv, Derived
  <2>3. Recorded(e)
    BY <2>2 DEF Recorded
  <2> HIDE DEF e
  <2>4. kept \subseteq kept' /\ (available' => available) /\ (available' => e \in kept')
    BY <1>0, <2>1, <2>2, <2>3, PersistKeeps
  <2>5. pc'[t] = "store"
    BY <1>0, <2>1 DEF Goto
  <2>6. GateKept(t)' /\ NextKept(t)'
    BY <2>1, <2>2, <2>4, <2>5 DEF GateKept, NextKept
  <2>7. Pending(t)' \subseteq Pending(t)
    BY <2>1, <2>5 DEF Pending, Before, Between, Alarming
  <2>8. "store" \in Stages \ {"idle"} /\ "store" \notin Between \cup Alarming \cup Ending
    BY DEF Stages, Between, Alarming, Ending
  <2>9. Shown' = Shown
    BY <2>1
  <2>10. Shown \subseteq Shown' /\ kept \subseteq kept' /\ (available' => available)
    BY <2>1, <2>4
  <2>11. \A x \in Shown' \ Shown : x.of = cur[t].of /\ x.type \notin Pending(t)'
    BY <2>1
  <2> QED
    BY <2>1, <2>4, <2>6, <2>7, <2>8, <2>9, <2>10, <2>11, MoveStep
<1>6. ASSUME NEW t \in Task, PersistEvent(t) PROVE JournalInv'
  <2>1. /\ pc[t] = "store" /\ Persist(t, cur[t]) /\ Goto(t, "show")
        /\ Shown' = Shown /\ UNCHANGED <<ctx, cur, left, posts>>
    BY <1>6 DEF PersistEvent, Shown, frames
  <2>2. /\ kept \subseteq kept' /\ (available' => available)
        /\ available' /\ Recorded(cur[t]) => cur[t] \in kept'
    BY <1>0, <2>1, PersistKeeps
  <2>3. pc'[t] = "show"
    BY <1>0, <2>1 DEF Goto
  <2>4. NextKept(t)'
    BY <2>1, <2>2, <2>3 DEF NextKept, Recorded
  <2>5. Pending(t)' \subseteq Pending(t)
    BY <2>1, <2>3 DEF Pending, Before, Between, Alarming
  <2>6. "show" \in Stages \ {"idle"} /\ "show" \notin Between \cup Alarming \cup Ending
    BY DEF Stages, Between, Alarming, Ending
  <2>7. Shown' = Shown
    BY <2>1
  <2>8. Shown \subseteq Shown' /\ kept \subseteq kept' /\ (available' => available)
    BY <2>1, <2>2
  <2>9. \A x \in Shown' \ Shown : x.of = cur[t].of /\ x.type \notin Pending(t)'
    BY <2>1
  <2> QED
    BY <2>1, <2>2, <2>4, <2>5, <2>6, <2>7, <2>8, <2>9, MoveStep
<1>7. ASSUME NEW t \in Task, ShowEvent(t) PROVE JournalInv'
  <2>1. /\ pc[t] = "show" /\ Broadcast(cur[t]) /\ Goto(t, "count")
        /\ UNCHANGED <<ctx, cur, left, posts, kept, available>>
    BY <1>7 DEF ShowEvent, frames, graph
  <2>2. Shown' = Shown \cup {cur[t]}
    BY <1>0, <2>1, BroadcastShows
  <2>3. pc'[t] = "count"
    BY <1>0, <2>1 DEF Goto
  <2>4. cur[t].type \in Types
    BY <1>0, <2>1 DEF TaskInv, OwnPost
  <2>5. Pending(t)' \subseteq Alarms \cup {"RETRY"} /\ Pending(t)' \subseteq Pending(t)
    BY <2>1, <2>3 DEF Pending, Before, Between, Alarming
  <2>6. cur[t].type \notin Pending(t)'
    BY <2>4, <2>5, TypesApart DEF Derived
  <2>7. NextKept(t)'
    BY <2>3 DEF NextKept
  <2>8. "count" \in Stages \ {"idle"} /\ "count" \notin Alarming
    BY DEF Stages, Alarming
  <2>9. Shown \subseteq Shown' /\ kept \subseteq kept' /\ (available' => available)
    BY <2>1, <2>2
  <2>10. \A x \in Shown' \ Shown : x.of = cur[t].of /\ x.type \notin Pending(t)'
    BY <2>2, <2>6
  <2> QED
    BY <2>1, <2>2, <2>5, <2>6, <2>7, <2>8, <2>9, <2>10, MoveStep
<1>8. ASSUME NEW t \in Task, CountAgentless(t) PROVE JournalInv'
  <2>1. /\ pc[t] = "count" /\ Goto(t, "retry") /\ Shown' = Shown
        /\ UNCHANGED <<cur, left, posts, kept, available>>
        /\ \A u \in Task : u # t => ctx'[u] = ctx[u]
    BY <1>0, <1>8 DEF CountAgentless, Register, frames, graph, Shown
  <2>2. pc'[t] = "retry" /\ Unmoved(t)
    BY <1>0, <2>1 DEF Goto, Unmoved
  <2>3. cur[t] \in Shown /\ GateKept(t) /\ left[t] \in AlarmLists
    BY <1>0, <2>1 DEF TaskInv, EventShown, Between
  <2>4. EventShown(t)' /\ GateKept(t)' /\ NextKept(t)'
    BY <2>1, <2>2, <2>3 DEF EventShown, GateKept, NextKept
  <2>5. Pending(t)' \subseteq Pending(t)
    BY <2>1, <2>2 DEF Pending, Before, Between, Alarming
  <2>6. pc'[t] \notin Alarming /\ Shown' = Shown
    BY <2>1, <2>2 DEF Alarming
  <2>7. Shown \subseteq Shown' /\ kept \subseteq kept' /\ (available' => available)
    BY <2>1
  <2>8. \A x \in Shown' \ Shown : x.of = cur[t].of /\ x.type \notin Pending(t)'
    BY <2>1
  <2> QED
    BY <2>1, <2>2, <2>3, <2>4, <2>5, <2>6, <2>7, <2>8, OwnStep
<1>9. ASSUME NEW t \in Task, Count(t) \/ SetRedis(t) PROVE JournalInv'
  <2>1. /\ pc[t] \in {"count", "cache"} /\ (Goto(t, "cache") \/ Goto(t, "node"))
        /\ Shown' = Shown /\ UNCHANGED <<ctx, cur, left, posts, kept, available>>
    BY <1>9 DEF Count, SetRedis, frames, graph, Shown
  <2>2. PICK label \in {"cache", "node"} : Goto(t, label)
    BY <2>1
  <2>3. pc'[t] = label
    BY <1>0, <2>2 DEF Goto
  <2>4. cur[t] \in Shown'
    BY <1>0, <2>1 DEF TaskInv, EventShown, Between
  <2>5. Pending(t)' \subseteq Pending(t)
    BY <2>1, <2>3 DEF Pending, Before, Between, Alarming
  <2>6. NextKept(t)'
    BY <2>3 DEF NextKept
  <2>7. label \in Stages \ {"idle"} /\ label \notin Alarming /\ Shown' = Shown
    BY <2>1 DEF Stages, Alarming
  <2>8. Shown \subseteq Shown' /\ kept \subseteq kept' /\ (available' => available)
    BY <2>1
  <2>9. \A x \in Shown' \ Shown : x.of = cur[t].of /\ x.type \notin Pending(t)'
    BY <2>1
  <2> QED
    BY <2>1, <2>2, <2>4, <2>5, <2>6, <2>7, <2>8, <2>9, MoveStep
<1>10. ASSUME NEW t \in Task, RedisFails(t) PROVE JournalInv'
  <2>1. /\ pc[t] = "cache" /\ Return(t) /\ Shown' = Shown
        /\ UNCHANGED <<ctx, posts, kept, available>>
    BY <1>10 DEF RedisFails, graph, Shown
  <2>2. Unmoved(t)
    BY <1>0, <2>1 DEF Unmoved, Return, Goto
  <2>3. Shown \subseteq Shown' /\ kept \subseteq kept' /\ (available' => available)
    BY <2>1
  <2>4. \A x \in Shown' \ Shown : x.of = cur[t].of
    BY <2>1
  <2> QED
    BY <2>1, <2>2, <2>3, <2>4, ReturnStep
<1>11. ASSUME NEW t \in Task, SetNode(t) PROVE JournalInv'
  <2>1. pc[t] = "node" /\ Shown' = Shown /\ UNCHANGED <<graph, cur, posts>>
    BY <1>11 DEF SetNode, Shown
  <2>2. PICK spike \in BOOLEAN : NextAlarm(t, Detected(metric[t], spike))
    BY <1>11 DEF SetNode
  <2>3. Shown \subseteq Shown' /\ Detected(metric[t], spike) \in AlarmLists
    BY <2>1, DetectedType
  <2>4. \A x \in Shown' \ Shown :
           x.of = cur[t].of /\ x.type \in Alarms \ Range(Detected(metric[t], spike))
    BY <2>1
  <2> QED
    BY <2>1, <2>2, <2>3, <2>4, NextAlarmStep
<1>12. ASSUME NEW t \in Task, PersistAlarm(t) PROVE JournalInv'
  <2> DEFINE e == About(t, Head(left[t]))
  <2>1. /\ pc[t] = "alarm" /\ Persist(t, e) /\ Goto(t, "showAlarm")
        /\ Shown' = Shown /\ UNCHANGED <<ctx, cur, left, posts>>
    BY <1>12 DEF PersistAlarm, Shown, frames
  <2>2. left[t] # <<>> /\ left[t] \in AlarmLists /\ cur[t] \in Shown
    BY <1>0, <2>1 DEF TaskInv, Alarming, EventShown
  <2>3. Head(left[t]) \in Alarms
    BY <2>2, AlarmListType
  <2>4. e \in Record /\ e.type = Head(left[t])
    BY <2>3, AboutType DEF TypeInv, Derived
  <2>5. Recorded(e)
    BY <2>3, <2>4 DEF Recorded, Alarms
  <2>6. e' = e
    BY <2>1 DEF About
  <2> HIDE DEF e
  <2>7. kept \subseteq kept' /\ (available' => available) /\ (available' => e \in kept')
    BY <1>0, <2>1, <2>4, <2>5, PersistKeeps
  <2>8. pc'[t] = "showAlarm"
    BY <1>0, <2>1 DEF Goto
  <2>9. NextKept(t)'
    BY <2>6, <2>7, <2>8 DEF NextKept, e
  <2>10. Pending(t)' \subseteq Pending(t)
    BY <2>1, <2>8 DEF Pending, Before, Between, Alarming
  <2>11. "showAlarm" \in Stages \ {"idle"} /\ "alarm" \in Alarming /\ Shown' = Shown
    BY <2>1 DEF Stages, Alarming
  <2>12. Shown \subseteq Shown' /\ kept \subseteq kept' /\ (available' => available)
    BY <2>1, <2>7
  <2>13. \A x \in Shown' \ Shown : x.of = cur[t].of /\ x.type \notin Pending(t)'
    BY <2>1
  <2> QED
    BY <2>1, <2>2, <2>7, <2>9, <2>10, <2>11, <2>12, <2>13, MoveStep
<1>13. ASSUME NEW t \in Task, ShowAlarm(t) PROVE JournalInv'
  <2> DEFINE e == About(t, Head(left[t]))
  <2>1. /\ pc[t] = "showAlarm" /\ Broadcast(e) /\ NextAlarm(t, Tail(left[t]))
        /\ UNCHANGED <<graph, cur, posts>>
    BY <1>13 DEF ShowAlarm
  <2>2. left[t] # <<>> /\ left[t] \in AlarmLists
    BY <1>0, <2>1 DEF TaskInv, Alarming
  <2>3. /\ Head(left[t]) \in Alarms /\ Tail(left[t]) \in AlarmLists
        /\ Range(Tail(left[t])) = Range(left[t]) \ {Head(left[t])}
    BY <2>2, AlarmListType
  <2>4. e \in Record /\ e.type = Head(left[t]) /\ e.of = cur[t].of
    BY <2>3, AboutType DEF TypeInv, Derived
  <2> HIDE DEF e
  <2>5. Shown' = Shown \cup {e}
    BY <1>0, <2>1, <2>4, BroadcastShows
  <2>6. e.type \in Alarms \ Range(Tail(left[t])) /\ Range(Tail(left[t])) \subseteq Range(left[t])
    BY <2>3, <2>4
  <2>7. Shown \subseteq Shown'
    BY <2>5
  <2>8. \A x \in Shown' \ Shown : x.of = cur[t].of /\ x.type \in Alarms \ Range(Tail(left[t]))
    BY <2>4, <2>5, <2>6
  <2> QED
    BY <2>1, <2>3, <2>4, <2>5, <2>6, <2>7, <2>8, NextAlarmStep
<1>14. ASSUME NEW t \in Task, PersistRetry(t) PROVE JournalInv'
  <2> DEFINE e == About(t, "RETRY")
  <2>1. /\ pc[t] = "retry" /\ Persist(t, e) /\ Goto(t, "showRetry")
        /\ Shown' = Shown /\ UNCHANGED <<ctx, cur, left, posts>>
    BY <1>14 DEF PersistRetry, Shown, frames
  <2>2. e \in Record /\ e.type = "RETRY" /\ e' = e
    BY <2>1, AboutType DEF TypeInv, Derived, About
  <2>3. Recorded(e) /\ cur[t] \in Shown
    BY <1>0, <2>1, <2>2 DEF Recorded, TaskInv, EventShown, Ending
  <2> HIDE DEF e
  <2>4. kept \subseteq kept' /\ (available' => available) /\ (available' => e \in kept')
    BY <1>0, <2>1, <2>2, <2>3, PersistKeeps
  <2>5. pc'[t] = "showRetry"
    BY <1>0, <2>1 DEF Goto
  <2>6. NextKept(t)'
    BY <2>2, <2>4, <2>5 DEF NextKept, e
  <2>7. Pending(t)' \subseteq Pending(t)
    BY <2>1, <2>5 DEF Pending, Before, Between, Alarming
  <2>8. "showRetry" \in Stages \ {"idle"} /\ "showRetry" \notin Alarming /\ Shown' = Shown
    BY <2>1 DEF Stages, Alarming
  <2>9. Shown \subseteq Shown' /\ kept \subseteq kept' /\ (available' => available)
    BY <2>1, <2>4
  <2>10. \A x \in Shown' \ Shown : x.of = cur[t].of /\ x.type \notin Pending(t)'
    BY <2>1
  <2> QED
    BY <2>1, <2>3, <2>4, <2>6, <2>7, <2>8, <2>9, <2>10, MoveStep
<1>15. ASSUME NEW t \in Task, ShowRetry(t) PROVE JournalInv'
  <2> DEFINE e == About(t, "RETRY")
  <2>1. /\ pc[t] = "showRetry" /\ Broadcast(e) /\ Return(t)
        /\ UNCHANGED <<ctx, posts, kept, available>>
    BY <1>15 DEF ShowRetry, graph
  <2>2. e \in Record /\ e.of = cur[t].of
    BY AboutType DEF TypeInv, Derived
  <2> HIDE DEF e
  <2>3. Shown' = Shown \cup {e}
    BY <1>0, <2>1, <2>2, BroadcastShows
  <2>4. Unmoved(t)
    BY <1>0, <2>1 DEF Unmoved, Return, Goto
  <2>5. Shown \subseteq Shown' /\ kept \subseteq kept' /\ (available' => available)
    BY <2>1, <2>3
  <2>6. \A x \in Shown' \ Shown : x.of = cur[t].of
    BY <2>2, <2>3
  <2> QED
    BY <2>1, <2>2, <2>3, <2>4, <2>5, <2>6, ReturnStep
<1> QED
  BY <1>1, <1>2, <1>3, <1>4, <1>5, <1>6, <1>7, <1>8, <1>9, <1>10, <1>11, <1>12, <1>13, <1>14,
     <1>15 DEF Next, Proceed

-----------------------------------------------------------------------------
(* The refinement.                                                         *)

LEMMA InitMaps == Init => Journal!Init
BY DEF Init, Journal!Init

LEMMA StepMaps == TypeInv /\ JournalInv /\ [Next]_vars => [Journal!Next]_<<available, kept, shown>>
<1> SUFFICES ASSUME TypeInv, JournalInv, [Next]_vars
             PROVE  Journal!Next \/ UNCHANGED <<available, kept, shown>>
  OBVIOUS
<1>0. /\ available \in BOOLEAN /\ cur \in [Task -> Record]
      /\ \A t \in Task : TaskInv(t)
  BY DEF TypeInv, TypeOK, JournalInv
<1>1. ASSUME NEW t \in Task, pc[t] \notin {"idle", "gate"}, NEW e \in Record, e.of = cur[t].of
      PROVE  available => Founded(e, kept)
  BY <1>0, <1>1 DEF TaskInv, GateKept, Founded
<1>2. ASSUME NEW t \in Task, pc[t] \in Between \cup Alarming \cup Ending,
             NEW e \in Record, e.of = cur[t].of
      PROVE  Announced(e, Shown)
  <2>1. cur[t] \in Shown /\ cur[t].type \in Types
    BY <1>0, <1>2 DEF TaskInv, EventShown, OwnPost, Between, Alarming, Ending
  <2> QED
    BY <1>2, <2>1 DEF Announced
<1>3. CASE UNCHANGED vars
  BY <1>3 DEF vars, graph
<1>4. CASE Restart \/ QueryFails
  <2>1. Journal!Reconnect
    BY <1>4 DEF Restart, QueryFails, Journal!Reconnect
  <2> QED
    BY <2>1 DEF Journal!Next
<1>5. ASSUME NEW t \in Task,
             \/ \E type \in Types, a \in Agent \cup {NoAgent} : Post(t, type, a)
             \/ CountAgentless(t) \/ Count(t) \/ SetRedis(t) \/ RedisFails(t) \/ SetNode(t)
      PROVE  UNCHANGED <<available, kept, shown>>
  BY <1>5 DEF Post, CountAgentless, Count, SetRedis, RedisFails, SetNode, graph
<1>6. ASSUME NEW t \in Task, PersistGate(t)
      PROVE  Journal!Next \/ UNCHANGED <<available, kept, shown>>
  <2>1. About(t, "GATE") \in Record /\ About(t, "GATE").type = "GATE"
    BY AboutType DEF TypeInv, Derived
  <2>2. Founded(About(t, "GATE"), kept)
    BY <2>1 DEF Founded
  <2> QED
    BY <1>0, <1>6, <2>1, <2>2, PersistMaps DEF PersistGate
<1>7. ASSUME NEW t \in Task, PersistEvent(t)
      PROVE  Journal!Next \/ UNCHANGED <<available, kept, shown>>
  <2>1. cur[t] \in Record /\ pc[t] \notin {"idle", "gate"}
    BY <1>0, <1>7 DEF PersistEvent
  <2>2. available => Founded(cur[t], kept)
    BY <1>1, <2>1
  <2> QED
    BY <1>0, <1>7, <2>1, <2>2, PersistMaps DEF PersistEvent
<1>8. ASSUME NEW t \in Task, ShowEvent(t)
      PROVE  Journal!Next
  <2>1. pc[t] = "show" /\ Broadcast(cur[t]) /\ UNCHANGED graph
    BY <1>8 DEF ShowEvent
  <2>2. cur[t] \in Record /\ cur[t].type \in Types /\ TaskInv(t)
    BY <1>0, <2>1 DEF TaskInv, OwnPost
  <2>3. cur[t] \notin Shown
    BY <2>1, <2>2 DEF TaskInv, NotShown, Pending, Before
  <2>4. Announced(cur[t], Shown)
    BY <2>2 DEF Announced
  <2>5. Recorded(cur[t]) /\ available => cur[t] \in kept
    BY <2>1, <2>2 DEF TaskInv, NextKept
  <2> QED
    BY <2>1, <2>2, <2>3, <2>4, <2>5, BroadcastMaps
<1>9. ASSUME NEW t \in Task, PersistAlarm(t)
      PROVE  Journal!Next \/ UNCHANGED <<available, kept, shown>>
  <2>1. pc[t] = "alarm"
    BY <1>9 DEF PersistAlarm
  <2>2. Head(left[t]) \in Alarms
    BY <1>0, <2>1, AlarmListType DEF TaskInv, Alarming
  <2>3. About(t, Head(left[t])) \in Record /\ About(t, Head(left[t])).of = cur[t].of
    BY <2>2, AboutType DEF TypeInv, Derived
  <2>4. available => Founded(About(t, Head(left[t])), kept)
    BY <1>1, <2>1, <2>3
  <2> QED
    BY <1>0, <1>9, <2>3, <2>4, PersistMaps DEF PersistAlarm
<1>10. ASSUME NEW t \in Task, ShowAlarm(t)
       PROVE  Journal!Next
  <2> DEFINE e == About(t, Head(left[t]))
  <2>1. pc[t] = "showAlarm" /\ Broadcast(e) /\ UNCHANGED graph /\ TaskInv(t)
    BY <1>0, <1>10 DEF ShowAlarm
  <2>2. left[t] # <<>> /\ left[t] \in AlarmLists
    BY <2>1 DEF TaskInv, Alarming
  <2>3. Head(left[t]) \in Alarms /\ Head(left[t]) \in Range(left[t])
    BY <2>2 DEF AlarmLists, Alarms, Range
  <2>4. e \in Record /\ e.of = cur[t].of /\ e.type = Head(left[t])
    BY <2>3, AboutType DEF TypeInv, Derived
  <2>5. available => e \in kept
    BY <2>1 DEF TaskInv, NextKept
  <2> HIDE DEF e
  <2>6. e.type \in Pending(t)
    BY <2>1, <2>3, <2>4 DEF Pending, Alarming
  <2>7. e \notin Shown
    BY <2>1, <2>4, <2>6 DEF TaskInv, NotShown
  <2>8. Announced(e, Shown)
    BY <1>2, <2>1, <2>4 DEF Alarming
  <2> QED
    BY <2>1, <2>4, <2>5, <2>7, <2>8, BroadcastMaps
<1>11. ASSUME NEW t \in Task, PersistRetry(t)
       PROVE  Journal!Next \/ UNCHANGED <<available, kept, shown>>
  <2>1. About(t, "RETRY") \in Record /\ About(t, "RETRY").of = cur[t].of /\ pc[t] = "retry"
    BY <1>11, AboutType DEF TypeInv, Derived, PersistRetry
  <2>2. available => Founded(About(t, "RETRY"), kept)
    BY <1>1, <2>1
  <2> QED
    BY <1>0, <1>11, <2>1, <2>2, PersistMaps DEF PersistRetry
<1>12. ASSUME NEW t \in Task, ShowRetry(t)
       PROVE  Journal!Next
  <2> DEFINE e == About(t, "RETRY")
  <2>1. pc[t] = "showRetry" /\ Broadcast(e) /\ UNCHANGED graph /\ TaskInv(t)
    BY <1>0, <1>12 DEF ShowRetry
  <2>2. e \in Record /\ e.of = cur[t].of /\ e.type = "RETRY"
    BY AboutType DEF TypeInv, Derived
  <2>3. available => e \in kept
    BY <2>1 DEF TaskInv, NextKept
  <2> HIDE DEF e
  <2>4. e \notin Shown
    BY <2>1, <2>2 DEF TaskInv, NotShown, Pending
  <2>5. Announced(e, Shown)
    BY <1>2, <2>1, <2>2 DEF Ending
  <2> QED
    BY <2>1, <2>2, <2>3, <2>4, <2>5, BroadcastMaps
<1> QED
  BY <1>3, <1>4, <1>5, <1>6, <1>7, <1>8, <1>9, <1>10, <1>11, <1>12 DEF Next, Proceed

(* The publication of events, whatever fails in it, implements the journal *)
(* that viewers and replays rely on (publish_event and what it calls).     *)
THEOREM JournalImplemented == Spec => ImplementsJournal
<1>1. Init /\ [][Next]_vars => [](TypeInv /\ JournalInv)
  BY InitType, TypeStep, JournalInit, JournalStep, PTL
<1>2. Init /\ [][Next]_vars => [][Journal!Next]_<<available, kept, shown>>
  BY <1>1, StepMaps, PTL
<1> QED
  BY <1>1, <1>2, InitMaps, PTL DEF Spec, ImplementsJournal, Journal!Spec

-----------------------------------------------------------------------------
(* The lineage in the graph.                                               *)

(* The types a task still has to write of its publication.                 *)
Unwritten(t) ==
  {type \in {"GATE"} : pc[t] = "gate"}
    \cup {type \in Types : pc[t] \in {"gate", "store"}}
    \cup {type \in Alarms : \/ pc[t] \in Before \cup Between
                            \/ pc[t] = "alarm" /\ type \in Range(left[t])
                            \/ pc[t] = "showAlarm" /\ type \in Range(Tail(left[t]))}
    \cup {type \in {"RETRY"} : pc[t] \notin {"idle", "showRetry"}}

Unkept(t) ==
  pc[t] # "idle" => \A e \in kept : e.of = cur[t].of => e.type \notin Unwritten(t)

(* The context of a task holds the last event it registered, at most.      *)
LastOwn(t) ==
  /\ \A e \in ctx[t].last : e.by = t /\ e.type \in Types /\ e.step + 1 = ctx[t].step
  /\ \A e1, e2 \in ctx[t].last : e1 = e2

LineInv(t) ==
  /\ cur[t].by = t
  /\ pc[t] \in Unregistered => cur[t].step = ctx[t].step
  /\ Unkept(t) /\ LastOwn(t)

EdgesKept == \A edge \in next : edge[2] \in kept

LineageInv ==
  /\ \A e \in kept : e.of \in 1..posts
  /\ EdgesKept /\ LineageIntact
  /\ \A t \in Task : LineInv(t)

(* A record of a task's own, at the step of its context and not kept so     *)
(* far, extends the lineage.                                               *)
LEMMA PersistLineage ==
  ASSUME TypeInv, EdgesKept, LineageIntact, NEW t \in Task, LastOwn(t),
         NEW e \in Record, Persist(t, e), e.by = t, e.step = ctx[t].step, e \notin kept
  PROVE  EdgesKept' /\ LineageIntact' /\ kept' \subseteq kept \cup {e}
<1>1. CASE UNCHANGED <<kept, next>>
  BY <1>1 DEF EdgesKept, LineageIntact
<1>2. CASE Commit(t, e)
  <2>1. kept' = kept \cup {e}
    BY <1>2 DEF Commit
  <2>2. ASSUME NEW edge \in next', edge \notin next
        PROVE  edge[1] \in ctx[t].last /\ edge[2] = e
    BY <1>2, <2>2 DEF Commit
  <2>3. EdgesKept'
    BY <2>1, <2>2 DEF EdgesKept
  <2>4. ASSUME NEW edge \in next'
        PROVE  /\ edge[1].by = edge[2].by /\ edge[1].type \in Types
               /\ edge[2].step = edge[1].step + 1
    <3>1. CASE edge \in next
      BY <3>1 DEF LineageIntact
    <3>2. CASE edge \notin next
      BY <2>2, <3>2 DEF LastOwn
    <3> QED
      BY <3>1, <3>2
  <2>5. ASSUME NEW e1 \in next', NEW e2 \in next', e1[2] = e2[2] PROVE e1 = e2
    <3>1. CASE e1 \in next /\ e2 \in next
      BY <2>5, <3>1 DEF LineageIntact
    <3>2. CASE e1 \in next /\ e2 \notin next
      BY <2>2, <2>5, <3>2 DEF EdgesKept
    <3>3. CASE e1 \notin next /\ e2 \in next
      BY <2>2, <2>5, <3>3 DEF EdgesKept
    <3>4. CASE e1 \notin next /\ e2 \notin next
      <4>1. /\ e1 \in (ctx[t].last \cap kept) \X {e}
            /\ e2 \in (ctx[t].last \cap kept) \X {e}
        BY <1>2, <3>4 DEF Commit
      <4> QED
        BY <4>1 DEF LastOwn
    <3> QED
      BY <3>1, <3>2, <3>3, <3>4
  <2> QED
    BY <2>1, <2>3, <2>4, <2>5 DEF LineageIntact
<1>3. Commit(t, e) \/ UNCHANGED <<kept, next>>
  BY DEF Persist, graph
<1> QED
  BY <1>1, <1>2, <1>3

(* A task that goes on with its publication, writing at most a record of it *)
(* that it will not write again.                                           *)
LEMMA LineStep ==
  ASSUME TypeInv, JournalInv, LineageInv, NEW t \in Task, Unmoved(t), pc[t] # "idle",
         cur'[t] = cur[t], posts' = posts, EdgesKept', LineageIntact',
         \A e \in kept' \ kept : e.of = cur[t].of /\ e.type \notin Unwritten(t)',
         Unwritten(t)' \subseteq Unwritten(t),
         \/ ctx'[t] = ctx[t] /\ (pc'[t] \in Unregistered => pc[t] \in Unregistered)
         \/ /\ ctx'[t] = [last |-> {cur[t]}, step |-> ctx[t].step + 1]
            /\ pc[t] \in Unregistered /\ pc'[t] \notin Unregistered
  PROVE  LineageInv'
<1>1. /\ cur[t].of \in 1..posts /\ cur[t].type \in Types
      /\ \A u \in Task : u # t /\ pc[u] # "idle" => cur[u].of # cur[t].of
      /\ LineInv(t)
  BY DEF JournalInv, TaskInv, OwnPost, LineageInv
<1>2. ASSUME NEW u \in Task, u # t PROVE LineInv(u)'
  <2>1. pc'[u] = pc[u] /\ cur'[u] = cur[u] /\ left'[u] = left[u] /\ ctx'[u] = ctx[u]
    BY <1>2 DEF Unmoved
  <2>2. Unwritten(u)' = Unwritten(u)
    BY <2>1 DEF Unwritten
  <2>3. LineInv(u)
    BY DEF LineageInv
  <2>4. Unkept(u)'
    BY <1>1, <1>2, <2>1, <2>2, <2>3 DEF LineInv, Unkept
  <2> QED
    BY <2>1, <2>3, <2>4 DEF LineInv, LastOwn
<1>3. LineInv(t)'
  <2>1. Unkept(t)'
    BY <1>1 DEF LineInv, Unkept
  <2>2. CASE ctx'[t] = ctx[t] /\ (pc'[t] \in Unregistered => pc[t] \in Unregistered)
    BY <1>1, <2>1, <2>2 DEF LineInv, LastOwn
  <2>3. CASE /\ ctx'[t] = [last |-> {cur[t]}, step |-> ctx[t].step + 1]
             /\ pc[t] \in Unregistered /\ pc'[t] \notin Unregistered
    <3>1. ctx'[t].last = {cur[t]} /\ ctx'[t].step = ctx[t].step + 1 /\ cur[t].step = ctx[t].step
      BY <1>1, <2>3 DEF LineInv
    <3>2. LastOwn(t)'
      BY <1>1, <3>1 DEF LineInv, LastOwn
    <3> QED
      BY <1>1, <2>1, <2>3, <3>2 DEF LineInv
  <2> QED
    BY <2>2, <2>3
<1>4. \A e \in kept' : e.of \in 1..posts'
  BY <1>1 DEF LineageInv
<1> QED
  BY <1>2, <1>3, <1>4 DEF LineageInv

(* A task that starts, ends or loses its publication, and nobody else:      *)
(* the graph stays.                                                        *)
LEMMA LineEnds ==
  ASSUME TypeInv, LineageInv, NEW t \in Task, Unmoved(t), UNCHANGED <<kept, next>>,
         posts' \in Nat, posts <= posts', cur'[t].by = t, ctx'[t] = ctx[t],
         \/ pc'[t] = "idle"
         \/ posts < cur'[t].of /\ cur'[t].step = ctx[t].step
  PROVE  LineageInv'
<1>1. posts \in Nat /\ \A e \in kept : e.of \in 1..posts
  BY BoundsAssumption DEF TypeInv, TypeOK, LineageInv
<1>2. EdgesKept' /\ LineageIntact'
  BY DEF LineageInv, EdgesKept, LineageIntact
<1>3. ASSUME NEW u \in Task, u # t PROVE LineInv(u)'
  <2>1. pc'[u] = pc[u] /\ cur'[u] = cur[u] /\ left'[u] = left[u] /\ ctx'[u] = ctx[u]
    BY <1>3 DEF Unmoved
  <2>2. Unwritten(u)' = Unwritten(u)
    BY <2>1 DEF Unwritten
  <2> QED
    BY <2>1, <2>2 DEF LineageInv, LineInv, LastOwn, Unkept
<1>4. LineInv(t)'
  <2>1. LineInv(t)
    BY DEF LineageInv
  <2>2. CASE pc'[t] = "idle"
    BY <2>1, <2>2 DEF LineInv, LastOwn, Unkept, Unregistered
  <2>3. CASE posts < cur'[t].of /\ cur'[t].step = ctx[t].step
    <3>1. \A e \in kept : e.of # cur'[t].of
      BY <1>1, <2>3
    <3> QED
      BY <2>1, <2>3, <3>1 DEF LineInv, LastOwn, Unkept
  <2> QED
    BY <2>2, <2>3
<1>5. \A e \in kept' : e.of \in 1..posts'
  BY <1>1
<1> QED
  BY <1>2, <1>3, <1>4, <1>5 DEF LineageInv

LEMMA LineageInit == Init => LineageInv
<1> SUFFICES ASSUME Init PROVE LineageInv
  OBVIOUS
<1>1. ASSUME NEW t \in Task PROVE LineInv(t)
  BY DEF Init, LineInv, LastOwn, Unkept, Blank, Unregistered
<1> QED
  BY <1>1 DEF Init, LineageInv, EdgesKept, LineageIntact

(* A task writes the next record of its publication, or fails to.          *)
LEMMA LinePersists ==
  ASSUME TypeInv, JournalInv, LineageInv, NEW t \in Task, NEW label \in Stages \ {"idle"},
         Goto(t, label), UNCHANGED <<ctx, cur, left, posts>>, pc[t] # "idle",
         label \in Unregistered => pc[t] \in Unregistered,
         NEW e \in Record, Persist(t, e), e.of = cur[t].of, e.by = t, e.step = ctx[t].step,
         e.type \in Unwritten(t), e.type \notin Unwritten(t)', Unwritten(t)' \subseteq Unwritten(t)
  PROVE  LineageInv'
<1>1. pc \in [Task -> Stages] /\ LineInv(t) /\ EdgesKept /\ LineageIntact
  BY DEF TypeInv, TypeOK, LineageInv
<1>2. pc'[t] = label /\ Unmoved(t)
  BY <1>1 DEF Goto, Unmoved
<1>3. e \notin kept
  BY <1>1 DEF LineInv, Unkept
<1>4. LastOwn(t)
  BY <1>1 DEF LineInv
<1>5. EdgesKept' /\ LineageIntact' /\ kept' \subseteq kept \cup {e}
  BY <1>1, <1>3, <1>4, PersistLineage
<1>6. \A x \in kept' \ kept : x.of = cur[t].of /\ x.type \notin Unwritten(t)'
  BY <1>5
<1> QED
  BY <1>2, <1>5, <1>6, LineStep

(* A task that goes on without writing.                                    *)
LEMMA LineMoves ==
  ASSUME TypeInv, JournalInv, LineageInv, NEW t \in Task, Unmoved(t), pc[t] # "idle",
         UNCHANGED <<kept, next, cur, posts>>,
         Unwritten(t)' \subseteq Unwritten(t),
         \/ ctx'[t] = ctx[t] /\ (pc'[t] \in Unregistered => pc[t] \in Unregistered)
         \/ /\ ctx'[t] = [last |-> {cur[t]}, step |-> ctx[t].step + 1]
            /\ pc[t] \in Unregistered /\ pc'[t] \notin Unregistered
  PROVE  LineageInv'
<1>1. EdgesKept' /\ LineageIntact'
  BY DEF LineageInv, EdgesKept, LineageIntact
<1>2. cur'[t] = cur[t] /\ posts' = posts
      /\ \A x \in kept' \ kept : x.of = cur[t].of /\ x.type \notin Unwritten(t)'
  OBVIOUS
<1> QED
  BY <1>1, <1>2, LineStep

(* Publication of the anomalies goes on, or the event is registered.       *)
LEMMA LineAlarms ==
  ASSUME TypeInv, JournalInv, LineageInv, NEW t \in Task, NEW alarms \in AlarmLists,
         NextAlarm(t, alarms), UNCHANGED <<kept, next, cur, posts>>,
         pc[t] = "node" \/ (pc[t] = "showAlarm" /\ alarms = Tail(left[t]))
  PROVE  LineageInv'
<1>1. /\ pc \in [Task -> Stages] /\ left \in [Task -> Seq(Alarms)]
      /\ ctx \in [Task -> [last : SUBSET Record, step : 0..posts]]
  BY DEF TypeInv, TypeOK
<1>2. left'[t] = alarms /\ \A u \in Task : u # t => left'[u] = left[u]
  BY <1>1 DEF NextAlarm
<1>3. pc[t] # "idle" /\ pc[t] \in Unregistered
  BY DEF Unregistered, Stages
<1>4. {type \in Alarms : type \in Range(alarms)} \cup {"RETRY"} \subseteq Unwritten(t)
  BY DEF Unwritten, Between
<1>5. CASE alarms # <<>>
  <2>1. Goto(t, "alarm") /\ ctx' = ctx
    BY <1>5 DEF NextAlarm
  <2>2. pc'[t] = "alarm" /\ Unmoved(t)
    BY <1>1, <1>2, <2>1 DEF Goto, Unmoved
  <2>3. Unwritten(t)' = {type \in Alarms : type \in Range(alarms)} \cup {"RETRY"}
    BY <1>2, <2>2 DEF Unwritten, Before, Between
  <2> QED
    BY <1>3, <1>4, <2>1, <2>2, <2>3, LineMoves
<1>6. CASE alarms = <<>>
  <2>1. /\ Goto(t, "retry") /\ \A u \in Task : u # t => ctx'[u] = ctx[u]
        /\ ctx'[t] = [last |-> {cur[t]}, step |-> ctx[t].step + 1]
    BY <1>1, <1>6 DEF NextAlarm, Register
  <2>2. pc'[t] = "retry" /\ Unmoved(t)
    BY <1>1, <1>2, <2>1 DEF Goto, Unmoved
  <2>3. Unwritten(t)' = {"RETRY"} /\ pc'[t] \notin Unregistered
    BY <2>2 DEF Unwritten, Before, Between, Unregistered
  <2>4. Unwritten(t)' \subseteq Unwritten(t)
    BY <1>4, <2>3
  <2> QED
    BY <1>3, <2>1, <2>2, <2>3, <2>4, LineMoves
<1> QED
  BY <1>5, <1>6

LEMMA LineageStep == TypeInv /\ JournalInv /\ LineageInv /\ [Next]_vars => LineageInv'
<1> SUFFICES ASSUME TypeInv, JournalInv, LineageInv, [Next]_vars PROVE LineageInv'
  OBVIOUS
<1> USE BoundsAssumption
<1>0. /\ posts \in Nat /\ cur \in [Task -> Record] /\ pc \in [Task -> Stages]
      /\ left \in [Task -> Seq(Alarms)]
      /\ ctx \in [Task -> [last : SUBSET Record, step : 0..posts]]
      /\ \A t \in Task : TaskInv(t) /\ LineInv(t)
  BY DEF TypeInv, TypeOK, JournalInv, LineageInv
<1>1. CASE UNCHANGED vars \/ QueryFails
  <2>1. UNCHANGED <<kept, next, posts, ctx, pc, cur, left>>
    BY <1>1 DEF vars, graph, frames, QueryFails
  <2>2. EdgesKept' /\ LineageIntact'
    BY <2>1 DEF LineageInv, EdgesKept, LineageIntact
  <2>3. ASSUME NEW t \in Task PROVE LineInv(t)'
    <3>1. Unwritten(t)' = Unwritten(t)
      BY <2>1 DEF Unwritten
    <3> QED
      BY <1>0, <2>1, <3>1 DEF LineInv, LastOwn, Unkept
  <2> QED
    BY <2>1, <2>2, <2>3 DEF LineageInv
<1>2. CASE Restart
  <2>1. UNCHANGED <<kept, next, posts>>
    BY <1>2 DEF Restart
  <2>2. EdgesKept' /\ LineageIntact'
    BY <2>1 DEF LineageInv, EdgesKept, LineageIntact
  <2>3. ASSUME NEW t \in Task PROVE LineInv(t)'
    BY <1>2 DEF Restart, LineInv, LastOwn, Unkept, Blank, Unregistered
  <2> QED
    BY <2>1, <2>2, <2>3 DEF LineageInv
<1>3. ASSUME NEW t \in Task, NEW type \in Types, NEW a \in Agent \cup {NoAgent}, Post(t, type, a)
      PROVE  LineageInv'
  <2>1. /\ posts' = posts + 1 /\ UNCHANGED <<kept, next, ctx, left>>
        /\ cur'[t].of = posts + 1 /\ cur'[t].by = t /\ cur'[t].step = ctx[t].step
    BY <1>0, <1>3 DEF Post, graph
  <2>2. Unmoved(t)
    BY <1>0, <1>3 DEF Unmoved, Post, Goto
  <2>3. posts' \in Nat /\ posts <= posts' /\ posts < cur'[t].of
    BY <1>0, <2>1
  <2> QED
    BY <2>1, <2>2, <2>3, LineEnds
<1>4. ASSUME NEW t \in Task, PersistGate(t) PROVE LineageInv'
  <2> DEFINE e == About(t, "GATE")
  <2>1. /\ pc[t] = "gate" /\ Persist(t, e) /\ Goto(t, "store")
        /\ UNCHANGED <<ctx, cur, left, posts>>
    BY <1>4 DEF PersistGate, frames
  <2>2. /\ e \in Record /\ e.of = cur[t].of /\ e.type = "GATE"
        /\ e.by = t /\ e.step = ctx[t].step
    BY <1>0, AboutType DEF TypeInv, Derived, LineInv
  <2> HIDE DEF e
  <2>3. pc'[t] = "store"
    BY <1>0, <2>1 DEF Goto
  <2>4. Unwritten(t)' = Types \cup Alarms \cup {"RETRY"}
    BY <2>3 DEF Unwritten, Before
  <2>5. Unwritten(t) = {"GATE"} \cup Types \cup Alarms \cup {"RETRY"}
    BY <2>1 DEF Unwritten, Before
  <2>6. "GATE" \notin Types \cup Alarms
    BY TypesApart DEF Derived
  <2>7. "store" \in Stages \ {"idle"} /\ pc[t] \in Unregistered /\ pc[t] # "idle"
    BY <2>1 DEF Stages, Unregistered
  <2>8. e.type \in Unwritten(t) /\ e.type \notin Unwritten(t)' /\ Unwritten(t)' \subseteq Unwritten(t)
    BY <2>2, <2>4, <2>5, <2>6
  <2> QED
    BY <2>1, <2>2, <2>7, <2>8, LinePersists
<1>5. ASSUME NEW t \in Task, PersistEvent(t) PROVE LineageInv'
  <2>1. /\ pc[t] = "store" /\ Persist(t, cur[t]) /\ Goto(t, "show")
        /\ UNCHANGED <<ctx, cur, left, posts>>
    BY <1>5 DEF PersistEvent, frames
  <2>2. "show" \in Stages \ {"idle"} /\ pc[t] \in Unregistered /\ pc[t] # "idle"
    BY <2>1 DEF Stages, Unregistered
  <2>3. /\ cur[t] \in Record /\ cur[t].by = t /\ cur[t].step = ctx[t].step
        /\ cur[t].type \in Types
    BY <1>0, <2>2 DEF LineInv, TaskInv, OwnPost
  <2>4. pc'[t] = "show"
    BY <1>0, <2>1 DEF Goto
  <2>5. Unwritten(t)' = Alarms \cup {"RETRY"}
    BY <2>4 DEF Unwritten, Before
  <2>6. Unwritten(t) = Types \cup Alarms \cup {"RETRY"}
    BY <2>1 DEF Unwritten, Before
  <2>7. Types \cap (Alarms \cup {"RETRY"}) = {}
    BY TypesApart DEF Derived
  <2>8. /\ cur[t].type \in Unwritten(t) /\ cur[t].type \notin Unwritten(t)'
        /\ Unwritten(t)' \subseteq Unwritten(t) /\ cur[t].of = cur[t].of
    BY <2>3, <2>5, <2>6, <2>7
  <2> QED
    BY <2>1, <2>2, <2>3, <2>8, LinePersists
<1>6. ASSUME NEW t \in Task, PersistAlarm(t) PROVE LineageInv'
  <2> DEFINE e == About(t, Head(left[t]))
             rest == Range(Tail(left[t]))
  <2>1. /\ pc[t] = "alarm" /\ Persist(t, e) /\ Goto(t, "showAlarm")
        /\ UNCHANGED <<ctx, cur, left, posts>>
    BY <1>6 DEF PersistAlarm, frames
  <2>2. left[t] # <<>> /\ left[t] \in AlarmLists
    BY <1>0, <2>1 DEF TaskInv, Alarming
  <2>3. Head(left[t]) \in Alarms /\ rest = Range(left[t]) \ {Head(left[t])}
    BY <2>2, AlarmListType
  <2>4. Head(left[t]) \in Range(left[t])
    BY <2>2 DEF AlarmLists, Range
  <2>5. /\ e \in Record /\ e.of = cur[t].of /\ e.type = Head(left[t])
        /\ e.by = t /\ e.step = ctx[t].step
    BY <1>0, <2>3, AboutType DEF TypeInv, Derived, LineInv
  <2> HIDE DEF e
  <2>6. pc'[t] = "showAlarm" /\ left' = left
    BY <1>0, <2>1 DEF Goto
  <2>7. Unwritten(t)' = {type \in Alarms : type \in rest} \cup {"RETRY"}
    BY <2>6 DEF Unwritten, Before, Between
  <2>8. Unwritten(t) = {type \in Alarms : type \in Range(left[t])} \cup {"RETRY"}
    BY <2>1 DEF Unwritten, Before, Between
  <2>9. "showAlarm" \in Stages \ {"idle"} /\ pc[t] \in Unregistered /\ pc[t] # "idle"
    BY <2>1 DEF Stages, Unregistered
  <2> HIDE DEF rest
  <2>10. e.type \in Unwritten(t) /\ e.type \notin Unwritten(t)' /\ Unwritten(t)' \subseteq Unwritten(t)
    BY <2>3, <2>4, <2>5, <2>7, <2>8, TypesApart
  <2> QED
    BY <2>1, <2>5, <2>9, <2>10, LinePersists
<1>7. ASSUME NEW t \in Task, PersistRetry(t) PROVE LineageInv'
  <2> DEFINE e == About(t, "RETRY")
  <2>1. /\ pc[t] = "retry" /\ Persist(t, e) /\ Goto(t, "showRetry")
        /\ UNCHANGED <<ctx, cur, left, posts>>
    BY <1>7 DEF PersistRetry, frames
  <2>2. /\ e \in Record /\ e.of = cur[t].of /\ e.type = "RETRY"
        /\ e.by = t /\ e.step = ctx[t].step
    BY <1>0, AboutType DEF TypeInv, Derived, LineInv
  <2> HIDE DEF e
  <2>3. pc'[t] = "showRetry"
    BY <1>0, <2>1 DEF Goto
  <2>4. Unwritten(t)' = {} /\ "RETRY" \in Unwritten(t)
    BY <2>1, <2>3 DEF Unwritten, Before, Between
  <2>5. "showRetry" \in Stages \ {"idle"} /\ "showRetry" \notin Unregistered /\ pc[t] # "idle"
    BY <2>1 DEF Stages, Unregistered
  <2>6. e.type \in Unwritten(t) /\ e.type \notin Unwritten(t)' /\ Unwritten(t)' \subseteq Unwritten(t)
    BY <2>2, <2>4
  <2> QED
    BY <2>1, <2>2, <2>5, <2>6, LinePersists
<1>8. ASSUME NEW t \in Task, ShowEvent(t) \/ Count(t) \/ SetRedis(t) PROVE LineageInv'
  <2>1. /\ pc[t] \in {"show", "count", "cache"} /\ UNCHANGED <<kept, next, ctx, cur, left, posts>>
        /\ Goto(t, "count") \/ Goto(t, "cache") \/ Goto(t, "node")
    BY <1>8 DEF ShowEvent, Count, SetRedis, frames, graph
  <2>2. Unmoved(t) /\ pc'[t] \in {"count", "cache", "node"}
    BY <1>0, <2>1 DEF Unmoved, Goto
  <2>3. Unwritten(t)' \subseteq Unwritten(t)
    BY <2>1, <2>2 DEF Unwritten, Before, Between
  <2>4. pc[t] # "idle" /\ ctx'[t] = ctx[t] /\ pc[t] \in Unregistered
    BY <2>1 DEF Unregistered, Stages
  <2> QED
    BY <2>1, <2>2, <2>3, <2>4, LineMoves
<1>9. ASSUME NEW t \in Task, CountAgentless(t) PROVE LineageInv'
  <2>1. /\ pc[t] = "count" /\ Goto(t, "retry") /\ UNCHANGED <<kept, next, cur, left, posts>>
        /\ \A u \in Task : u # t => ctx'[u] = ctx[u]
        /\ ctx'[t] = [last |-> {cur[t]}, step |-> ctx[t].step + 1]
    BY <1>0, <1>9 DEF CountAgentless, Register, frames, graph
  <2>2. Unmoved(t) /\ pc'[t] = "retry"
    BY <1>0, <2>1 DEF Unmoved, Goto
  <2>3. Unwritten(t)' \subseteq Unwritten(t)
    BY <2>1, <2>2 DEF Unwritten, Before, Between
  <2>4. pc[t] # "idle" /\ pc[t] \in Unregistered /\ pc'[t] \notin Unregistered
    BY <2>1, <2>2 DEF Unregistered, Stages
  <2> QED
    BY <2>1, <2>2, <2>3, <2>4, LineMoves
<1>10. ASSUME NEW t \in Task, SetNode(t) PROVE LineageInv'
  <2>1. pc[t] = "node" /\ UNCHANGED <<kept, next, cur, posts>>
    BY <1>10 DEF SetNode, graph
  <2>2. PICK spike \in BOOLEAN : NextAlarm(t, Detected(metric[t], spike))
    BY <1>10 DEF SetNode
  <2> QED
    BY <2>1, <2>2, DetectedType, LineAlarms
<1>11. ASSUME NEW t \in Task, ShowAlarm(t) PROVE LineageInv'
  <2>1. /\ pc[t] = "showAlarm" /\ NextAlarm(t, Tail(left[t]))
        /\ UNCHANGED <<kept, next, cur, posts>>
    BY <1>11 DEF ShowAlarm, graph
  <2>2. Tail(left[t]) \in AlarmLists
    BY <1>0, <2>1, AlarmListType DEF TaskInv, Alarming
  <2> QED
    BY <2>1, <2>2, LineAlarms
<1>12. ASSUME NEW t \in Task, RedisFails(t) \/ ShowRetry(t) PROVE LineageInv'
  <2>1. Return(t) /\ UNCHANGED <<kept, next, ctx, posts>>
    BY <1>12 DEF RedisFails, ShowRetry, graph
  <2>2. Unmoved(t) /\ pc'[t] = "idle" /\ cur'[t].by = t
    BY <1>0, <2>1 DEF Unmoved, Return, Goto, Blank
  <2>3. posts' \in Nat /\ posts <= posts' /\ ctx'[t] = ctx[t]
    BY <1>0, <2>1
  <2> QED
    BY <2>1, <2>2, <2>3, LineEnds
<1> QED
  BY <1>1, <1>2, <1>3, <1>4, <1>5, <1>6, <1>7, <1>8, <1>9, <1>10, <1>11, <1>12 DEF Next, Proceed

(* The graph's lineage is that of the tasks: every NEXT joins an event to a *)
(* record of the same task one step later, and no record has two           *)
(* predecessors (repository.persist_event with the trace context).         *)
THEOREM LineageKept == Spec => []LineageIntact
<1>1. Init /\ [][Next]_vars => [](TypeInv /\ JournalInv)
  BY InitType, TypeStep, JournalInit, JournalStep, PTL
<1>2. LineageInv => LineageIntact
  BY DEF LineageInv
<1> QED
  BY <1>1, <1>2, LineageInit, LineageStep, PTL DEF Spec


-----------------------------------------------------------------------------
(* The states of the agents.                                               *)

(* A task is about to write the state of an agent that it took.            *)
Writing(t, a) == pc[t] \in {"cache", "node"} /\ cur[t].agent = a

(* As long as one task alone publishes for an agent, what it is about to   *)
(* write is what the memory holds, and so is what was written before.      *)
AgentInv(t, a) ==
  Writers(a) \subseteq {t} =>
    /\ Writing(t, a) => /\ memory[a] = Snapshot(t)
                        /\ pc[t] = "node" /\ RedisEnabled => redis[a] = memory[a]
    /\ ~Writing(t, a) /\ memory[a] # NoState /\ a \notin failed =>
         node[a] = memory[a] /\ (RedisEnabled => redis[a] = memory[a])

SettleInv == \A t \in Task, a \in Agent : AgentInv(t, a)

LEMMA WritersGrow ==
  ASSUME NEW a, Shown \subseteq Shown'
  PROVE  Writers(a) \subseteq Writers(a)'
<1> SUFFICES ASSUME NEW w \in Writers(a) PROVE w \in Writers(a)'
  OBVIOUS
<1>1. PICK k \in DOMAIN shown : shown[k].agent = a /\ shown[k].by = w
  BY DEF Writers
<1>2. shown[k] \in Shown'
  BY DEF Shown
<1>3. PICK j \in DOMAIN shown' : shown'[j] = shown[k]
  BY <1>2 DEF Shown
<1> QED
  BY <1>1, <1>3 DEF Writers

(* Whoever is past showing its event is a writer of its agent.             *)
LEMMA IsWriter ==
  ASSUME JournalInv, LineageInv, NEW t \in Task, pc[t] \in Between
  PROVE  t \in Writers(cur[t].agent)
<1>1. cur[t] \in Shown /\ cur[t].by = t
  BY DEF JournalInv, TaskInv, EventShown, LineageInv, LineInv
<1>2. PICK k \in DOMAIN shown : shown[k] = cur[t]
  BY <1>1 DEF Shown
<1> QED
  BY <1>1, <1>2 DEF Writers

(* What writes no state and leaves every task writing what it wrote.       *)
LEMMA SettleKeeps ==
  ASSUME SettleInv, Shown \subseteq Shown', UNCHANGED <<memory, redis, node, failed>>,
         \A u \in Task :
            \/ pc'[u] = pc[u] /\ cur'[u] = cur[u] /\ metric'[u] = metric[u]
            \/ pc[u] \notin {"cache", "node"} /\ pc'[u] \notin {"cache", "node"}
  PROVE  SettleInv'
<1> SUFFICES ASSUME NEW t \in Task, NEW a \in Agent, (Writers(a) \subseteq {t})'
             PROVE  AgentInv(t, a)'
  BY DEF SettleInv, AgentInv
<1>1. Writers(a) \subseteq {t}
  BY WritersGrow
<1>2. AgentInv(t, a)
  BY DEF SettleInv
<1>3. CASE pc'[t] = pc[t] /\ cur'[t] = cur[t] /\ metric'[t] = metric[t]
  <2>1. Snapshot(t)' = Snapshot(t)
    BY <1>3 DEF Snapshot, StateOf, RateFrom
  <2> QED
    BY <1>1, <1>2, <1>3, <2>1 DEF AgentInv, Writing
<1>4. CASE pc[t] \notin {"cache", "node"} /\ pc'[t] \notin {"cache", "node"}
  BY <1>1, <1>2, <1>4 DEF AgentInv, Writing
<1> QED
  BY <1>3, <1>4

LEMMA SettleInit == Init => SettleInv
<1> SUFFICES ASSUME Init, NEW t \in Task, NEW a \in Agent PROVE AgentInv(t, a)
  BY DEF SettleInv
<1> QED
  BY DEF Init, AgentInv, Writing

(* A step of a writer of an agent, for that agent and for the others.      *)
LEMMA WriterStep ==
  ASSUME TypeInv, JournalInv, LineageInv, SettleInv, NEW t \in Task, pc[t] \in Between,
         NEW b \in Agent, b = cur[t].agent, UNCHANGED shown,
         \A u \in Task : u # t => pc'[u] = pc[u] /\ cur'[u] = cur[u] /\ metric'[u] = metric[u],
         \A a \in Agent : a # b =>
           /\ memory'[a] = memory[a] /\ redis'[a] = redis[a] /\ node'[a] = node[a]
           /\ a \in failed' <=> a \in failed,
         pc'[t] \in {"cache", "node"} => cur'[t].agent = b,
         AgentInv(t, b)'
  PROVE  SettleInv'
<1> SUFFICES ASSUME NEW u \in Task, NEW a \in Agent PROVE AgentInv(u, a)'
  BY DEF SettleInv
<1>1. Writers(a)' = Writers(a) /\ AgentInv(u, a)
  BY DEF Writers, SettleInv
<1>2. CASE a = b
  <2>1. CASE u = t
    BY <1>2, <2>1
  <2>2. CASE u # t
    <3>1. ~(Writers(a) \subseteq {u})
      BY <1>2, <2>2, IsWriter
    <3> QED
      BY <1>1, <3>1 DEF AgentInv
  <2> QED
    BY <2>1, <2>2
<1>3. CASE a # b
  <2>1. CASE u = t
    <3>1. ~Writing(t, a) /\ ~Writing(t, a)'
      BY <1>3 DEF Writing
    <3> QED
      BY <1>1, <1>3, <2>1, <3>1 DEF AgentInv
  <2>2. CASE u # t
    <3>1. Snapshot(u)' = Snapshot(u) /\ Writing(u, a)' = Writing(u, a)
      BY <2>2 DEF Snapshot, StateOf, RateFrom, Writing
    <3> QED
      BY <1>1, <1>3, <2>2, <3>1 DEF AgentInv
  <2> QED
    BY <2>1, <2>2
<1> QED
  BY <1>2, <1>3

LEMMA SettleStep ==
  TypeInv /\ JournalInv /\ LineageInv /\ SettleInv /\ [Next]_vars => SettleInv'
<1> SUFFICES ASSUME TypeInv, JournalInv, LineageInv, SettleInv, [Next]_vars PROVE SettleInv'
  OBVIOUS
<1>0. /\ pc \in [Task -> Stages] /\ cur \in [Task -> Record] /\ metric \in [Task -> Metrics]
      /\ memory \in [Agent -> States] /\ redis \in [Agent -> States] /\ node \in [Agent -> States]
      /\ shown \in Seq(Record)
      /\ \A t \in Task : pc[t] \in {"cache", "node"} => cur[t].agent \in Agent
  BY DEF TypeInv, TypeOK
<1>1. CASE UNCHANGED vars \/ QueryFails
  <2>1. UNCHANGED <<shown, memory, redis, node, failed, pc, cur, metric>>
    BY <1>1 DEF vars, states, frames, QueryFails
  <2>2. Shown' = Shown
    BY <2>1 DEF Shown
  <2> QED
    BY <2>1, <2>2, SettleKeeps
<1>2. CASE Restart
  BY <1>2 DEF Restart, SettleInv, AgentInv, Writing
<1>3. ASSUME NEW t \in Task,
             \/ \E type \in Types, a \in Agent \cup {NoAgent} : Post(t, type, a)
             \/ PersistGate(t) \/ PersistEvent(t) \/ CountAgentless(t)
             \/ PersistAlarm(t) \/ PersistRetry(t)
      PROVE  SettleInv'
  <2>1. UNCHANGED <<shown, memory, redis, node, failed>>
    BY <1>3 DEF Post, PersistGate, PersistEvent, CountAgentless, PersistAlarm, PersistRetry, states
  <2>2. Shown' = Shown
    BY <2>1 DEF Shown
  <2>3. ASSUME NEW u \in Task, u # t
        PROVE  pc'[u] = pc[u] /\ cur'[u] = cur[u] /\ metric'[u] = metric[u]
    BY <1>0, <1>3, <2>3 DEF Post, PersistGate, PersistEvent, CountAgentless, PersistAlarm,
                            PersistRetry, frames, Goto, Register
  <2>4. pc[t] \notin {"cache", "node"} /\ pc'[t] \notin {"cache", "node"}
    BY <1>0, <1>3 DEF Post, PersistGate, PersistEvent, CountAgentless, PersistAlarm,
                      PersistRetry, Goto, Register
  <2> QED
    BY <2>1, <2>2, <2>3, <2>4, SettleKeeps
<1>4. ASSUME NEW t \in Task, ShowEvent(t) \/ ShowAlarm(t) \/ ShowRetry(t) PROVE SettleInv'
  <2>1. UNCHANGED <<memory, redis, node, failed>>
    BY <1>4 DEF ShowEvent, ShowAlarm, ShowRetry, states
  <2>2. Shown \subseteq Shown'
    <3>1. PICK e : shown' = Append(shown, e)
      BY <1>4 DEF ShowEvent, ShowAlarm, ShowRetry, Broadcast
    <3>2. /\ DOMAIN shown \subseteq DOMAIN shown'
          /\ \A k \in DOMAIN shown : shown'[k] = shown[k]
      BY <1>0, <3>1
    <3> QED
      BY <3>2 DEF Shown
  <2>3. ASSUME NEW u \in Task, u # t
        PROVE  pc'[u] = pc[u] /\ cur'[u] = cur[u] /\ metric'[u] = metric[u]
    BY <1>0, <1>4, <2>3 DEF ShowEvent, ShowAlarm, ShowRetry, NextAlarm, Return, frames, Goto,
                            Register
  <2>4. pc[t] \notin {"cache", "node"} /\ pc'[t] \notin {"cache", "node"}
    BY <1>0, <1>4 DEF ShowEvent, ShowAlarm, ShowRetry, NextAlarm, Return, Goto, Register
  <2> QED
    BY <2>1, <2>2, <2>3, <2>4, SettleKeeps
<1>5. ASSUME NEW t \in Task, Count(t) PROVE SettleInv'
  <2>0. PICK b \in Agent : b = cur[t].agent
    BY <1>0, <1>5 DEF Count, Record
  <2> DEFINE m == Ingested(rollup[b], cur[t].type)
  <2>1. /\ pc[t] = "count" /\ UNCHANGED <<shown, redis, node, failed, cur>>
        /\ metric' = [metric EXCEPT ![t] = m]
        /\ memory' = [memory EXCEPT ![b] = StateOf(m, cur[t].type)]
        /\ Goto(t, IF RedisEnabled THEN "cache" ELSE "node")
    BY <1>5, <2>0 DEF Count
  <2>2. metric'[t] = m /\ memory'[b] = StateOf(m, cur[t].type)
    BY <1>0, <2>1
  <2>4. pc'[t] = (IF RedisEnabled THEN "cache" ELSE "node")
    BY <1>0, <2>1 DEF Goto
  <2>5. Snapshot(t)' = memory'[b]
    BY <2>1, <2>2 DEF Snapshot, StateOf, RateFrom
  <2>6. AgentInv(t, b)'
    <3>1. Writing(t, b)'
      BY <2>0, <2>1, <2>4 DEF Writing
    <3>2. ~(pc'[t] = "node" /\ RedisEnabled)
      BY <2>4
    <3> QED
      BY <2>5, <3>1, <3>2, <2>1 DEF AgentInv, Writing
  <2>7. \A u \in Task : u # t => pc'[u] = pc[u] /\ cur'[u] = cur[u] /\ metric'[u] = metric[u]
    BY <1>0, <2>1 DEF Goto
  <2>8. \A a \in Agent : a # b =>
          /\ memory'[a] = memory[a] /\ redis'[a] = redis[a] /\ node'[a] = node[a]
          /\ a \in failed' <=> a \in failed
    BY <1>0, <2>1
  <2>9. pc[t] \in Between /\ cur'[t].agent = b /\ UNCHANGED shown
    BY <2>0, <2>1 DEF Between
  <2> QED
    BY <2>0, <2>6, <2>7, <2>8, <2>9, WriterStep
<1>6. ASSUME NEW t \in Task, SetRedis(t) PROVE SettleInv'
  <2>0. PICK b \in Agent : b = cur[t].agent
    BY <1>0, <1>6 DEF SetRedis
  <2>1. /\ pc[t] = "cache" /\ UNCHANGED <<shown, memory, node, failed, cur, metric>>
        /\ redis' = [redis EXCEPT ![b] = Snapshot(t)] /\ Goto(t, "node")
    BY <1>6, <2>0 DEF SetRedis, frames
  <2>2. pc'[t] = "node"
    BY <1>0, <2>1 DEF Goto
  <2>3. AgentInv(t, b) /\ Writing(t, b) /\ Writing(t, b)'
    BY <2>0, <2>1, <2>2 DEF SettleInv, Writing
  <2>4. Snapshot(t)' = Snapshot(t) /\ redis'[b] = Snapshot(t) /\ Writers(b)' = Writers(b)
    BY <1>0, <2>1, <2>2 DEF Snapshot, StateOf, RateFrom, Writers
  <2>5. AgentInv(t, b)'
    BY <2>1, <2>3, <2>4 DEF AgentInv
  <2>6. \A u \in Task : u # t => pc'[u] = pc[u] /\ cur'[u] = cur[u] /\ metric'[u] = metric[u]
    BY <1>0, <2>1 DEF Goto
  <2>7. \A a \in Agent : a # b =>
          /\ memory'[a] = memory[a] /\ redis'[a] = redis[a] /\ node'[a] = node[a]
          /\ a \in failed' <=> a \in failed
    BY <1>0, <2>1
  <2>8. pc[t] \in Between /\ cur'[t].agent = b /\ UNCHANGED shown
    BY <2>0, <2>1 DEF Between
  <2> QED
    BY <2>0, <2>5, <2>6, <2>7, <2>8, WriterStep
<1>7. ASSUME NEW t \in Task, RedisFails(t) PROVE SettleInv'
  <2>0. PICK b \in Agent : b = cur[t].agent
    BY <1>0, <1>7 DEF RedisFails
  <2>1. /\ pc[t] = "cache" /\ UNCHANGED <<shown, memory, node>> /\ Return(t)
        /\ redis' = redis \/ redis' = [redis EXCEPT ![b] = Snapshot(t)]
        /\ failed' = failed \cup {b}
    BY <1>7, <2>0 DEF RedisFails
  <2>2. pc'[t] = "idle"
    BY <1>0, <2>1 DEF Return, Goto
  <2>3. AgentInv(t, b)'
    BY <2>1, <2>2 DEF AgentInv, Writing
  <2>4. \A u \in Task : u # t => pc'[u] = pc[u] /\ cur'[u] = cur[u] /\ metric'[u] = metric[u]
    BY <1>0, <2>1 DEF Return, Goto
  <2>5. \A a \in Agent : a # b =>
          /\ memory'[a] = memory[a] /\ redis'[a] = redis[a] /\ node'[a] = node[a]
          /\ a \in failed' <=> a \in failed
    BY <1>0, <2>1
  <2>6. pc[t] \in Between /\ UNCHANGED shown /\ pc'[t] \notin {"cache", "node"}
    BY <2>1, <2>2 DEF Between
  <2> QED
    BY <2>0, <2>3, <2>4, <2>5, <2>6, WriterStep
<1>8. ASSUME NEW t \in Task, SetNode(t) PROVE SettleInv'
  <2>0. PICK b \in Agent : b = cur[t].agent
    BY <1>0, <1>8 DEF SetNode
  <2>1. /\ pc[t] = "node" /\ UNCHANGED <<shown, memory, redis, cur, metric>>
        /\ node' = node \/ node' = [node EXCEPT ![b] = Snapshot(t)]
        /\ \/ node' = [node EXCEPT ![b] = Snapshot(t)] /\ failed' = failed \ {b}
           \/ failed' = failed \cup {b}
        /\ \E alarms : NextAlarm(t, alarms)
    BY <1>8, <2>0 DEF SetNode
  <2>3. pc'[t] \in {"alarm", "retry"}
        /\ \A u \in Task : u # t => pc'[u] = pc[u]
    BY <1>0, <2>1 DEF NextAlarm, Register, Goto
  <2>4. AgentInv(t, b) /\ Writing(t, b) /\ ~Writing(t, b)' /\ Writers(b)' = Writers(b)
    BY <2>0, <2>1, <2>3 DEF SettleInv, Writing, Writers
  <2>5. b \notin failed' => node'[b] = Snapshot(t)
    BY <1>0, <2>1
  <2>6. AgentInv(t, b)'
    BY <2>1, <2>4, <2>5 DEF AgentInv
  <2>7. \A u \in Task : u # t => pc'[u] = pc[u] /\ cur'[u] = cur[u] /\ metric'[u] = metric[u]
    BY <2>1, <2>3
  <2>8. \A a \in Agent : a # b =>
          /\ memory'[a] = memory[a] /\ redis'[a] = redis[a] /\ node'[a] = node[a]
          /\ a \in failed' <=> a \in failed
    BY <1>0, <2>1
  <2>9. pc[t] \in Between /\ UNCHANGED shown /\ pc'[t] \notin {"cache", "node"}
    BY <2>1, <2>3 DEF Between
  <2> QED
    BY <2>0, <2>6, <2>7, <2>8, <2>9, WriterStep
<1> QED
  BY <1>1, <1>2, <1>3, <1>4, <1>5, <1>6, <1>7, <1>8 DEF Next, Proceed

(* The state of an agent in Redis and in the graph is the one in memory     *)
(* whenever the one task that publishes for it is idle and its last writes *)
(* went through (state_store.update_from_metrics and persist_agent_state). *)
THEOREM StatesSettle == Spec => []SoleWriterSettles
<1>1. Init /\ [][Next]_vars => [](TypeInv /\ JournalInv)
  BY InitType, TypeStep, JournalInit, JournalStep, PTL
<1>2. Init /\ [][Next]_vars => []LineageInv
  BY <1>1, LineageInit, LineageStep, PTL
<1>3. SettleInv => SoleWriterSettles
  BY DEF SettleInv, AgentInv, Writing, SoleWriterSettles
<1> QED
  BY <1>1, <1>2, <1>3, SettleInit, SettleStep, PTL DEF Spec

=============================================================================
