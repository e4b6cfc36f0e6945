---------------------------- MODULE BackendProofs ----------------------------
(***************************************************************************)
(* Proofs about the backend's runs, the dispatches to its sidecar and its  *)
(* connections to pages.                                                   *)
(* SwarmRunner, for every set of plans, number of items and number of      *)
(* failures: its types, that what SWARM_RESULT reports is what the run's   *)
(* events said, that a run ends once, that the lineage of its events is    *)
(* unbroken, that they come in the order the page's views need, and that   *)
(* its steps follow the plan and the retry path.                           *)
(* MetaPipeline, for any dispatches, traces, keys, limits and windows:     *)
(* types, the accounting of the slots, the gap between two dispatches of a *)
(* trace, both rate limits, and what the rows of insights count and the    *)
(* page is shown of them.                                                  *)
(* WsManager, for any clients, channels, tenants and broadcasts: types,    *)
(* the agreement of the channel lists with the metadata, tenant isolation, *)
(* at-most-once delivery, and that a broadcast only misses a client that a *)
(* removal moved under its loop.                                           *)
(***************************************************************************)
EXTENDS SwarmRunner, MetaPipeline, WsManager, FiniteSetTheorems, SequenceTheorems, TLAPS

Event == [type : EventTypes, step : Step, parent : Nat]

-----------------------------------------------------------------------------
(* Sequences of the model                                                  *)

(* Concatenation of sequences over a set.                                  *)
LEMMA Concat ==
  ASSUME NEW S, NEW s \in Seq(S), NEW t \in Seq(S)
  PROVE  /\ s \o t \in Seq(S)
         /\ Len(s \o t) = Len(s) + Len(t)
         /\ \A i \in 1..Len(s) : (s \o t)[i] = s[i]
         /\ \A i \in 1..Len(t) : (s \o t)[Len(s) + i] = t[i]
OBVIOUS

(* The steps of a list of agents.                                          *)
LEMMA StepsType ==
  ASSUME NEW agents \in Seq(Agents), NEW b \in BOOLEAN
  PROVE  Steps(agents, b) \in Seq(Step)
<1>1. PICK n \in Nat : DOMAIN agents = 1..n
  OBVIOUS
<1>2. \A i \in 1..n : agents[i] \in Agents
  BY <1>1
<1> QED
  BY <1>1, <1>2 DEF Steps, Step

(* A plan is a sequence of agents.                                         *)
LEMMA PlannedType ==
  ASSUME NEW custom \in Customs \cup {<<>>}, NEW hinted \in BOOLEAN
  PROVE  Planned(custom, hinted) \in Seq(Agents)
<1>1. custom \in Seq(Agents)
  <2>1. CASE custom \in Customs
    BY <2>1, CustomsAssumption
  <2>2. CASE custom = <<>>
    BY <2>2
  <2> QED
    BY <2>1, <2>2
<1>2. <<"fetch", "quality">> \in Seq(Agents) /\ Default \in Seq(Agents)
  BY DEF Agents, Default
<1> QED
  BY <1>1, <1>2 DEF Planned

(* What Chain appends to the events, and an emit of all or of the first n  *)
(* of its types.                                                           *)
LEMMA ChainType ==
  ASSUME NEW types \in Seq(EventTypes), NEW s \in Step, TypeOK
  PROVE  /\ Chain(types, s) \in Seq(Event)
         /\ Len(Chain(types, s)) = Len(types)
         /\ \A i \in 1..Len(types) : Chain(types, s)[i].type = types[i]
<1>1. PICK n \in Nat : DOMAIN types = 1..n /\ Len(types) = n
  OBVIOUS
<1>2. \A i \in 1..n : types[i] \in EventTypes
  BY <1>1
<1>3. previous \in Nat /\ Len(emitted) \in Nat
  BY DEF TypeOK
<1> QED
  BY <1>1, <1>2, <1>3 DEF Chain, Event

LEMMA EmitType ==
  ASSUME TypeOK, NEW types \in Seq(EventTypes), NEW s \in Step, Emit(types, s)
  PROVE  /\ emitted' \in Seq(Event) /\ previous' \in 0..Len(emitted')
         /\ emitted' = emitted \o Chain(types, s)
         /\ faults' \in 0..MaxFaults
<1>1. emitted \in Seq(Event)
  BY DEF TypeOK, Event
<1>2. emitted' \in Seq(Event) /\ Len(emitted') \in Nat
  BY <1>1, ChainType, Concat DEF Emit
<1> QED
  BY <1>2 DEF Emit, TypeOK

LEMMA EmitRaisingType ==
  ASSUME TypeOK, NEW types \in Seq(EventTypes), NEW s \in Step, EmitRaising(types, s)
  PROVE  /\ emitted' \in Seq(Event) /\ previous' \in 0..Len(emitted')
         /\ faults' \in 0..MaxFaults
         /\ \E n \in 1..Len(types) : emitted' = emitted \o Chain(SubSeq(types, 1, n), s)
<1>1. emitted \in Seq(Event) /\ previous \in 0..Len(emitted)
  BY DEF TypeOK, Event
<1>2. PICK n \in DOMAIN types :
        /\ emitted' = emitted \o Chain(SubSeq(types, 1, n), s)
        /\ previous' = IF n = 1 THEN previous ELSE Len(emitted) + n - 1
  BY DEF EmitRaising
<1>3. n \in 1..Len(types)
  OBVIOUS
<1>4. SubSeq(types, 1, n) \in Seq(EventTypes) /\ Len(SubSeq(types, 1, n)) = n
  BY <1>3
<1>a. PICK c \in Seq(Event) : c = Chain(SubSeq(types, 1, n), s) /\ Len(c) = n
  BY <1>4, ChainType
<1>5. emitted' \in Seq(Event) /\ Len(emitted') = Len(emitted) + n
  BY <1>1, <1>2, <1>a, Concat
<1>6. previous' \in 0..Len(emitted')
  BY <1>1, <1>2, <1>3, <1>5
<1>7. faults' \in 0..MaxFaults
  BY FaultsAssumption DEF EmitRaising, TypeOK
<1> QED
  BY <1>2, <1>3, <1>5, <1>6, <1>7

-----------------------------------------------------------------------------
(* Types                                                                   *)

(* A run that goes on has failed its step at most once.                    *)
Attempts == pc \notin {"done", "aborted"} => attempt <= MaxStepRetries

TypeInv == TypeOK /\ Attempts

LEMMA InitTypes == Init => TypeInv
<1> SUFFICES ASSUME Init PROVE TypeInv
  OBVIOUS
<1>1. plan \in Seq(Agents)
  BY PlannedType DEF Init
<1>2. queue \in Seq(Step)
  BY <1>1, StepsType DEF Init
<1>3. step \in Step
  BY DEF Init, NoStep, Step, Agents
<1>4. /\ report \in Seq([status : {"completed", "failed"}, completed : Nat,
                         failed : Nat, degraded : BOOLEAN])
      /\ results \in Seq({"completed", "failed"})
      /\ emitted \in Seq([type : EventTypes, step : Step, parent : Nat])
      /\ previous \in 0..Len(emitted)
  BY DEF Init
<1>b. low \in BOOLEAN /\ applied \in BOOLEAN
  BY Zenon DEF Init
<1>c. items \in Nat
  BY ItemsAssumption DEF Init
<1>5. /\ pc = "start" /\ attempt = 0
      /\ have \subseteq {"raw", "normalized", "quality", "final"}
      /\ faults \in 0..MaxFaults
  BY FaultsAssumption DEF Init
<1>a. /\ attempt \in 0..(MaxStepRetries + 1)
      /\ pc \in {"start", "take", "execute", "except", "done", "aborted"}
  BY <1>5 DEF MaxStepRetries
<1>6. TypeOK
  BY <1>1, <1>2, <1>3, <1>4, <1>5, <1>a, <1>b, <1>c, Zenon DEF TypeOK
<1> QED
  BY <1>5, <1>6 DEF TypeInv, Attempts, MaxStepRetries

LEMMA CountNat ==
  ASSUME NEW S, NEW r \in Seq(S), NEW x
  PROVE  Cardinality({i \in DOMAIN r : r[i] = x}) \in Nat
<1>1. DOMAIN r = 1..Len(r) /\ Len(r) \in Nat
  OBVIOUS
<1>2. IsFiniteSet(1..Len(r))
  BY <1>1, FS_Interval
<1>3. IsFiniteSet({i \in DOMAIN r : r[i] = x})
  BY <1>1, <1>2, FS_Subset
<1> QED
  BY <1>3, FS_CardinalityType

LEMMA ReportType ==
  ASSUME results' \in Seq({"completed", "failed"}), applied \in BOOLEAN,
         NEW st \in {"completed", "failed"}, Report(st)
  PROVE  report' \in Seq([status : {"completed", "failed"}, completed : Nat,
                          failed : Nat, degraded : BOOLEAN])
<1>1. \A x : Count(x) \in Nat
  BY CountNat DEF Count
<1>2. Count("completed") \in Nat /\ Count("failed") \in Nat
  BY <1>1
<1> QED
  BY <1>2 DEF Report

(* Every action keeps the types.                                           *)
LEMMA NextTypes == TypeInv /\ [Next]_vars => TypeInv'
<1> SUFFICES ASSUME TypeOK, Attempts, [Next]_vars PROVE TypeOK' /\ Attempts'
  BY DEF TypeInv
<1> USE DEF MaxStepRetries
<1>0. NoStep \in Step
  BY DEF NoStep, Step, Agents
<1>1. CASE Begin
  <2>1. <<"SWARM_STARTED", "PLANNER_DECISION">> \in Seq(EventTypes)
    BY DEF EventTypes
  <2>2. /\ emitted' \in Seq(Event) /\ previous' \in 0..Len(emitted')
        /\ faults' \in 0..MaxFaults
    BY <1>0, <1>1, <2>1, EmitType DEF Begin
  <2> QED
    BY <1>1, <2>2 DEF Begin, TypeOK, Event, Attempts
<1>2. CASE SkipStep
  <2>1. <<"SKIP_STEP">> \in Seq(EventTypes)
    BY DEF EventTypes
  <2>2. step' \in Step /\ queue' \in Seq(Step)
    BY <1>2 DEF SkipStep, TypeOK
  <2>3. /\ emitted' \in Seq(Event) /\ previous' \in 0..Len(emitted')
        /\ faults' \in 0..MaxFaults
    BY <1>2, <2>1, <2>2, EmitType, EmitRaisingType DEF SkipStep
  <2> QED
    BY <1>2, <2>2, <2>3 DEF SkipStep, TypeOK, Event, Attempts
<1>3. CASE StartStep
  <2>1. <<"AGENT_STEP_STARTED">> \in Seq(EventTypes)
    BY DEF EventTypes
  <2>2. step' \in Step /\ queue' \in Seq(Step)
    BY <1>3 DEF StartStep, TypeOK
  <2>3. /\ emitted' \in Seq(Event) /\ previous' \in 0..Len(emitted')
        /\ faults' \in 0..MaxFaults
    BY <1>3, <2>1, <2>2, EmitType, EmitRaisingType DEF StartStep
  <2> QED
    BY <1>3, <2>2, <2>3 DEF StartStep, TypeOK, Event, Attempts
<1>4. CASE Complete
  <2>1. /\ <<"AGENT_STEP_COMPLETED">> \in Seq(EventTypes)
        /\ <<"AGENT_STEP_COMPLETED", "INSERT_RETRY_PATH">> \in Seq(EventTypes)
    BY DEF EventTypes
  <2>2. step \in Step /\ queue \in Seq(Step)
    BY DEF TypeOK
  <2>3. /\ emitted' \in Seq(Event) /\ previous' \in 0..Len(emitted')
        /\ faults' \in 0..MaxFaults
    BY <1>4, <2>1, <2>2, EmitType, EmitRaisingType DEF Complete
  <2>4. AdaptivePlan \in Seq(Step)
    <3>1. Default \in Seq(Agents)
      BY DEF Default, Agents
    <3> QED
      BY <3>1, StepsType DEF AdaptivePlan
  <2>5. queue' \in Seq(Step) /\ applied' \in BOOLEAN
    <3>1. AdaptivePlan \o queue \in Seq(Step)
      BY <2>2, <2>4
    <3> QED
      BY <1>4, <2>2, <3>1 DEF Complete, TypeOK
  <2>6. have' \subseteq {"raw", "normalized", "quality", "final"}
    <3>1. step.agent \in Agents /\ step.agent # "unknown"
      BY <1>4, <2>2 DEF Complete, Raises, Step
    <3>2. Output(step) \subseteq {"raw", "normalized", "quality", "final"}
      BY <3>1 DEF Output, Agents
    <3> QED
      BY <1>4, <3>2 DEF Complete, TypeOK
  <2>7. results' \in Seq({"completed", "failed"})
    BY <1>4 DEF Complete, TypeOK
  <2>8. pc' \in {"take", "except"}
    BY <1>4 DEF Complete
  <2> QED
    BY <1>4, <2>3, <2>5, <2>6, <2>7, <2>8 DEF Complete, TypeOK, Event, Attempts
<1>5. CASE Fail
  BY <1>5 DEF Fail, TypeOK, Attempts
<1>6. CASE Retry
  <2>1. <<"AGENT_STEP_RETRY", "RETRY">> \in Seq(EventTypes)
    BY DEF EventTypes
  <2>2. step \in Step
    BY DEF TypeOK
  <2>3. /\ emitted' \in Seq(Event) /\ previous' \in 0..Len(emitted')
        /\ faults' \in 0..MaxFaults
    BY <1>6, <2>1, <2>2, EmitType, EmitRaisingType DEF Retry
  <2> QED
    BY <1>6, <2>3 DEF Retry, TypeOK, Event, Attempts
<1>7. CASE GiveUp
  <2>1. /\ <<"AGENT_STEP_FAILED", "SWARM_FAILED", "SWARM_RESULT">> \in Seq(EventTypes)
        /\ <<"AGENT_STEP_FAILED">> \in Seq(EventTypes)
    BY DEF EventTypes
  <2>2. step \in Step
    BY DEF TypeOK
  <2>3. /\ emitted' \in Seq(Event) /\ previous' \in 0..Len(emitted')
        /\ faults' \in 0..MaxFaults
    BY <1>7, <2>1, <2>2, EmitType, EmitRaisingType DEF GiveUp
  <2>4. results' \in Seq({"completed", "failed"})
    BY <1>7 DEF GiveUp, TypeOK
  <2>5. report' \in Seq([status : {"completed", "failed"}, completed : Nat,
                         failed : Nat, degraded : BOOLEAN])
    BY <1>7, <2>4, ReportType DEF GiveUp, TypeOK
  <2>6. attempt' \in 0..2
    BY <1>7 DEF GiveUp, TypeOK, Attempts
  <2> QED
    BY <1>7, <2>3, <2>4, <2>5, <2>6 DEF GiveUp, TypeOK, Event, Attempts
<1>8. CASE Finish
  <2>1. <<"SWARM_COMPLETED", "SWARM_RESULT">> \in Seq(EventTypes)
    BY DEF EventTypes
  <2>2. /\ emitted' \in Seq(Event) /\ previous' \in 0..Len(emitted')
        /\ faults' \in 0..MaxFaults
    BY <1>0, <1>8, <2>1, EmitType DEF Finish
  <2>3. results' \in Seq({"completed", "failed"})
    BY <1>8 DEF Finish, TypeOK
  <2>4. report' \in Seq([status : {"completed", "failed"}, completed : Nat,
                         failed : Nat, degraded : BOOLEAN])
    BY <1>8, <2>3, ReportType DEF Finish, TypeOK
  <2> QED
    BY <1>8, <2>2, <2>3, <2>4 DEF Finish, TypeOK, Event, Attempts
<1>9. CASE UNCHANGED vars
  BY <1>9 DEF vars, TypeOK, Attempts
<1> QED
  BY <1>1, <1>2, <1>3, <1>4, <1>5, <1>6, <1>7, <1>8, <1>9 DEF Next

(* Types hold in every run: of the plan's steps, of the events, and of the *)
(* attempts, of which no step has more than two.                           *)
THEOREM TypeCorrect == Spec => []TypeOK
<1>1. TypeInv => TypeOK
  BY DEF TypeInv
<1> QED
  BY <1>1, InitTypes, NextTypes, PTL DEF Spec

-----------------------------------------------------------------------------
(* Counting results and events                                             *)

Tally(status) == {i \in DOMAIN results : results[i] = status}

LEMMA PlacesFinite ==
  ASSUME TypeOK, NEW x
  PROVE  IsFiniteSet(Places(x)) /\ Places(x) \subseteq 1..Len(emitted)
<1>1. DOMAIN emitted = 1..Len(emitted) /\ Len(emitted) \in Nat
  BY DEF TypeOK
<1>2. IsFiniteSet(1..Len(emitted))
  BY <1>1, FS_Interval
<1>3. Places(x) \subseteq 1..Len(emitted)
  BY <1>1 DEF Places
<1> QED
  BY <1>2, <1>3, FS_Subset

(* One more result.                                                        *)
LEMMA OneMoreResult ==
  ASSUME TypeOK, NEW v \in {"completed", "failed"}, results' = Append(results, v),
         NEW x
  PROVE  Cardinality(Tally(x)') = Cardinality(Tally(x)) + (IF v = x THEN 1 ELSE 0)
<1>1. /\ DOMAIN results = 1..Len(results) /\ Len(results) \in Nat
      /\ DOMAIN results' = 1..(Len(results) + 1)
      /\ \A i \in 1..Len(results) : results'[i] = results[i]
      /\ results'[Len(results) + 1] = v
  BY DEF TypeOK
<1>2. IsFiniteSet(Tally(x)) /\ Len(results) + 1 \notin Tally(x)
  <2>1. IsFiniteSet(1..Len(results)) /\ Tally(x) \subseteq 1..Len(results)
    BY <1>1, FS_Interval DEF Tally
  <2> QED
    BY <1>1, <2>1, FS_Subset
<1>3. Cardinality(Tally(x)) \in Nat
  BY <1>2, FS_CardinalityType
<1>4. CASE v = x
  <2>1. Tally(x)' = Tally(x) \cup {Len(results) + 1}
    BY <1>1, <1>4 DEF Tally
  <2> QED
    BY <1>2, <1>4, <2>1, FS_AddElement
<1>5. CASE v # x
  <2>1. Tally(x)' = Tally(x)
    BY <1>1, <1>5 DEF Tally
  <2> QED
    BY <1>3, <1>5, <2>1
<1> QED
  BY <1>4, <1>5

LEMMA TallyNat ==
  ASSUME TypeOK, NEW x
  PROVE  Cardinality(Tally(x)) \in Nat
BY CountNat DEF TypeOK, Tally

(* More events: those of types not among them stay where they were, and a  *)
(* type that occurs once among them gains a place.                         *)
LEMMA MoreEvents ==
  ASSUME TypeOK, NEW types \in Seq(EventTypes), NEW s \in Step,
         emitted' = emitted \o Chain(types, s)
  PROVE  /\ Len(emitted') = Len(emitted) + Len(types)
         /\ \A i \in 1..Len(types) : emitted'[Len(emitted) + i].type = types[i]
         /\ \A x : (\A i \in 1..Len(types) : types[i] # x) => Places(x)' = Places(x)
         /\ \A x : \A k \in 1..Len(types) :
              types[k] = x /\ (\A i \in 1..Len(types) : types[i] = x => i = k) =>
                /\ Places(x)' = Places(x) \cup {Len(emitted) + k}
                /\ Cardinality(Places(x)') = Cardinality(Places(x)) + 1
<1>1. PICK c \in Seq(Event) : /\ c = Chain(types, s) /\ Len(c) = Len(types)
                              /\ \A i \in 1..Len(types) : c[i].type = types[i]
  BY ChainType
<1>2. emitted \in Seq(Event) /\ Len(emitted) \in Nat /\ Len(types) \in Nat
  BY DEF TypeOK, Event
<1>3. /\ Len(emitted') = Len(emitted) + Len(types)
      /\ \A i \in 1..Len(emitted) : emitted'[i] = emitted[i]
      /\ \A i \in 1..Len(types) : emitted'[Len(emitted) + i] = c[i]
      /\ emitted' \in Seq(Event)
  <2>1. emitted' = emitted \o c
    BY <1>1
  <2> HIDE DEF Event
  <2>2. /\ emitted \o c \in Seq(Event)
        /\ Len(emitted \o c) = Len(emitted) + Len(c)
        /\ \A i \in 1..Len(emitted) : (emitted \o c)[i] = emitted[i]
        /\ \A i \in 1..Len(c) : (emitted \o c)[Len(emitted) + i] = c[i]
    BY <1>2, Concat
  <2> QED
    BY <1>1, <2>1, <2>2
<1>4. /\ DOMAIN emitted = 1..Len(emitted)
      /\ DOMAIN emitted' = 1..(Len(emitted) + Len(types))
  BY <1>2, <1>3
<1>5. \A j \in DOMAIN emitted' : j \in 1..Len(emitted) \/
         \E i \in 1..Len(types) : j = Len(emitted) + i
  <2> SUFFICES ASSUME NEW j \in DOMAIN emitted', j \notin 1..Len(emitted)
               PROVE  \E i \in 1..Len(types) : j = Len(emitted) + i
    OBVIOUS
  <2>1. j - Len(emitted) \in 1..Len(types) /\ j = Len(emitted) + (j - Len(emitted))
    BY <1>2, <1>4
  <2> QED
    BY <2>1
<1>6. ASSUME NEW x
      PROVE  Places(x)' = Places(x) \cup
               {Len(emitted) + i : i \in {k \in 1..Len(types) : types[k] = x}}
  <2>1. Places(x) = {j \in 1..Len(emitted) : emitted[j].type = x}
    BY <1>4 DEF Places
  <2>2. Places(x)' = {j \in DOMAIN emitted' : emitted'[j].type = x}
    BY DEF Places
  <2>3. \A i \in 1..Len(types) : /\ Len(emitted) + i \in DOMAIN emitted'
                                 /\ emitted'[Len(emitted) + i].type = types[i]
    BY <1>1, <1>2, <1>3, <1>4
  <2>4. \A j \in 1..Len(emitted) : j \in DOMAIN emitted' /\ emitted'[j] = emitted[j]
    BY <1>2, <1>3, <1>4
  <2> DEFINE New == {k \in 1..Len(types) : types[k] = x}
  <2>5. ASSUME NEW j \in Places(x)'
        PROVE  j \in Places(x) \/ \E i \in New : j = Len(emitted) + i
    <3>1. j \in DOMAIN emitted' /\ emitted'[j].type = x
      BY <2>2, <2>5
    <3>2. CASE j \in 1..Len(emitted)
      <4>1. emitted[j].type = x
        BY <2>4, <3>1, <3>2
      <4> QED
        BY <2>1, <3>2, <4>1
    <3>3. CASE \E i \in 1..Len(types) : j = Len(emitted) + i
      <4>1. PICK i \in 1..Len(types) : j = Len(emitted) + i
        BY <3>3
      <4>2. types[i] = x
        BY <2>3, <3>1, <4>1
      <4> QED
        BY <4>1, <4>2
    <3> QED
      BY <1>5, <3>1, <3>2, <3>3
  <2>6. ASSUME NEW i \in New
        PROVE  Len(emitted) + i \in Places(x)'
    BY <2>2, <2>3
  <2>7. Places(x) \subseteq Places(x)'
    BY <2>1, <2>2, <2>4
  <2> QED
    BY <2>5, <2>6, <2>7
<1>7. ASSUME NEW x, \A i \in 1..Len(types) : types[i] # x
      PROVE  Places(x)' = Places(x)
  BY <1>6, <1>7
<1>8. ASSUME NEW x, NEW k \in 1..Len(types), types[k] = x,
             \A i \in 1..Len(types) : types[i] = x => i = k
      PROVE  /\ Places(x)' = Places(x) \cup {Len(emitted) + k}
             /\ Cardinality(Places(x)') = Cardinality(Places(x)) + 1
  <2>1. {i \in 1..Len(types) : types[i] = x} = {k}
    BY <1>8
  <2>2. Places(x)' = Places(x) \cup {Len(emitted) + k}
    BY <1>6, <2>1
  <2>3. Len(emitted) + k \notin 1..Len(emitted)
    BY <1>2
  <2> QED
    BY <2>2, <2>3, PlacesFinite, FS_AddElement
<1> QED
  BY <1>1, <1>3, <1>7, <1>8

-----------------------------------------------------------------------------
(* What a run reports, and that it ends once                               *)

Counted == {"AGENT_STEP_COMPLETED", "AGENT_STEP_FAILED", "INSERT_RETRY_PATH",
            "SWARM_FAILED", "SWARM_COMPLETED"}

(* The results and the events agree as the run goes; before its end there  *)
(* is no ending among the events, and no report.                           *)
Agree ==
  /\ Cardinality(Tally("completed")) = Cardinality(Places("AGENT_STEP_COMPLETED"))
  /\ Cardinality(Tally("failed")) = Cardinality(Places("AGENT_STEP_FAILED"))
  /\ applied <=> Places("INSERT_RETRY_PATH") # {}

Open == report = <<>> /\ Places("SWARM_FAILED") = {} /\ Places("SWARM_COMPLETED") = {}

RunInv ==
  /\ TypeInv
  /\ Agree
  /\ pc # "done" => Open
  /\ ReportAgrees
  /\ EndsOnce

(* Before its end a run keeps both properties.                             *)
LEMMA OpenHolds == Open => ReportAgrees /\ EndsOnce
BY DEF Open, ReportAgrees, EndsOnce

LEMMA InitRun == Init => RunInv
<1> SUFFICES ASSUME Init PROVE RunInv
  OBVIOUS
<1>1. \A x : Places(x) = {} /\ Tally(x) = {}
  BY DEF Init, Places, Tally
<1>2. Agree
  BY <1>1, FS_EmptySet DEF Init, Agree
<1>3. Open
  BY <1>1 DEF Init, Open
<1> QED
  BY <1>2, <1>3, InitTypes, OpenHolds DEF RunInv

(* An event is published whether or not its emit raises.                   *)
LEMMA EmitOne ==
  ASSUME TypeOK, NEW a \in EventTypes, NEW s \in Step,
         Emit(<<a>>, s) \/ EmitRaising(<<a>>, s)
  PROVE  emitted' = emitted \o Chain(<<a>>, s)
<1>1. <<a>> \in Seq(EventTypes) /\ Len(<<a>>) = 1
  OBVIOUS
<1>2. CASE Emit(<<a>>, s)
  BY <1>2 DEF Emit
<1>3. CASE EmitRaising(<<a>>, s)
  <2>1. PICK n \in 1..1 : emitted' = emitted \o Chain(SubSeq(<<a>>, 1, n), s)
    BY <1>1, <1>3, EmitRaisingType
  <2>2. n = 1
    OBVIOUS
  <2>3. SubSeq(<<a>>, 1, Len(<<a>>)) = <<a>>
    <3> HIDE DEF EventTypes
    <3> QED
      BY <1>1, SubSeqFull
  <2> QED
    BY <1>1, <2>1, <2>2, <2>3
<1> QED
  BY <1>2, <1>3

(* Events that nothing counts.                                             *)
LEMMA Uncounted ==
  ASSUME TypeOK, NEW types \in Seq(EventTypes), NEW s \in Step,
         emitted' = emitted \o Chain(types, s),
         \A i \in 1..Len(types) : types[i] \notin Counted
  PROVE  \A x \in Counted : Places(x)' = Places(x)
BY MoreEvents

(* A step that counts nothing and goes on.                                 *)
LEMMA QuietStep ==
  ASSUME RunInv, pc # "done", pc' # "done", TypeInv',
         UNCHANGED <<results, applied, report>>,
         \A x \in Counted : Places(x)' = Places(x)
  PROVE  RunInv'
<1>1. Tally("completed")' = Tally("completed") /\ Tally("failed")' = Tally("failed")
  BY DEF Tally
<1>2. Agree'
  BY <1>1 DEF RunInv, Agree, Counted
<1>3. Open'
  BY DEF RunInv, Open, Counted
<1>4. ReportAgrees' /\ EndsOnce'
  BY <1>3, OpenHolds, PTL
<1> QED
  BY <1>2, <1>3, <1>4 DEF RunInv

LEMMA NextRun == RunInv /\ [Next]_vars => RunInv'
<1> SUFFICES ASSUME RunInv, [Next]_vars PROVE RunInv'
  OBVIOUS
<1>0. TypeOK /\ TypeInv' /\ step \in Step /\ NoStep \in Step
  BY NextTypes DEF RunInv, TypeInv, TypeOK, NoStep, Step, Agents
<1>1. CASE Begin
  <2>1. /\ <<"SWARM_STARTED", "PLANNER_DECISION">> \in Seq(EventTypes)
        /\ \A i \in 1..2 : <<"SWARM_STARTED", "PLANNER_DECISION">>[i] \notin Counted
    BY DEF EventTypes, Counted
  <2>2. emitted' = emitted \o Chain(<<"SWARM_STARTED", "PLANNER_DECISION">>, NoStep)
    BY <1>1 DEF Begin, Emit
  <2>3. \A x \in Counted : Places(x)' = Places(x)
    BY <1>0, <2>1, <2>2, Uncounted
  <2> QED
    BY <1>0, <1>1, <2>3, QuietStep DEF Begin
<1>2. CASE SkipStep
  <2>1. /\ <<"SKIP_STEP">> \in Seq(EventTypes) /\ "SKIP_STEP" \in EventTypes
        /\ \A i \in 1..1 : <<"SKIP_STEP">>[i] \notin Counted
    BY DEF EventTypes, Counted
  <2>2. step' \in Step
    BY <1>0 DEF TypeInv, TypeOK
  <2>3. emitted' = emitted \o Chain(<<"SKIP_STEP">>, step')
    BY <1>0, <1>2, <2>1, <2>2, EmitOne DEF SkipStep
  <2>4. \A x \in Counted : Places(x)' = Places(x)
    BY <1>0, <2>1, <2>2, <2>3, Uncounted
  <2> QED
    BY <1>0, <1>2, <2>4, QuietStep DEF SkipStep
<1>3. CASE StartStep
  <2>1. /\ <<"AGENT_STEP_STARTED">> \in Seq(EventTypes)
        /\ "AGENT_STEP_STARTED" \in EventTypes
        /\ \A i \in 1..1 : <<"AGENT_STEP_STARTED">>[i] \notin Counted
    BY DEF EventTypes, Counted
  <2>2. step' \in Step
    BY <1>0 DEF TypeInv, TypeOK
  <2>3. emitted' = emitted \o Chain(<<"AGENT_STEP_STARTED">>, step')
    BY <1>0, <1>3, <2>1, <2>2, EmitOne DEF StartStep
  <2>4. \A x \in Counted : Places(x)' = Places(x)
    BY <1>0, <2>1, <2>2, <2>3, Uncounted
  <2> QED
    BY <1>0, <1>3, <2>4, QuietStep DEF StartStep
<1>4. CASE Complete
  <2>1. /\ <<"AGENT_STEP_COMPLETED">> \in Seq(EventTypes)
        /\ <<"AGENT_STEP_COMPLETED", "INSERT_RETRY_PATH">> \in Seq(EventTypes)
        /\ "AGENT_STEP_COMPLETED" \in EventTypes
    BY DEF EventTypes
  <2>2. /\ Cardinality(Tally("completed")') = Cardinality(Tally("completed")) + 1
        /\ Cardinality(Tally("failed")') = Cardinality(Tally("failed"))
    <3>1. results' = Append(results, "completed")
      BY <1>4 DEF Complete
    <3>2. /\ Cardinality(Tally("completed")') = Cardinality(Tally("completed")) + 1
          /\ Cardinality(Tally("failed")') = Cardinality(Tally("failed")) + 0
      BY <1>0, <3>1, OneMoreResult
    <3> QED
      BY <1>0, <3>2, TallyNat
  <2>3. CASE /\ emitted' = emitted \o Chain(<<"AGENT_STEP_COMPLETED">>, step)
             /\ UNCHANGED applied
    <3> DEFINE types == <<"AGENT_STEP_COMPLETED">>
    <3>1. /\ types \in Seq(EventTypes) /\ Len(types) = 1
          /\ types[1] = "AGENT_STEP_COMPLETED" /\ 1 \in 1..Len(types)
          /\ \A i \in 1..Len(types) : i = 1
          /\ emitted' = emitted \o Chain(types, step)
      BY <2>1, <2>3
    <3> HIDE DEF types
    <3>2. /\ \A x \in Counted \ {"AGENT_STEP_COMPLETED"} : Places(x)' = Places(x)
          /\ Cardinality(Places("AGENT_STEP_COMPLETED")') =
               Cardinality(Places("AGENT_STEP_COMPLETED")) + 1
      BY <1>0, <3>1, MoreEvents
    <3>3. Agree'
      BY <2>2, <2>3, <3>2 DEF RunInv, Agree, Counted
    <3>4. Open'
      BY <1>4, <3>2 DEF RunInv, Open, Counted, Complete
    <3> QED
      BY <1>0, <3>3, <3>4, OpenHolds, PTL DEF RunInv
  <2>4. CASE /\ emitted' = emitted \o
                  Chain(<<"AGENT_STEP_COMPLETED", "INSERT_RETRY_PATH">>, step)
             /\ applied' = TRUE
    <3> DEFINE types == <<"AGENT_STEP_COMPLETED", "INSERT_RETRY_PATH">>
    <3>1. /\ types \in Seq(EventTypes) /\ Len(types) = 2
          /\ types[1] = "AGENT_STEP_COMPLETED" /\ 1 \in 1..Len(types)
          /\ types[2] = "INSERT_RETRY_PATH" /\ 2 \in 1..Len(types)
          /\ \A i \in 1..Len(types) : i = 1 \/ i = 2
          /\ emitted' = emitted \o Chain(types, step)
      BY <2>1, <2>4
    <3> HIDE DEF types
    <3>2. /\ \A x \in Counted \ {"AGENT_STEP_COMPLETED", "INSERT_RETRY_PATH"} :
               Places(x)' = Places(x)
          /\ Cardinality(Places("AGENT_STEP_COMPLETED")') =
               Cardinality(Places("AGENT_STEP_COMPLETED")) + 1
          /\ Places("INSERT_RETRY_PATH")' =
               Places("INSERT_RETRY_PATH") \cup {Len(emitted) + 2}
      <4>1. \A x \in Counted \ {"AGENT_STEP_COMPLETED", "INSERT_RETRY_PATH"} :
              \A i \in 1..Len(types) : types[i] # x
        BY <3>1 DEF Counted
      <4>2. \A x \in Counted \ {"AGENT_STEP_COMPLETED", "INSERT_RETRY_PATH"} :
              Places(x)' = Places(x)
        BY <1>0, <3>1, <4>1, MoreEvents
      <4>3. Cardinality(Places("AGENT_STEP_COMPLETED")') =
              Cardinality(Places("AGENT_STEP_COMPLETED")) + 1
        BY <1>0, <3>1, MoreEvents
      <4>4. Places("INSERT_RETRY_PATH")' =
              Places("INSERT_RETRY_PATH") \cup {Len(emitted) + 2}
        BY <1>0, <3>1, MoreEvents
      <4> QED
        BY <4>2, <4>3, <4>4
    <3>3. Agree'
      BY <2>2, <2>4, <3>2 DEF RunInv, Agree, Counted
    <3>4. Open'
      BY <1>4, <3>2 DEF RunInv, Open, Counted, Complete
    <3> QED
      BY <1>0, <3>3, <3>4, OpenHolds, PTL DEF RunInv
  <2>5. \/ EmitRaising(<<"AGENT_STEP_COMPLETED">>, step) /\ UNCHANGED applied
        \/ Emit(<<"AGENT_STEP_COMPLETED">>, step) /\ UNCHANGED applied
        \/ Emit(<<"AGENT_STEP_COMPLETED", "INSERT_RETRY_PATH">>, step) /\ applied' = TRUE
    BY <1>4 DEF Complete
  <2> QED
    BY <1>0, <2>1, <2>3, <2>4, <2>5, EmitOne DEF Emit
<1>5. CASE Fail
  <2>1. \A x \in Counted : Places(x)' = Places(x)
    BY <1>5 DEF Fail, Places
  <2> QED
    BY <1>0, <1>5, <2>1, QuietStep DEF Fail
<1>6. CASE Retry
  <2>1. PICK types \in Seq(EventTypes) :
          /\ emitted' = emitted \o Chain(types, step)
          /\ \A i \in 1..Len(types) : types[i] \in {"AGENT_STEP_RETRY", "RETRY"}
    <3> DEFINE both == <<"AGENT_STEP_RETRY", "RETRY">>
    <3>1. /\ both \in Seq(EventTypes) /\ Len(both) = 2
          /\ \A i \in 1..2 : both[i] \in {"AGENT_STEP_RETRY", "RETRY"}
      BY DEF EventTypes
    <3>2. CASE Emit(both, step)
      BY <3>1, <3>2 DEF Emit
    <3>3. CASE EmitRaising(both, step)
      <4> HIDE DEF both
      <4>1. PICK n \in 1..Len(both) : emitted' = emitted \o Chain(SubSeq(both, 1, n), step)
        BY <1>0, <3>1, <3>3, EmitRaisingType
      <4>2. n \in 1..2
        BY <3>1
      <4>3. SubSeq(both, 1, n) \in Seq(EventTypes) /\ Len(SubSeq(both, 1, n)) = n
        BY <3>1, <4>2
      <4>4. \A i \in 1..n : SubSeq(both, 1, n)[i] = both[i] /\ i \in 1..2
        BY <3>1, <4>2
      <4> QED
        BY <3>1, <4>1, <4>3, <4>4
    <3> QED
      BY <1>6, <3>2, <3>3 DEF Retry
  <2>2. \A x \in Counted : Places(x)' = Places(x)
    BY <1>0, <2>1, Uncounted DEF Counted
  <2> QED
    BY <1>0, <1>6, <2>2, QuietStep DEF Retry
<1>7. CASE GiveUp
  <2>1. /\ Cardinality(Tally("failed")') = Cardinality(Tally("failed")) + 1
        /\ Cardinality(Tally("completed")') = Cardinality(Tally("completed"))
    <3>1. results' = Append(results, "failed")
      BY <1>7 DEF GiveUp
    <3>2. /\ Cardinality(Tally("failed")') = Cardinality(Tally("failed")) + 1
          /\ Cardinality(Tally("completed")') = Cardinality(Tally("completed")) + 0
      BY <1>0, <3>1, OneMoreResult
    <3> QED
      BY <1>0, <3>2, TallyNat
  <2>2. CASE EmitRaising(<<"AGENT_STEP_FAILED">>, step) /\ pc' = "aborted" /\ UNCHANGED report
    <3> DEFINE types == <<"AGENT_STEP_FAILED">>
    <3>1. /\ types \in Seq(EventTypes) /\ Len(types) = 1
          /\ types[1] = "AGENT_STEP_FAILED" /\ 1 \in 1..Len(types)
          /\ \A i \in 1..Len(types) : i = 1
      BY DEF EventTypes
    <3>2. emitted' = emitted \o Chain(types, step)
      BY <1>0, <2>2, EmitOne DEF EventTypes
    <3> HIDE DEF types
    <3>3. /\ \A x \in Counted \ {"AGENT_STEP_FAILED"} : Places(x)' = Places(x)
          /\ Cardinality(Places("AGENT_STEP_FAILED")') =
               Cardinality(Places("AGENT_STEP_FAILED")) + 1
      <4>1. \A x \in Counted \ {"AGENT_STEP_FAILED"} :
              \A i \in 1..Len(types) : types[i] # x
        BY <3>1
      <4>2. \A x \in Counted \ {"AGENT_STEP_FAILED"} : Places(x)' = Places(x)
        BY <1>0, <3>1, <3>2, <4>1, MoreEvents
      <4>3. Cardinality(Places("AGENT_STEP_FAILED")') =
              Cardinality(Places("AGENT_STEP_FAILED")) + 1
        BY <1>0, <3>1, <3>2, MoreEvents
      <4> QED
        BY <4>2, <4>3
    <3>4. Agree'
      BY <1>7, <2>1, <3>3 DEF RunInv, Agree, Counted, GiveUp
    <3>5. Open'
      BY <1>7, <2>2, <3>3 DEF RunInv, Open, Counted, GiveUp
    <3> QED
      BY <1>0, <3>4, <3>5, OpenHolds, PTL DEF RunInv
  <2>3. CASE /\ Emit(<<"AGENT_STEP_FAILED", "SWARM_FAILED", "SWARM_RESULT">>, step)
             /\ Report("failed") /\ pc' = "done"
    <3> DEFINE types == <<"AGENT_STEP_FAILED", "SWARM_FAILED", "SWARM_RESULT">>
    <3>1. /\ types \in Seq(EventTypes) /\ Len(types) = 3
          /\ types[1] = "AGENT_STEP_FAILED" /\ 1 \in 1..Len(types)
          /\ types[2] = "SWARM_FAILED" /\ 2 \in 1..Len(types)
          /\ types[3] = "SWARM_RESULT" /\ 3 \in 1..Len(types)
          /\ \A i \in 1..Len(types) : i = 1 \/ i = 2 \/ i = 3
          /\ emitted' = emitted \o Chain(types, step)
      BY <2>3 DEF EventTypes, Emit
    <3> HIDE DEF types
    <3>2. /\ \A x \in Counted \ {"AGENT_STEP_FAILED", "SWARM_FAILED"} :
               Places(x)' = Places(x)
          /\ Cardinality(Places("AGENT_STEP_FAILED")') =
               Cardinality(Places("AGENT_STEP_FAILED")) + 1
          /\ Places("SWARM_FAILED")' = Places("SWARM_FAILED") \cup {Len(emitted) + 2}
          /\ Len(emitted') = Len(emitted) + 3
          /\ emitted'[Len(emitted) + 3].type = "SWARM_RESULT"
      <4>1. \A x \in Counted \ {"AGENT_STEP_FAILED", "SWARM_FAILED"} :
              \A i \in 1..Len(types) : types[i] # x
        BY <3>1 DEF Counted
      <4>2. \A x \in Counted \ {"AGENT_STEP_FAILED", "SWARM_FAILED"} :
              Places(x)' = Places(x)
        BY <1>0, <3>1, <4>1, MoreEvents
      <4>3. Cardinality(Places("AGENT_STEP_FAILED")') =
              Cardinality(Places("AGENT_STEP_FAILED")) + 1
        <5>1. \A i \in 1..Len(types) : types[i] = "AGENT_STEP_FAILED" => i = 1
          BY <3>1
        <5>2. /\ types \in Seq(EventTypes) /\ 1 \in 1..Len(types)
              /\ types[1] = "AGENT_STEP_FAILED"
              /\ emitted' = emitted \o Chain(types, step)
          BY <3>1
        <5>3. \A x : \A k \in 1..Len(types) :
                types[k] = x /\ (\A i \in 1..Len(types) : types[i] = x => i = k) =>
                  /\ Places(x)' = Places(x) \cup {Len(emitted) + k}
                  /\ Cardinality(Places(x)') = Cardinality(Places(x)) + 1
          <6>1. TypeOK /\ step \in Step
            BY <1>0
          <6> QED
            BY <5>2, <6>1, MoreEvents
        <5> QED
          BY <5>1, <5>2, <5>3
      <4>4. Places("SWARM_FAILED")' = Places("SWARM_FAILED") \cup {Len(emitted) + 2}
        <5>1. \A i \in 1..Len(types) : types[i] = "SWARM_FAILED" => i = 2
          BY <3>1
        <5> QED
          BY <1>0, <3>1, <5>1, MoreEvents
      <4>5. /\ Len(emitted') = Len(emitted) + 3
            /\ emitted'[Len(emitted) + 3].type = "SWARM_RESULT"
        BY <1>0, <3>1, MoreEvents
      <4> QED
        BY <4>2, <4>3, <4>4, <4>5
    <3>3. Agree'
      BY <1>7, <2>1, <3>2 DEF RunInv, Agree, Counted, GiveUp
    <3>4. Open
      BY <1>7 DEF RunInv, GiveUp
    <3>5. ReportAgrees'
      <4>1. /\ report'[1].completed = Cardinality(Tally("completed")')
            /\ report'[1].failed = Cardinality(Tally("failed")')
            /\ report'[1].degraded = applied'
            /\ report'[1].status = "failed"
        BY <1>7, <2>3 DEF Report, Count, Tally, GiveUp
      <4>2. Places("SWARM_FAILED")' # {}
        BY <3>2
      <4>3. report'[1].degraded = (Places("INSERT_RETRY_PATH")' # {})
        BY <3>3, <4>1, <1>0, Zenon DEF Agree, TypeInv, TypeOK
      <4>4. (report'[1].status = "failed") = (Places("SWARM_FAILED")' # {})
        BY <4>1, <4>2
      <4> QED
        BY <3>3, <4>1, <4>3, <4>4 DEF Agree, ReportAgrees
    <3>6. EndsOnce'
      <4>1. Places("SWARM_COMPLETED")' = {} /\ Places("SWARM_FAILED")' = {Len(emitted) + 2}
        BY <3>2, <3>4 DEF Open, Counted
      <4>2. Len(emitted) \in Nat
        BY <1>0 DEF TypeOK
      <4> QED
        BY <3>2, <4>1, <4>2 DEF EndsOnce
    <3> QED
      BY <1>0, <2>3, <3>3, <3>5, <3>6 DEF RunInv
  <2> QED
    BY <1>7, <2>2, <2>3 DEF GiveUp
<1>8. CASE Finish
  <2> DEFINE types == <<"SWARM_COMPLETED", "SWARM_RESULT">>
  <2>1. /\ types \in Seq(EventTypes) /\ Len(types) = 2
        /\ types[1] = "SWARM_COMPLETED" /\ 1 \in 1..Len(types)
        /\ types[2] = "SWARM_RESULT" /\ 2 \in 1..Len(types)
        /\ \A i \in 1..Len(types) : i = 1 \/ i = 2
        /\ emitted' = emitted \o Chain(types, NoStep)
    BY <1>8 DEF EventTypes, Emit, Finish
  <2> HIDE DEF types
  <2>2. /\ \A x \in Counted \ {"SWARM_COMPLETED"} : Places(x)' = Places(x)
        /\ Places("SWARM_COMPLETED")' = Places("SWARM_COMPLETED") \cup {Len(emitted) + 1}
        /\ Len(emitted') = Len(emitted) + 2
        /\ emitted'[Len(emitted) + 2].type = "SWARM_RESULT"
    <3>1. \A x \in Counted \ {"SWARM_COMPLETED"} :
            \A i \in 1..Len(types) : types[i] # x
      BY <2>1 DEF Counted
    <3>2. \A x \in Counted \ {"SWARM_COMPLETED"} : Places(x)' = Places(x)
      BY <1>0, <2>1, <3>1, MoreEvents
    <3>3. Places("SWARM_COMPLETED")' = Places("SWARM_COMPLETED") \cup {Len(emitted) + 1}
      <4>1. \A i \in 1..Len(types) : types[i] = "SWARM_COMPLETED" => i = 1
        BY <2>1
      <4>2. types[1] = "SWARM_COMPLETED" /\ 1 \in 1..Len(types) /\ TypeOK
        BY <1>0, <2>1 DEF TypeInv
      <4>3. NoStep \in Step
        BY DEF NoStep, Step, Agents
      <4>4. \A k \in 1..Len(types) :
              types[k] = "SWARM_COMPLETED"
                /\ (\A i \in 1..Len(types) : types[i] = "SWARM_COMPLETED" => i = k) =>
                Places("SWARM_COMPLETED")' = Places("SWARM_COMPLETED") \cup {Len(emitted) + k}
        BY <2>1, <4>2, <4>3, MoreEvents
      <4> QED
        BY <4>1, <4>2, <4>4
    <3>4. /\ Len(emitted') = Len(emitted) + 2
          /\ emitted'[Len(emitted) + 2].type = "SWARM_RESULT"
      BY <1>0, <2>1, MoreEvents
    <3> QED
      BY <3>2, <3>3, <3>4
  <2>3. Agree'
    BY <1>8, <2>2 DEF RunInv, Agree, Counted, Finish, Tally
  <2>4. Open
    BY <1>8 DEF RunInv, Finish
  <2>5. ReportAgrees'
    <3>1. /\ report'[1].completed = Cardinality(Tally("completed")')
          /\ report'[1].failed = Cardinality(Tally("failed")')
          /\ report'[1].degraded = applied'
          /\ report'[1].status = "completed"
      BY <1>8 DEF Report, Count, Tally, Finish
    <3>2. Places("SWARM_FAILED")' = {}
      BY <2>2, <2>4 DEF Open, Counted
    <3>3. report'[1].degraded = (Places("INSERT_RETRY_PATH")' # {})
      BY <2>3, <3>1, <1>0, Zenon DEF Agree, TypeInv, TypeOK
    <3>4. (report'[1].status = "failed") = (Places("SWARM_FAILED")' # {})
      BY <3>1, <3>2
    <3> QED
      BY <2>3, <3>1, <3>3, <3>4 DEF Agree, ReportAgrees
  <2>6. EndsOnce'
    <3>1. /\ Places("SWARM_FAILED")' = {}
          /\ Places("SWARM_COMPLETED")' = {Len(emitted) + 1}
      BY <2>2, <2>4 DEF Open, Counted
    <3>2. Len(emitted) \in Nat
      BY <1>0 DEF TypeOK
    <3> QED
      BY <2>2, <3>1, <3>2 DEF EndsOnce
  <2> QED
    BY <1>0, <1>8, <2>3, <2>5, <2>6 DEF RunInv, Finish
<1>9. CASE UNCHANGED vars
  <2>1. /\ \A x : Places(x)' = Places(x) /\ Tally(x)' = Tally(x)
        /\ UNCHANGED <<report, applied, pc, emitted>>
    BY <1>9 DEF vars, Places, Tally
  <2>2. Agree'
    BY <2>1 DEF RunInv, Agree
  <2>3. (pc # "done" => Open)' /\ ReportAgrees' /\ EndsOnce'
    BY <2>1 DEF RunInv, Open, ReportAgrees, EndsOnce
  <2> QED
    BY <1>0, <2>2, <2>3 DEF RunInv
<1> QED
  BY <1>1, <1>2, <1>3, <1>4, <1>5, <1>6, <1>7, <1>8, <1>9 DEF Next

LEMMA RunSafe == Spec => []RunInv
BY InitRun, NextRun, PTL DEF Spec

(* SWARM_RESULT reports what the events of its run said: steps completed   *)
(* and failed, the retry path, and how the run ended, in every plan and    *)
(* whichever emits raised.                                                 *)
THEOREM ReportMatchesEvents == Spec => []ReportAgrees
<1>1. RunInv => ReportAgrees
  BY DEF RunInv
<1> QED
  BY <1>1, RunSafe, PTL

(* A run ends once, with SWARM_RESULT as its last event.                   *)
THEOREM OneEnding == Spec => []EndsOnce
<1>1. RunInv => EndsOnce
  BY DEF RunInv
<1> QED
  BY <1>1, RunSafe, PTL
-----------------------------------------------------------------------------
(* The lineage of a run's events                                           *)

HasChild(i) == \E j \in DOMAIN emitted : emitted[j].parent = i
Orphans == {i \in 1..Len(emitted) : i # previous /\ ~HasChild(i)}

(* Once the run has begun the next parent is an event, either the last or  *)
(* one that has a successor; the others without one are those whose emit   *)
(* raised.                                                                 *)
LineageInv ==
  /\ TypeInv
  /\ \A i \in DOMAIN emitted : emitted[i].parent \in (IF i = 1 THEN {0} ELSE 1..(i - 1))
  /\ IF emitted = <<>> THEN previous = 0 ELSE previous \in 1..Len(emitted)
  /\ pc # "start" => emitted # <<>>
  /\ previous = Len(emitted) \/ HasChild(previous)
  /\ Cardinality(Orphans) <= faults

(* New events are a chain from the event before them on.                   *)
LEMMA ChainParents ==
  ASSUME TypeOK, NEW types \in Seq(EventTypes), NEW s \in Step,
         emitted' = emitted \o Chain(types, s)
  PROVE  /\ Len(emitted') = Len(emitted) + Len(types)
         /\ \A i \in 1..Len(emitted) : emitted'[i] = emitted[i]
         /\ \A k \in 1..Len(types) : emitted'[Len(emitted) + k].parent
                                     = IF k = 1 THEN previous ELSE Len(emitted) + k - 1
<1>1. PICK c \in Seq(Event) : c = Chain(types, s) /\ Len(c) = Len(types)
  BY ChainType
<1>2. emitted \in Seq(Event)
  BY DEF TypeOK, Event
<1>3. \A k \in 1..Len(types) : c[k].parent = IF k = 1 THEN previous ELSE Len(emitted) + k - 1
  BY <1>1 DEF Chain
<1>4. /\ Len(emitted \o c) = Len(emitted) + Len(c)
      /\ \A i \in 1..Len(emitted) : (emitted \o c)[i] = emitted[i]
      /\ \A i \in 1..Len(c) : (emitted \o c)[Len(emitted) + i] = c[i]
  <2>1. c \in Seq(Event)
    BY <1>1
  <2> HIDE DEF Event
  <2> QED
    BY ONLY <1>2, <2>1, Concat
<1>5. emitted' = emitted \o c
  BY <1>1
<1>6. \A k \in 1..Len(c) : emitted'[Len(emitted) + k] = c[k]
  BY <1>4, <1>5
<1> QED
  BY <1>1, <1>3, <1>4, <1>5, <1>6

LEMMA OrphansFinite ==
  ASSUME TypeOK
  PROVE  IsFiniteSet(Orphans) /\ Cardinality(Orphans) \in Nat
<1>1. Len(emitted) \in Nat
  BY DEF TypeOK
<1>2. IsFiniteSet(1..Len(emitted)) /\ Orphans \subseteq 1..Len(emitted)
  BY <1>1, FS_Interval DEF Orphans
<1> QED
  BY <1>2, FS_Subset, FS_CardinalityType

(* What an emit of n events, n > 0, leaves of the lineage, if the next     *)
(* parent is the last of them, or the one before it.                       *)
LEMMA Chained ==
  ASSUME LineageInv, NEW types \in Seq(EventTypes), NEW s \in Step, types # <<>>,
         emitted' = emitted \o Chain(types, s),
         NEW closing \in BOOLEAN, closing \/ emitted # <<>> \/ Len(types) > 1,
         previous' = IF closing THEN Len(emitted) + Len(types)
                     ELSE IF Len(types) = 1 THEN previous ELSE Len(emitted) + Len(types) - 1
  PROVE  /\ \A i \in DOMAIN emitted' :
               emitted'[i].parent \in (IF i = 1 THEN {0} ELSE 1..(i - 1))
         /\ emitted' # <<>> /\ previous' \in 1..Len(emitted')
         /\ previous' = Len(emitted') \/ HasChild(previous)'
         /\ Orphans' \subseteq Orphans \cup (IF closing THEN {} ELSE {Len(emitted')})
<1> DEFINE L == Len(emitted)
           n == Len(types)
<1>1. /\ L \in Nat /\ n \in Nat /\ n >= 1 /\ previous \in 0..L
      /\ DOMAIN emitted = 1..L /\ (emitted = <<>>) = (L = 0)
  BY DEF LineageInv, TypeInv, TypeOK
<1>2. /\ Len(emitted') = L + n
      /\ \A i \in 1..L : emitted'[i] = emitted[i]
      /\ \A k \in 1..n : emitted'[L + k].parent = IF k = 1 THEN previous ELSE L + k - 1
  BY ChainParents DEF LineageInv, TypeInv
<1>3. emitted' \in Seq(Event)
  <2>1. Chain(types, s) \in Seq(Event) /\ emitted \in Seq(Event)
    BY ChainType DEF LineageInv, TypeInv, TypeOK, Event
  <2> HIDE DEF Event
  <2> QED
    BY <2>1, Concat
<1>4. DOMAIN emitted' = 1..(L + n)
  BY <1>1, <1>2, <1>3
<1> HIDE DEF L, n
<1>5. \A j \in 1..(L + n) : j \in 1..L \/ \E k \in 1..n : j = L + k
  <2> SUFFICES ASSUME NEW j \in 1..(L + n), j \notin 1..L
               PROVE  \E k \in 1..n : j = L + k
    OBVIOUS
  <2>1. j - L \in 1..n /\ j = L + (j - L)
    BY <1>1
  <2> QED
    BY <2>1
<1>6. L = 0 => previous = 0
  BY <1>1
<1>7. L > 0 => previous \in 1..L
  <2>1. emitted # <<>> => previous \in 1..Len(emitted)
    BY DEF LineageInv
  <2>2. L > 0 => emitted # <<>>
    BY <1>1
  <2> QED
    BY <2>1, <2>2 DEF L
<1>8. ASSUME NEW i \in DOMAIN emitted'
      PROVE  emitted'[i].parent \in (IF i = 1 THEN {0} ELSE 1..(i - 1))
  <2>1. CASE i \in 1..L
    BY <1>1, <1>2, <2>1 DEF LineageInv
  <2>2. CASE \E k \in 1..n : i = L + k
    <3>1. PICK k \in 1..n : i = L + k
      BY <2>2
    <3>2. emitted'[i].parent = IF k = 1 THEN previous ELSE L + k - 1
      BY <1>2, <3>1
    <3>3. CASE k = 1
      BY <1>1, <1>6, <1>7, <3>1, <3>2, <3>3
    <3>4. CASE k # 1
      BY <1>1, <3>1, <3>2, <3>4
    <3> QED
      BY <3>3, <3>4
  <2> QED
    BY <1>4, <1>5, <2>1, <2>2
<1>9. previous' = IF closing THEN L + n ELSE IF n = 1 THEN previous ELSE L + n - 1
  BY DEF L, n
<1>10. emitted' # <<>> /\ previous' \in 1..(L + n)
  <2>1. closing \/ L > 0 \/ n > 1
    BY <1>1 DEF n
  <2>2. 1 \in DOMAIN emitted'
    BY <1>1, <1>4
  <2> QED
    BY <1>1, <1>7, <1>9, <2>1, <2>2
<1>11. /\ L + 1 \in DOMAIN emitted' /\ emitted'[L + 1].parent = previous
       /\ \A k \in 1..n : k > 1 => L + k \in DOMAIN emitted' /\ emitted'[L + k].parent = L + k - 1
  <2>1. 1 \in 1..n /\ L + 1 \in 1..(L + n)
    BY <1>1
  <2>2. emitted'[L + 1].parent = previous
    BY <1>2, <2>1
  <2>3. ASSUME NEW k \in 1..n, k > 1
        PROVE  L + k \in 1..(L + n) /\ emitted'[L + k].parent = L + k - 1
    <3>1. L + k \in 1..(L + n) /\ k # 1
      BY <1>1, <2>3
    <3> QED
      BY <1>2, <3>1
  <2> QED
    BY <1>4, <2>1, <2>2, <2>3
<1>12. ASSUME ~closing PROVE HasChild(previous)'
  <2>1. CASE n = 1
    <3>1. previous' = previous
      BY <1>9, <1>12, <2>1
    <3> QED
      BY <1>11, <3>1 DEF HasChild
  <2>2. CASE n > 1
    <3>0. n # 1
      BY <1>1, <2>2
    <3>1. previous' = L + n - 1 /\ n \in 1..n
      BY <1>1, <1>9, <1>12, <3>0
    <3>2. L + n \in DOMAIN emitted' /\ emitted'[L + n].parent = previous'
      BY <1>11, <2>2, <3>1
    <3> QED
      BY <3>2 DEF HasChild
  <2> QED
    BY <1>1, <2>1, <2>2
<1>13. ASSUME NEW i \in Orphans', i # L + n PROVE i \in Orphans
  <2>1. i \in 1..(L + n) /\ i # previous' /\ \A j \in DOMAIN emitted' : emitted'[j].parent # i
    BY <1>2, <1>13 DEF Orphans, HasChild
  <2>2. CASE i \in 1..L
    <3>1. i # previous
      BY <1>11, <2>1
    <3>2. \A j \in DOMAIN emitted : emitted[j].parent # i
      BY <1>1, <1>2, <1>4, <2>1
    <3> QED
      BY <2>2, <3>1, <3>2 DEF Orphans, HasChild, L
  <2>3. CASE \E k \in 1..n : i = L + k
    <3>1. PICK k \in 1..n : i = L + k
      BY <2>3
    <3>2. k + 1 \in 1..n /\ k + 1 > 1
      BY <1>1, <1>13, <3>1
    <3>3. L + (k + 1) \in DOMAIN emitted' /\ emitted'[L + (k + 1)].parent = L + (k + 1) - 1
      BY <1>11, <3>2
    <3>4. L + (k + 1) - 1 = i
      BY <1>1, <3>1
    <3> QED
      BY <2>1, <3>3, <3>4
  <2> QED
    BY <1>5, <2>1, <2>2, <2>3
<1>14. Orphans' \subseteq Orphans \cup (IF closing THEN {} ELSE {L + n})
  <2> SUFFICES ASSUME NEW i \in Orphans', i \notin Orphans
               PROVE  ~closing /\ i = L + n
    OBVIOUS
  <2>1. i = L + n
    BY <1>13
  <2>2. i # previous'
    BY DEF Orphans
  <2> QED
    BY <1>9, <2>1, <2>2
<1> QED
  BY <1>2, <1>8, <1>9, <1>10, <1>12, <1>14

(* An emit that returns adds no orphan, one that raises adds one.          *)
LEMMA EmitLineage ==
  ASSUME LineageInv, TypeInv', NEW types \in Seq(EventTypes), NEW s \in Step, types # <<>>,
         Emit(types, s)
  PROVE  LineageInv'
<1>1. emitted' = emitted \o Chain(types, s) /\ faults' = faults
  BY DEF Emit
<1>2. previous' = Len(emitted) + Len(types)
  BY ChainParents DEF Emit, LineageInv, TypeInv
<1>3. /\ \A i \in DOMAIN emitted' :
               emitted'[i].parent \in (IF i = 1 THEN {0} ELSE 1..(i - 1))
      /\ emitted' # <<>> /\ previous' \in 1..Len(emitted')
      /\ previous' = Len(emitted') \/ HasChild(previous)'
      /\ Orphans' \subseteq Orphans
  <2> DEFINE closing == TRUE
  <2>1. /\ closing \in BOOLEAN /\ closing
        /\ previous' = IF closing THEN Len(emitted) + Len(types)
                     ELSE IF Len(types) = 1 THEN previous ELSE Len(emitted) + Len(types) - 1
    BY <1>2
  <2> HIDE DEF closing
  <2> QED
    BY <1>1, <2>1, Chained
<1>4. Cardinality(Orphans') <= faults'
  <2>1. Cardinality(Orphans') <= Cardinality(Orphans) /\ Cardinality(Orphans') \in Nat
    BY <1>3, OrphansFinite, FS_Subset, FS_CardinalityType DEF LineageInv, TypeInv
  <2>2. TypeOK /\ Cardinality(Orphans) <= faults
    BY DEF LineageInv, TypeInv
  <2>3. Cardinality(Orphans) \in Nat
    BY <2>2, OrphansFinite
  <2>4. faults \in Nat
    BY <2>2, FaultsAssumption DEF TypeOK
  <2> QED
    BY <1>1, <2>1, <2>2, <2>3, <2>4
<1> QED
  BY <1>3, <1>4 DEF LineageInv

LEMMA EmitRaisingLineage ==
  ASSUME LineageInv, TypeInv', NEW types \in Seq(EventTypes), NEW s \in Step,
         emitted # <<>>, EmitRaising(types, s)
  PROVE  LineageInv'
<1>1. PICK n \in DOMAIN types :
        /\ emitted' = emitted \o Chain(SubSeq(types, 1, n), s)
        /\ previous' = IF n = 1 THEN previous ELSE Len(emitted) + n - 1
        /\ faults' = faults + 1
  BY DEF EmitRaising
<1> DEFINE ts == SubSeq(types, 1, n)
<1>2. /\ n \in 1..Len(types) /\ ts \in Seq(EventTypes) /\ Len(ts) = n /\ ts # <<>>
  OBVIOUS
<1> HIDE DEF ts
<1>3. /\ \A i \in DOMAIN emitted' :
               emitted'[i].parent \in (IF i = 1 THEN {0} ELSE 1..(i - 1))
      /\ emitted' # <<>> /\ previous' \in 1..Len(emitted')
      /\ previous' = Len(emitted') \/ HasChild(previous)'
      /\ Orphans' \subseteq Orphans \cup {Len(emitted')}
  <2> DEFINE closing == FALSE
  <2>1. /\ closing \in BOOLEAN /\ ~closing
        /\ emitted' = emitted \o Chain(ts, s)
        /\ previous' = IF closing THEN Len(emitted) + Len(ts)
                     ELSE IF Len(ts) = 1 THEN previous ELSE Len(emitted) + Len(ts) - 1
    BY <1>1, <1>2 DEF ts
  <2> HIDE DEF closing
  <2> QED
    BY <1>2, <2>1, Chained
<1>4. Cardinality(Orphans') <= faults'
  <2>1. IsFiniteSet(Orphans) /\ Cardinality(Orphans) \in Nat
    BY OrphansFinite DEF LineageInv, TypeInv
  <2>2. /\ IsFiniteSet(Orphans \cup {Len(emitted')})
        /\ Cardinality(Orphans \cup {Len(emitted')}) \in Nat
        /\ Cardinality(Orphans \cup {Len(emitted')}) <= Cardinality(Orphans) + 1
    <3> DEFINE x == Len(emitted')
    <3> HIDE DEF x
    <3>1. IsFiniteSet(Orphans \cup {x})
      BY ONLY <2>1, FS_AddElement
    <3>2. Cardinality(Orphans \cup {x})
            = IF x \in Orphans THEN Cardinality(Orphans) ELSE Cardinality(Orphans) + 1
      BY ONLY <2>1, FS_AddElement
    <3>3. /\ Cardinality(Orphans \cup {x}) \in Nat
          /\ Cardinality(Orphans \cup {x}) <= Cardinality(Orphans) + 1
      BY <2>1, <3>2
    <3> QED
      BY <3>1, <3>3 DEF x
  <2>3. /\ Cardinality(Orphans') <= Cardinality(Orphans \cup {Len(emitted')})
        /\ Cardinality(Orphans') \in Nat
    BY <1>3, <2>2, FS_Subset, FS_CardinalityType
  <2>4. Cardinality(Orphans) <= faults /\ faults \in Nat
    BY FaultsAssumption DEF LineageInv, TypeInv, TypeOK
  <2> QED
    BY <1>1, <2>1, <2>2, <2>3, <2>4
<1> QED
  BY <1>3, <1>4 DEF LineageInv

LEMMA InitLineage == Init => LineageInv
<1> SUFFICES ASSUME Init PROVE LineageInv
  OBVIOUS
<1>1. emitted = <<>> /\ previous = 0 /\ faults = 0 /\ pc = "start"
  BY DEF Init
<1>2. Orphans = {}
  BY <1>1 DEF Orphans
<1> QED
  BY <1>1, <1>2, InitTypes, FS_EmptySet DEF LineageInv

(* Every step emits a chain of events, or none.                            *)
LEMMA NextLineage == LineageInv /\ [Next]_vars => LineageInv'
<1> SUFFICES ASSUME LineageInv, [Next]_vars PROVE LineageInv'
  OBVIOUS
<1>1. TypeInv' /\ step \in Step /\ step' \in Step /\ NoStep \in Step
  BY NextTypes DEF LineageInv, TypeInv, TypeOK, NoStep, Step, Agents
<1>2. CASE UNCHANGED <<emitted, previous, faults>> /\ (pc' # "start" => pc # "start")
  BY <1>1, <1>2 DEF LineageInv, Orphans, HasChild
<1>3. ASSUME NEW types \in Seq(EventTypes), NEW s \in Step, types # <<>>, Emit(types, s)
      PROVE  LineageInv'
  BY <1>1, <1>3, EmitLineage
<1>4. ASSUME NEW types \in Seq(EventTypes), NEW s \in Step, pc # "start", EmitRaising(types, s)
      PROVE  LineageInv'
  BY <1>1, <1>4, EmitRaisingLineage DEF LineageInv
<1>5. /\ <<"SWARM_STARTED", "PLANNER_DECISION">> \in Seq(EventTypes)
      /\ <<"SKIP_STEP">> \in Seq(EventTypes) /\ <<"AGENT_STEP_STARTED">> \in Seq(EventTypes)
      /\ <<"AGENT_STEP_COMPLETED">> \in Seq(EventTypes)
      /\ <<"AGENT_STEP_COMPLETED", "INSERT_RETRY_PATH">> \in Seq(EventTypes)
      /\ <<"AGENT_STEP_RETRY", "RETRY">> \in Seq(EventTypes)
      /\ <<"AGENT_STEP_FAILED", "SWARM_FAILED", "SWARM_RESULT">> \in Seq(EventTypes)
      /\ <<"AGENT_STEP_FAILED">> \in Seq(EventTypes)
      /\ <<"SWARM_COMPLETED", "SWARM_RESULT">> \in Seq(EventTypes)
  BY DEF EventTypes
<1>6. CASE Begin
  BY <1>1, <1>3, <1>5, <1>6 DEF Begin
<1>7. CASE SkipStep
  BY <1>1, <1>3, <1>4, <1>5, <1>7 DEF SkipStep
<1>8. CASE StartStep
  BY <1>1, <1>3, <1>4, <1>5, <1>8 DEF StartStep
<1>9. CASE Complete
  BY <1>1, <1>3, <1>4, <1>5, <1>9 DEF Complete
<1>10. CASE Fail
  BY <1>2, <1>10 DEF Fail
<1>11. CASE Retry
  BY <1>1, <1>3, <1>4, <1>5, <1>11 DEF Retry
<1>12. CASE GiveUp
  BY <1>1, <1>3, <1>4, <1>5, <1>12 DEF GiveUp
<1>13. CASE Finish
  BY <1>1, <1>3, <1>5, <1>13 DEF Finish
<1>14. CASE UNCHANGED vars
  BY <1>2, <1>14 DEF vars
<1> QED
  BY <1>6, <1>7, <1>8, <1>9, <1>10, <1>11, <1>12, <1>13, <1>14 DEF Next

LEMMA LineageFollows == LineageInv => LineageUnbroken
<1> SUFFICES ASSUME LineageInv PROVE LineageUnbroken
  OBVIOUS
<1> DEFINE Lost == {i \in 1..(Len(emitted) - 1) : \A j \in DOMAIN emitted : emitted[j].parent # i}
<1>1. Len(emitted) \in Nat
  BY DEF LineageInv, TypeInv, TypeOK
<1>2. Lost \subseteq Orphans
  <2> SUFFICES ASSUME NEW i \in Lost PROVE i \in Orphans
    OBVIOUS
  <2>1. i \in 1..Len(emitted) /\ i # Len(emitted) /\ ~HasChild(i)
    BY <1>1 DEF HasChild
  <2>2. i # previous
    BY <2>1 DEF LineageInv
  <2> QED
    BY <2>1, <2>2 DEF Orphans
<1>3. /\ Cardinality(Lost) <= Cardinality(Orphans) /\ Cardinality(Lost) \in Nat
      /\ Cardinality(Orphans) \in Nat /\ faults \in Nat
  BY <1>2, OrphansFinite, FaultsAssumption, FS_Subset, FS_CardinalityType
  DEF LineageInv, TypeInv, TypeOK
<1>4. Cardinality(Lost) <= faults
  <2> HIDE DEF Lost
  <2> QED
    BY <1>3 DEF LineageInv
<1> QED
  BY <1>4 DEF LineageUnbroken, LineageInv

(* The events of a run tell its story: their lineage is unbroken but for   *)
(* as many events as emits raised, the run ends once, and SWARM_RESULT     *)
(* agrees with them.                                                       *)
THEOREM EventsTell == Spec => []EventsTellRun
<1>1. LineageInv /\ RunInv => EventsTellRun
  BY LineageFollows DEF RunInv, EventsTellRun
<1>2. Spec => []LineageInv
  BY InitLineage, NextLineage, PTL DEF Spec
<1> QED
  BY <1>1, <1>2, RunSafe, PTL


-----------------------------------------------------------------------------
(* The steps a run takes                                                   *)

PlanGone == Cardinality(PlanTaken)
PathGone == Cardinality(PathTaken)
Pending == IF applied THEN Len(Default) - PathGone ELSE 0
Left == Len(plan) - PlanGone

Kept == /\ InOrderOf(plan, PlanTaken)
        /\ InOrderOf(Default, PathTaken)
        /\ InOnePiece

(* The queue is what is left of the retry path, then of the plan.          *)
QueueInv ==
  /\ PlanGone <= Len(plan) /\ PathGone <= Len(Default)
  /\ PathGone > 0 => applied
  /\ Len(queue) = Pending + Left
  /\ \A i \in 1..Pending : queue[i] = [agent |-> Default[PathGone + i], inserted |-> TRUE]
  /\ \A i \in 1..Left : queue[Pending + i] = [agent |-> plan[PlanGone + i], inserted |-> FALSE]

(* The step of the run is the one its last taken event names; while the    *)
(* retry path is pending it is the quality step before it, or one of it.   *)
LastInv ==
  /\ step.inserted => PathGone > 0
  /\ Pending > 0 => /\ PathGone = 0 => step.agent = "quality" /\ ~step.inserted
                    /\ PathGone > 0 => step.inserted
  /\ pc \in {"execute", "except"} \/ Pending > 0 => Taken # {}
  /\ Taken # {} => \E m \in Taken : (\A k \in Taken : k <= m) /\ emitted[m].step = step

AllTaken ==
  pc = "done" /\ report[1].status = "completed" =>
     /\ PlanGone = Len(plan)
     /\ PathGone = IF applied THEN Len(Default) ELSE 0

PlanInv == TypeInv /\ Kept /\ QueueInv /\ LastInv /\ AllTaken

LEMMA GoneNat ==
  ASSUME TypeOK
  PROVE  /\ IsFiniteSet(PlanTaken) /\ IsFiniteSet(PathTaken)
         /\ PlanTaken \cup PathTaken = Taken /\ Taken \subseteq 1..Len(emitted)
         /\ PlanGone \in Nat /\ PathGone \in Nat
<1>1. /\ IsFiniteSet(Places("SKIP_STEP")) /\ Places("SKIP_STEP") \subseteq 1..Len(emitted)
      /\ IsFiniteSet(Places("AGENT_STEP_STARTED"))
      /\ Places("AGENT_STEP_STARTED") \subseteq 1..Len(emitted)
  BY PlacesFinite
<1>2. IsFiniteSet(Taken) /\ Taken \subseteq 1..Len(emitted)
  BY <1>1, FS_Union DEF Taken
<1>3. PathTaken \subseteq Taken /\ PlanTaken \subseteq Taken /\ PlanTaken \cup PathTaken = Taken
  BY DEF PathTaken, PlanTaken
<1>4. IsFiniteSet(PlanTaken) /\ IsFiniteSet(PathTaken)
  BY <1>2, <1>3, FS_Subset
<1> QED
  BY <1>2, <1>3, <1>4, FS_CardinalityType DEF PlanGone, PathGone

(* The order of places when a later one is added.                          *)
LEMMA Later ==
  ASSUME NEW L \in Nat, NEW P, P \subseteq 1..L, IsFiniteSet(P)
  PROVE  /\ \A i \in P : Ordinal(i, P \cup {L + 1}) = Ordinal(i, P)
         /\ Ordinal(L + 1, P \cup {L + 1}) = Cardinality(P) + 1
         /\ Cardinality(P \cup {L + 1}) = Cardinality(P) + 1
<1>1. ASSUME NEW i \in P
      PROVE  {j \in P \cup {L + 1} : j <= i} = {j \in P : j <= i}
  OBVIOUS
<1>2. {j \in P \cup {L + 1} : j <= L + 1} = P \cup {L + 1}
  <2>1. \A j \in P \cup {L + 1} : j <= L + 1
    OBVIOUS
  <2> QED
    BY <2>1
<1>3. L + 1 \notin P
  OBVIOUS
<1>4. Cardinality(P \cup {L + 1}) = Cardinality(P) + 1
  BY <1>3, FS_AddElement
<1> QED
  BY <1>1, <1>2, <1>4 DEF Ordinal

(* What an emit leaves of the events before it, and adds.                  *)
LEMMA Emitted ==
  ASSUME TypeOK, NEW types \in Seq(EventTypes), NEW s \in Step,
         emitted' = emitted \o Chain(types, s)
  PROVE  /\ Len(emitted') = Len(emitted) + Len(types) /\ DOMAIN emitted' = 1..Len(emitted')
         /\ \A i \in 1..Len(emitted) : emitted'[i] = emitted[i]
         /\ \A i \in 1..Len(types) : /\ emitted'[Len(emitted) + i].type = types[i]
                                      /\ emitted'[Len(emitted) + i].step = s
<1>1. PICK c \in Seq(Event) : c = Chain(types, s) /\ Len(c) = Len(types)
  BY ChainType
<1>2. emitted \in Seq(Event)
  BY DEF TypeOK, Event
<1>3. \A i \in 1..Len(types) : c[i].type = types[i] /\ c[i].step = s
  BY <1>1 DEF Chain
<1>4. /\ emitted \o c \in Seq(Event)
      /\ Len(emitted \o c) = Len(emitted) + Len(c)
      /\ \A i \in 1..Len(emitted) : (emitted \o c)[i] = emitted[i]
      /\ \A i \in 1..Len(c) : (emitted \o c)[Len(emitted) + i] = c[i]
  <2>1. c \in Seq(Event)
    BY <1>1
  <2> HIDE DEF Event
  <2> QED
    BY ONLY <1>2, <2>1, Concat
<1>5. emitted' = emitted \o c /\ DOMAIN (emitted \o c) = 1..Len(emitted \o c)
  BY <1>1, <1>4
<1>6. \A k \in 1..Len(types) : emitted'[Len(emitted) + k] = c[k]
  BY <1>1, <1>4, <1>5
<1> QED
  BY <1>1, <1>3, <1>4, <1>5, <1>6

(* An emit that takes no step.                                             *)
LEMMA NothingTaken ==
  ASSUME TypeOK, NEW types \in Seq(EventTypes), NEW s \in Step,
         emitted' = emitted \o Chain(types, s),
         \A i \in 1..Len(types) : types[i] \notin {"SKIP_STEP", "AGENT_STEP_STARTED"}
  PROVE  Taken' = Taken /\ \A i \in Taken : emitted'[i] = emitted[i]
<1>1. Taken' = Taken
  BY MoreEvents DEF Taken
<1>2. \A i \in Taken : emitted'[i] = emitted[i]
  BY GoneNat, Emitted
<1> QED
  BY <1>1, <1>2

(* An emit that takes a step.                                              *)
LEMMA OneTaken ==
  ASSUME TypeOK, NEW x \in {"SKIP_STEP", "AGENT_STEP_STARTED"}, NEW s \in Step,
         emitted' = emitted \o Chain(<<x>>, s)
  PROVE  /\ Taken' = Taken \cup {Len(emitted) + 1}
         /\ \A i \in Taken : emitted'[i] = emitted[i]
         /\ emitted'[Len(emitted) + 1].step = s
         /\ s.inserted => /\ PathTaken' = PathTaken \cup {Len(emitted) + 1}
                          /\ PlanTaken' = PlanTaken
         /\ ~s.inserted => /\ PlanTaken' = PlanTaken \cup {Len(emitted) + 1}
                           /\ PathTaken' = PathTaken
<1> DEFINE L == Len(emitted)
<1>1. <<x>> \in Seq(EventTypes) /\ Len(<<x>>) = 1 /\ <<x>>[1] = x
  BY DEF EventTypes
<1> DEFINE types == <<x>>
<1> HIDE DEF types
<1>2. /\ L \in Nat /\ \A i \in 1..L : emitted'[i] = emitted[i]
      /\ emitted'[L + 1].step = s /\ Len(types) = 1 /\ types[1] = x
  <2>1. L \in Nat
    BY DEF TypeOK
  <2>2. /\ \A i \in 1..L : emitted'[i] = emitted[i]
        /\ \A i \in 1..Len(types) : emitted'[L + i].step = s
    BY <1>1, Emitted DEF types
  <2>3. 1 \in 1..Len(types) /\ Len(types) = 1 /\ types[1] = x
    BY <1>1 DEF types
  <2> QED
    BY <2>1, <2>2, <2>3
<1>3. Taken \subseteq 1..L /\ L + 1 \notin Taken
  BY <1>2, GoneNat
<1>4. /\ \A y : (\A i \in 1..Len(types) : types[i] # y) => Places(y)' = Places(y)
      /\ \A y : \A k \in 1..Len(types) :
           types[k] = y /\ (\A i \in 1..Len(types) : types[i] = y => i = k) =>
             /\ Places(y)' = Places(y) \cup {L + k}
             /\ Cardinality(Places(y)') = Cardinality(Places(y)) + 1
  <2>1. types \in Seq(EventTypes) /\ emitted' = emitted \o Chain(types, s)
    BY <1>1 DEF types
  <2> QED
    BY <2>1, MoreEvents
<1>5. Taken' = Taken \cup {L + 1}
  <2>1. 1 \in 1..Len(types) /\ \A i \in 1..Len(types) : i = 1
    BY <1>2
  <2>2. CASE x = "SKIP_STEP"
    <3>1. Places("AGENT_STEP_STARTED")' = Places("AGENT_STEP_STARTED")
      BY <1>2, <1>4, <2>1, <2>2
    <3>2. Places("SKIP_STEP")' = Places("SKIP_STEP") \cup {L + 1}
      BY <1>2, <1>4, <2>1, <2>2
    <3> QED
      BY <3>1, <3>2 DEF Taken
  <2>3. CASE x = "AGENT_STEP_STARTED"
    <3>1. Places("SKIP_STEP")' = Places("SKIP_STEP")
      BY <1>2, <1>4, <2>1, <2>3
    <3>2. Places("AGENT_STEP_STARTED")' = Places("AGENT_STEP_STARTED") \cup {L + 1}
      BY <1>2, <1>4, <2>1, <2>3
    <3> QED
      BY <3>1, <3>2 DEF Taken
  <2> QED
    BY <2>2, <2>3
<1>6. \A i \in Taken : emitted'[i] = emitted[i]
  BY <1>2, <1>3
<1> HIDE DEF L
<1>7. PathTaken' = {i \in Taken : emitted[i].step.inserted}
                     \cup (IF s.inserted THEN {L + 1} ELSE {})
  <2>1. \A i \in Taken : emitted'[i].step.inserted = emitted[i].step.inserted
    BY <1>6
  <2>2. emitted'[L + 1].step.inserted = s.inserted
    BY <1>2
  <2>3. PathTaken' = {i \in Taken \cup {L + 1} : emitted'[i].step.inserted}
    BY <1>5 DEF PathTaken
  <2> QED
    BY <2>1, <2>2, <2>3
<1>8. PlanTaken' = Taken' \ PathTaken' /\ PlanTaken = Taken \ PathTaken
      /\ PathTaken = {i \in Taken : emitted[i].step.inserted}
  BY DEF PlanTaken, PathTaken
<1>9. ASSUME s.inserted
      PROVE  PathTaken' = PathTaken \cup {L + 1} /\ PlanTaken' = PlanTaken
  BY <1>3, <1>5, <1>7, <1>8, <1>9
<1>10. ASSUME ~s.inserted
       PROVE  PlanTaken' = PlanTaken \cup {L + 1} /\ PathTaken' = PathTaken
  BY <1>3, <1>5, <1>7, <1>8, <1>10
<1> QED
  BY <1>2, <1>5, <1>6, <1>9, <1>10 DEF L

LEMMA KeptSame ==
  ASSUME Kept, plan' = plan, Taken' = Taken, \A i \in Taken : emitted'[i] = emitted[i]
  PROVE  /\ Kept' /\ PlanTaken' = PlanTaken /\ PathTaken' = PathTaken
         /\ PlanGone' = PlanGone /\ PathGone' = PathGone
<1>1. /\ PathTaken' = PathTaken /\ PlanTaken' = PlanTaken
      /\ PathTaken \subseteq Taken /\ PlanTaken \subseteq Taken
  BY DEF PathTaken, PlanTaken
<1>2. InOrderOf(plan, PlanTaken)' /\ InOrderOf(Default, PathTaken)'
  BY <1>1 DEF Kept, InOrderOf, Default
<1>3. InOnePiece'
  BY <1>1 DEF Kept, InOnePiece
<1> QED
  BY <1>1, <1>2, <1>3 DEF Kept, PlanGone, PathGone

(* The next step of the queue is taken.                                    *)
Take(x) ==
  /\ queue # <<>> /\ step' = Head(queue) /\ queue' = Tail(queue)
  /\ emitted' = emitted \o Chain(<<x>>, step')

LEMMA TakeStep ==
  ASSUME PlanInv, TypeInv', UNCHANGED <<plan, applied>>,
         NEW x \in {"SKIP_STEP", "AGENT_STEP_STARTED"}, Take(x)
  PROVE  Kept' /\ QueueInv' /\ LastInv'
<1> DEFINE L == Len(emitted)
           h == queue[1]
<1>1. /\ L \in Nat /\ step' = h /\ h \in Step /\ Len(queue) \in Nat /\ Len(queue) > 0
      /\ Len(queue') = Len(queue) - 1
      /\ TypeOK /\ Len(plan) \in Nat /\ applied \in BOOLEAN
  <2>1. TypeOK
    BY DEF PlanInv, TypeInv
  <2>2. /\ queue \in Seq(Step)
        /\ L \in Nat /\ Len(plan) \in Nat /\ applied \in BOOLEAN
    BY <2>1 DEF TypeOK
  <2>3. queue # <<>> /\ step' = Head(queue) /\ queue' = Tail(queue)
    BY DEF Take
  <2>4. /\ Head(queue) = h /\ h \in Step /\ Len(queue) \in Nat /\ Len(queue) > 0
        /\ Len(Tail(queue)) = Len(queue) - 1
    BY <2>2, <2>3
  <2> QED
    BY <2>1, <2>2, <2>3, <2>4
<1>a. \A i \in 1..Len(queue') : queue'[i] = queue[i + 1]
  BY DEF PlanInv, TypeInv, TypeOK, Take
<1>2. /\ Taken' = Taken \cup {L + 1}
      /\ \A i \in Taken : emitted'[i] = emitted[i]
      /\ emitted'[L + 1].step = h
      /\ h.inserted => PathTaken' = PathTaken \cup {L + 1} /\ PlanTaken' = PlanTaken
      /\ ~h.inserted => PlanTaken' = PlanTaken \cup {L + 1} /\ PathTaken' = PathTaken
  BY <1>1, OneTaken DEF Take
<1>3. /\ IsFiniteSet(PathTaken) /\ PathTaken \subseteq 1..L
      /\ IsFiniteSet(PlanTaken) /\ PlanTaken \subseteq 1..L
      /\ PathGone \in Nat /\ PlanGone \in Nat
  BY <1>1, GoneNat
<1>4. PathTaken \subseteq Taken /\ PlanTaken \subseteq Taken /\ Taken \subseteq 1..L
  BY <1>1, GoneNat
<1>5. Len(Default) = 3
  BY DEF Default
<1>6. /\ InOrderOf(plan, PlanTaken) /\ InOrderOf(Default, PathTaken) /\ InOnePiece
      /\ QueueInv /\ LastInv
  BY DEF PlanInv, Kept
<1>7. /\ Pending \in Nat /\ Left \in Nat /\ Len(queue) = Pending + Left
      /\ Pending = IF applied THEN 3 - PathGone ELSE 0
      /\ Left = Len(plan) - PlanGone
  BY <1>1, <1>3, <1>5, <1>6 DEF QueueInv, Pending, Left
<1> HIDE DEF L, h
<1>8. ASSUME Pending > 0
      PROVE  h = [agent |-> Default[PathGone + 1], inserted |-> TRUE]
  BY <1>6, <1>7, <1>8 DEF QueueInv, h
<1>9. ASSUME ~(Pending > 0)
      PROVE  h = [agent |-> plan[PlanGone + 1], inserted |-> FALSE] /\ Left > 0
  <2>1. Pending = 0 /\ Left > 0 /\ 1 \in 1..Left /\ Pending + 1 = 1
    BY <1>1, <1>7, <1>9
  <2> QED
    BY <1>6, <2>1 DEF QueueInv, h
<1>10. CASE Pending > 0
  <2>1. /\ h.inserted = TRUE /\ h.agent = Default[PathGone + 1]
        /\ applied /\ PathGone + 1 <= 3
    BY <1>3, <1>7, <1>8, <1>10
  <2>2. PathTaken' = PathTaken \cup {L + 1} /\ PlanTaken' = PlanTaken
    BY <1>2, <2>1
  <2>3. PlanGone' = PlanGone /\ PathGone' = PathGone + 1
    BY <1>1, <1>3, <2>2, Later DEF PlanGone, PathGone
  <2>4. Taken' = Taken \cup {L + 1}
    BY <1>2
  <2>5. InOrderOf(plan, PlanTaken)'
    BY <1>2, <1>4, <1>6, <2>2 DEF InOrderOf
  <2>6. InOrderOf(Default, PathTaken)'
    <3>1. \A i \in PathTaken : emitted'[i] = emitted[i]
      BY <1>2, <1>4
    <3>2. emitted'[L + 1].step.agent = Default[Cardinality(PathTaken) + 1]
      BY <1>2, <2>1 DEF PlanGone, PathGone
    <3>3. \A i \in PathTaken : /\ Ordinal(i, PathTaken) <= Len(Default)
                                   /\ emitted[i].step.agent = Default[Ordinal(i, PathTaken)]
      BY <1>6 DEF InOrderOf
    <3>4. Cardinality(PathTaken) + 1 <= Len(Default)
      BY <1>5, <2>1 DEF PlanGone, PathGone
    <3>5. \A i \in PathTaken \cup {L + 1} :
            /\ Ordinal(i, PathTaken \cup {L + 1}) <= Len(Default)
            /\ emitted'[i].step.agent = Default[Ordinal(i, PathTaken \cup {L + 1})]
      <4>1. /\ \A i \in PathTaken : Ordinal(i, PathTaken \cup {L + 1}) = Ordinal(i, PathTaken)
            /\ Ordinal(L + 1, PathTaken \cup {L + 1}) = Cardinality(PathTaken) + 1
        BY <1>1, <1>3, Later
      <4> QED
        BY ONLY <3>1, <3>2, <3>3, <3>4, <4>1
    <3> QED
      BY <2>2, <3>5 DEF InOrderOf, Default
  <2>7. InOnePiece'
    <3>1. PICK m \in Taken : (\A k \in Taken : k <= m) /\ emitted[m].step = step
      BY <1>6, <1>10 DEF LastInv
    <3>2. ASSUME NEW i \in PathTaken
          PROVE  \E j \in Taken' :
                    /\ j < i
                    /\ \A k \in Taken' : k <= j \/ k >= i
                    /\ IF \E k \in PathTaken' : k < i
                         THEN emitted'[j].step.inserted
                         ELSE emitted'[j].step.agent = "quality" /\ ~emitted'[j].step.inserted
      <4>1. PICK j \in Taken :
                    /\ j < i
                    /\ \A k \in Taken : k <= j \/ k >= i
                    /\ IF \E k \in PathTaken : k < i
                         THEN emitted[j].step.inserted
                         ELSE emitted[j].step.agent = "quality" /\ ~emitted[j].step.inserted
        BY <1>6 DEF InOnePiece
      <4>2. L + 1 >= i /\ ~(L + 1 < i)
        BY <1>1, <1>3
      <4>3. (\E k \in PathTaken' : k < i) <=> (\E k \in PathTaken : k < i)
        BY <2>2, <4>2
      <4>4. j \in Taken' /\ emitted'[j] = emitted[j]
        BY <1>2, <2>4
      <4>5. \A k \in Taken' : k <= j \/ k >= i
        BY <2>4, <4>1, <4>2
      <4> QED
        BY <4>1, <4>3, <4>4, <4>5
    <3>3. /\ m \in Taken' /\ m < L + 1 /\ emitted'[m].step = step
          /\ \A k \in Taken' : k <= m \/ k >= L + 1
      BY <1>1, <1>2, <1>4, <2>4, <3>1
    <3>4. (\E k \in PathTaken' : k < L + 1) <=> PathGone > 0
      <4>1. (\E k \in PathTaken' : k < L + 1) <=> PathTaken # {}
        <5>1. \A k \in PathTaken : k < L + 1
          BY <1>1, <1>3
        <5> QED
          BY <1>1, <2>2, <5>1
      <4>2. (Cardinality(PathTaken) = 0) <=> (PathTaken = {})
        BY <1>3, FS_EmptySet
      <4> QED
        <5>1. PathGone > 0 <=> PathGone # 0
          BY <1>3
        <5> QED
          BY <4>1, <4>2, <5>1 DEF PathGone
    <3>5. IF PathGone > 0 THEN step.inserted ELSE step.agent = "quality" /\ ~step.inserted
      BY <1>3, <1>6, <1>10 DEF LastInv
    <3>6. \E j \in Taken' :
                    /\ j < L + 1
                    /\ \A k \in Taken' : k <= j \/ k >= L + 1
                    /\ IF \E k \in PathTaken' : k < L + 1
                         THEN emitted'[j].step.inserted
                         ELSE emitted'[j].step.agent = "quality" /\ ~emitted'[j].step.inserted
      BY <3>3, <3>4, <3>5
    <3> QED
      BY <2>2, <3>2, <3>6 DEF InOnePiece
  <2>8. QueueInv'
    <3>1. Pending' = Pending - 1 /\ Left' = Left
      BY <1>3, <1>5, <1>7, <2>1, <2>3 DEF Pending, Left
    <3>2. Len(queue') = Pending' + Left'
      BY <1>1, <1>7, <3>1
    <3>3. ASSUME NEW i \in 1..Pending'
          PROVE  queue'[i] = [agent |-> Default[PathGone' + i], inserted |-> TRUE]
      <4>1. i + 1 \in 1..Pending /\ i \in 1..Len(queue') /\ PathGone + (i + 1) = PathGone' + i
        BY <1>3, <1>7, <2>3, <3>1, <3>2
      <4>2. queue[i + 1] = [agent |-> Default[PathGone + (i + 1)], inserted |-> TRUE]
        BY <1>6, <4>1 DEF QueueInv
      <4> QED
        BY <1>a, <4>1, <4>2
    <3>4. ASSUME NEW i \in 1..Left'
          PROVE  queue'[Pending' + i] = [agent |-> plan[PlanGone' + i], inserted |-> FALSE]
      <4>1. /\ i \in 1..Left /\ Pending' + i \in 1..Len(queue')
            /\ (Pending' + i) + 1 = Pending + i
        <5>1. i \in 1..Left /\ Pending' = Pending - 1 /\ Len(queue') = (Pending - 1) + Left
          BY <3>1, <3>2
        <5>2. Pending \in Nat /\ Left \in Nat /\ Pending > 0
          BY <1>7, <1>10
        <5> QED
          BY ONLY <5>1, <5>2
      <4>2. queue[Pending + i] = [agent |-> plan[PlanGone + i], inserted |-> FALSE]
        BY <1>6, <4>1 DEF QueueInv
      <4> QED
        BY <1>a, <2>3, <4>1, <4>2
    <3>5. /\ PlanGone' <= Len(plan') /\ PathGone' <= Len(Default)
          /\ PathGone' > 0 => applied'
      BY <1>5, <1>6, <2>1, <2>3 DEF QueueInv
    <3> QED
      BY <3>2, <3>3, <3>4, <3>5 DEF QueueInv, Default
  <2>9. LastInv'
    <3>1. PathGone' > 0 /\ step'.inserted /\ PathGone' # 0
      BY <1>1, <1>3, <2>1, <2>3
    <3>2. /\ L + 1 \in Taken' /\ \A k \in Taken' : k <= L + 1
          /\ emitted'[L + 1].step = step'
      BY <1>1, <1>2, <1>4, <2>4
    <3> QED
      BY <3>1, <3>2 DEF LastInv
  <2> QED
    BY <2>5, <2>6, <2>7, <2>8, <2>9 DEF Kept
<1>11. CASE ~(Pending > 0)
  <2>1. /\ h.inserted = FALSE /\ h.agent = plan[PlanGone + 1]
        /\ PlanGone + 1 <= Len(plan) /\ Left > 0
    BY <1>1, <1>3, <1>7, <1>9, <1>11
  <2>2. PlanTaken' = PlanTaken \cup {L + 1} /\ PathTaken' = PathTaken
    BY <1>2, <2>1
  <2>3. PathGone' = PathGone /\ PlanGone' = PlanGone + 1
    BY <1>1, <1>3, <2>2, Later DEF PlanGone, PathGone
  <2>4. Taken' = Taken \cup {L + 1}
    BY <1>2
  <2>5. InOrderOf(Default, PathTaken)'
    BY <1>2, <1>4, <1>6, <2>2 DEF InOrderOf, Default
  <2>6. InOrderOf(plan, PlanTaken)'
    <3>1. \A i \in PlanTaken : emitted'[i] = emitted[i]
      BY <1>2, <1>4
    <3>2. emitted'[L + 1].step.agent = plan[Cardinality(PlanTaken) + 1]
      BY <1>2, <2>1 DEF PlanGone, PathGone
    <3>3. \A i \in PlanTaken : /\ Ordinal(i, PlanTaken) <= Len(plan)
                                   /\ emitted[i].step.agent = plan[Ordinal(i, PlanTaken)]
      BY <1>6 DEF InOrderOf
    <3>4. Cardinality(PlanTaken) + 1 <= Len(plan)
      BY <2>1 DEF PlanGone, PathGone
    <3>5. \A i \in PlanTaken \cup {L + 1} :
            /\ Ordinal(i, PlanTaken \cup {L + 1}) <= Len(plan)
            /\ emitted'[i].step.agent = plan[Ordinal(i, PlanTaken \cup {L + 1})]
      <4>1. /\ \A i \in PlanTaken : Ordinal(i, PlanTaken \cup {L + 1}) = Ordinal(i, PlanTaken)
            /\ Ordinal(L + 1, PlanTaken \cup {L + 1}) = Cardinality(PlanTaken) + 1
        BY <1>1, <1>3, Later
      <4> QED
        BY ONLY <3>1, <3>2, <3>3, <3>4, <4>1
    <3> QED
      BY <2>2, <3>5 DEF InOrderOf
  <2>7. InOnePiece'
    <3> SUFFICES ASSUME NEW i \in PathTaken
          PROVE  \E j \in Taken' :
                    /\ j < i
                    /\ \A k \in Taken' : k <= j \/ k >= i
                    /\ IF \E k \in PathTaken : k < i
                         THEN emitted'[j].step.inserted
                         ELSE emitted'[j].step.agent = "quality" /\ ~emitted'[j].step.inserted
      BY <2>2 DEF InOnePiece
    <3>1. PICK j \in Taken :
                    /\ j < i
                    /\ \A k \in Taken : k <= j \/ k >= i
                    /\ IF \E k \in PathTaken : k < i
                         THEN emitted[j].step.inserted
                         ELSE emitted[j].step.agent = "quality" /\ ~emitted[j].step.inserted
      BY <1>6 DEF InOnePiece
    <3>2. L + 1 >= i
      BY <1>1, <1>3
    <3>3. j \in Taken' /\ emitted'[j] = emitted[j] /\ \A k \in Taken' : k <= j \/ k >= i
      BY <1>2, <2>4, <3>1, <3>2
    <3> QED
      BY <3>1, <3>3
  <2>8. Pending' = 0 /\ Pending = 0 /\ Left' = Left - 1
    BY <1>3, <1>5, <1>7, <1>11, <2>3 DEF Pending, Left
  <2>9. QueueInv'
    <3>2. Len(queue') = Pending' + Left'
      BY <1>1, <1>7, <2>8
    <3>4. ASSUME NEW i \in 1..Left'
          PROVE  queue'[Pending' + i] = [agent |-> plan[PlanGone' + i], inserted |-> FALSE]
      <4>1. /\ i + 1 \in 1..Left /\ i \in 1..Len(queue')
            /\ Pending' + i = i /\ Pending + (i + 1) = i + 1
            /\ PlanGone + (i + 1) = PlanGone' + i
        BY <1>3, <1>7, <2>3, <2>8, <3>2
      <4>2. queue[Pending + (i + 1)] = [agent |-> plan[PlanGone + (i + 1)], inserted |-> FALSE]
        BY <1>6, <4>1 DEF QueueInv
      <4> QED
        BY <1>a, <4>1, <4>2
    <3>5. /\ PlanGone' <= Len(plan') /\ PathGone' <= Len(Default)
          /\ PathGone' > 0 => applied'
      BY <1>5, <1>6, <2>1, <2>3 DEF QueueInv
    <3>6. \A i \in 1..Pending' : FALSE
      BY <2>8
    <3> QED
      BY <3>2, <3>4, <3>5, <3>6 DEF QueueInv, Default
  <2>10. LastInv'
    <3>1. ~step'.inserted /\ ~(Pending' > 0)
      BY <1>1, <2>1, <2>8
    <3>2. /\ L + 1 \in Taken' /\ \A k \in Taken' : k <= L + 1
          /\ emitted'[L + 1].step = step'
      BY <1>1, <1>2, <1>4, <2>4
    <3> QED
      BY <3>1, <3>2 DEF LastInv
  <2> QED
    BY <2>5, <2>6, <2>7, <2>9, <2>10 DEF Kept
<1> QED
  BY <1>10, <1>11

(* A step of the run that takes none and keeps its queue.                  *)
LEMMA TakesNone ==
  ASSUME PlanInv, TypeInv', UNCHANGED <<plan, queue, applied, step>>,
         pc' \in {"execute", "except"} => pc \in {"execute", "except"},
         Taken' = Taken, \A i \in Taken : emitted'[i] = emitted[i]
  PROVE  Kept' /\ QueueInv' /\ LastInv' /\ PlanGone' = PlanGone /\ PathGone' = PathGone
<1>1. /\ Kept' /\ PlanTaken' = PlanTaken /\ PathTaken' = PathTaken
      /\ PlanGone' = PlanGone /\ PathGone' = PathGone
  BY KeptSame DEF PlanInv
<1>2. Pending' = Pending /\ Left' = Left
  BY <1>1 DEF Pending, Left, Default
<1>3. QueueInv'
  BY <1>1, <1>2 DEF PlanInv, QueueInv, Default
<1>4. LastInv'
  BY <1>1, <1>2 DEF PlanInv, LastInv
<1> QED
  BY <1>1, <1>3, <1>4

(* A quality step of a run that has not taken the path puts it in front.   *)
LEMMA InsertsPath ==
  ASSUME PlanInv, TypeInv', UNCHANGED <<plan, step>>, pc = "execute", step.agent = "quality",
         ~applied, applied', queue' = AdaptivePlan \o queue,
         Taken' = Taken, \A i \in Taken : emitted'[i] = emitted[i]
  PROVE  Kept' /\ QueueInv' /\ LastInv'
<1>1. /\ Kept' /\ PlanTaken' = PlanTaken /\ PathTaken' = PathTaken
      /\ PlanGone' = PlanGone /\ PathGone' = PathGone
  BY KeptSame DEF PlanInv
<1>2. PathGone = 0 /\ Pending = 0 /\ PlanGone \in Nat /\ PlanGone <= Len(plan)
  BY GoneNat DEF PlanInv, QueueInv, Pending, TypeInv
<1>3. Len(Default) = 3 /\ Len(plan) \in Nat
  BY DEF Default, PlanInv, TypeInv, TypeOK
<1>4. Pending' = 3 /\ Left' = Left /\ Left \in Nat /\ Left = Len(plan) - PlanGone
  <2>1. Left' = Left /\ Left \in Nat /\ Left = Len(plan) - PlanGone
    BY <1>1, <1>2, <1>3 DEF Left
  <2>2. Pending' = 3
    BY <1>1, <1>2, <1>3 DEF Pending, Default
  <2> QED
    BY <2>1, <2>2
<1>5. /\ AdaptivePlan \in Seq(Step) /\ Len(AdaptivePlan) = 3
      /\ \A i \in 1..3 : AdaptivePlan[i] = [agent |-> Default[i], inserted |-> TRUE]
  <2>1. Default \in Seq(Agents)
    BY DEF Default, Agents
  <2>2. AdaptivePlan = [i \in 1..3 |-> [agent |-> Default[i], inserted |-> TRUE]]
    BY DEF AdaptivePlan, Steps, Default
  <2>3. AdaptivePlan \in Seq(Step)
    BY <2>1, StepsType DEF AdaptivePlan
  <2> QED
    BY <2>2, <2>3
<1>6. queue \in Seq(Step) /\ Len(queue) = Left
  <2>1. queue \in Seq(Step) /\ Len(queue) = Pending + Left
    BY DEF PlanInv, TypeInv, TypeOK, QueueInv
  <2> QED
    BY <1>2, <1>4, <2>1
<1>7. /\ Len(queue') = 3 + Len(queue)
      /\ \A i \in 1..3 : queue'[i] = AdaptivePlan[i]
      /\ \A i \in 1..Len(queue) : queue'[3 + i] = queue[i]
  <2>1. AdaptivePlan \in Seq(Step) /\ queue \in Seq(Step)
    BY <1>5, <1>6
  <2>2. /\ Len(AdaptivePlan \o queue) = Len(AdaptivePlan) + Len(queue)
        /\ \A i \in 1..Len(AdaptivePlan) : (AdaptivePlan \o queue)[i] = AdaptivePlan[i]
        /\ \A i \in 1..Len(queue) : (AdaptivePlan \o queue)[Len(AdaptivePlan) + i] = queue[i]
    BY ONLY <2>1, Concat
  <2>3. Len(AdaptivePlan) = 3 /\ queue' = AdaptivePlan \o queue
    BY <1>5
  <2> QED
    BY ONLY <2>2, <2>3
<1>8. QueueInv'
  <2>1. PlanGone' <= Len(plan') /\ PathGone' <= Len(Default') /\ (PathGone' > 0 => applied')
    BY <1>1, <1>2, <1>3 DEF Default
  <2>2. Len(queue') = Pending' + Left'
    BY <1>4, <1>6, <1>7
  <2>3. ASSUME NEW i \in 1..Pending'
        PROVE  queue'[i] = [agent |-> Default[PathGone' + i], inserted |-> TRUE]
    <3>1. i \in 1..3 /\ PathGone' + i = i
      BY <1>1, <1>2, <1>4
    <3> QED
      BY <1>5, <1>7, <3>1
  <2>4. ASSUME NEW i \in 1..Left'
        PROVE  queue'[Pending' + i] = [agent |-> plan'[PlanGone' + i], inserted |-> FALSE]
    <3>1. i \in 1..Left /\ i \in 1..Len(queue) /\ Pending + i = i
      BY <1>2, <1>4, <1>6
    <3>2. queue[Pending + i] = [agent |-> plan[PlanGone + i], inserted |-> FALSE]
      BY <3>1 DEF PlanInv, QueueInv
    <3> QED
      BY <1>1, <1>4, <1>7, <3>1, <3>2
  <2> QED
    BY <2>1, <2>2, <2>3, <2>4 DEF QueueInv, Default
<1>9. LastInv'
  <2>1. ~(PathGone > 0) /\ PathGone' = 0 /\ ~(PathGone' > 0)
    BY <1>1, <1>2
  <2>2. ~step.inserted /\ Taken # {}
    BY <2>1 DEF PlanInv, LastInv
  <2>3. \E m \in Taken : (\A k \in Taken : k <= m) /\ emitted[m].step = step
    BY <2>2 DEF PlanInv, LastInv
  <2> QED
    BY <2>1, <2>2, <2>3 DEF LastInv
<1> QED
  BY <1>1, <1>8, <1>9

(* An emit of one event publishes it, whether it returns or raises.        *)
LEMMA OneEvent ==
  ASSUME NEW x, NEW s, EmitRaising(<<x>>, s)
  PROVE  emitted' = emitted \o Chain(<<x>>, s)
<1>1. PICK n \in DOMAIN <<x>> : emitted' = emitted \o Chain(SubSeq(<<x>>, 1, n), s)
  BY DEF EmitRaising
<1>2. n = 1
  OBVIOUS
<1>3. SubSeq(<<x>>, 1, 1) = <<x>>
  <2> DEFINE S == {x}
             t == SubSeq(<<x>>, 1, 1)
             u == <<x>>
  <2>1. u \in Seq(S) /\ Len(u) = 1 /\ u[1] = x
    OBVIOUS
  <2>2. t \in Seq(S) /\ Len(t) = 1 /\ t[1] = x
    BY <2>1
  <2> HIDE DEF S, t, u
  <2>3. Len(u) = Len(t) /\ \A i \in 1..Len(t) : t[i] = u[i]
    BY <2>1, <2>2
  <2>4. t = u
    BY ONLY <2>1, <2>2, <2>3, SeqEqual
  <2> QED
    BY <2>4 DEF t, u
<1> QED
  BY <1>1, <1>2, <1>3

LEMMA InitPlan == Init => PlanInv
<1> SUFFICES ASSUME Init PROVE PlanInv
  OBVIOUS
<1>1. /\ emitted = <<>> /\ ~applied /\ step = NoStep /\ pc = "start"
      /\ queue = Steps(plan, FALSE) /\ plan \in Seq(Agents) /\ TypeInv
  BY InitTypes DEF Init, TypeInv, TypeOK
<1>2. Taken = {} /\ PlanTaken = {} /\ PathTaken = {}
  BY <1>1 DEF Taken, Places, PlanTaken, PathTaken
<1>3. PlanGone = 0 /\ PathGone = 0
  BY <1>2, FS_EmptySet DEF PlanGone, PathGone
<1>4. Kept
  BY <1>2 DEF Kept, InOrderOf, InOnePiece
<1>5. Len(plan) \in Nat /\ Len(Default) = 3
  BY <1>1 DEF Default
<1>6. Pending = 0 /\ Left = Len(plan)
  BY <1>1, <1>3, <1>5 DEF Pending, Left
<1>7. /\ Len(queue) = Len(plan)
      /\ \A i \in 1..Len(plan) : queue[i] = [agent |-> plan[i], inserted |-> FALSE]
  <2>1. queue = [i \in 1..Len(plan) |-> [agent |-> plan[i], inserted |-> FALSE]]
    BY <1>1 DEF Steps
  <2> QED
    BY <1>5, <2>1
<1>8. QueueInv
  <2>1. \A i \in 1..Left : queue[Pending + i] = [agent |-> plan[PlanGone + i], inserted |-> FALSE]
    BY <1>3, <1>5, <1>6, <1>7
  <2>2. Len(queue) = Pending + Left /\ \A i \in 1..Pending : FALSE
    BY <1>5, <1>6, <1>7
  <2> QED
    BY <1>3, <1>5, <2>1, <2>2 DEF QueueInv
<1>9. LastInv
  BY <1>1, <1>2, <1>6 DEF LastInv, NoStep
<1>10. AllTaken
  BY <1>1 DEF AllTaken
<1> QED
  BY <1>1, <1>4, <1>8, <1>9, <1>10 DEF PlanInv

LEMMA NextPlan == PlanInv /\ [Next]_vars => PlanInv'
<1> SUFFICES ASSUME PlanInv, [Next]_vars PROVE PlanInv'
  OBVIOUS
<1>1. TypeOK /\ TypeInv' /\ step \in Step /\ step' \in Step /\ NoStep \in Step
  BY NextTypes DEF PlanInv, TypeInv, TypeOK, NoStep, Step, Agents
<1> DEFINE Calm(types) == \A i \in 1..Len(types) : types[i] \notin {"SKIP_STEP", "AGENT_STEP_STARTED"}
           Same == Taken' = Taken /\ \A i \in Taken : emitted'[i] = emitted[i]
<1>2. ASSUME NEW types \in Seq(EventTypes), NEW s \in Step, Calm(types),
             Emit(types, s) \/ EmitRaising(types, s)
      PROVE  Same
  <2>1. CASE Emit(types, s)
    <3>1. emitted' = emitted \o Chain(types, s)
      BY <2>1 DEF Emit
    <3> QED
      BY <1>1, <1>2, <3>1, NothingTaken
  <2>2. CASE EmitRaising(types, s)
    <3>1. PICK n \in 1..Len(types) : emitted' = emitted \o Chain(SubSeq(types, 1, n), s)
      BY <1>1, <2>2, EmitRaisingType
    <3> DEFINE ts == SubSeq(types, 1, n)
    <3>2. ts \in Seq(EventTypes) /\ Len(ts) = n /\ \A i \in 1..n : ts[i] = types[i] /\ i \in 1..Len(types)
      OBVIOUS
    <3>3. emitted' = emitted \o Chain(ts, s)
      BY <3>1
    <3> HIDE DEF ts
    <3>4. \A i \in 1..Len(ts) : ts[i] \notin {"SKIP_STEP", "AGENT_STEP_STARTED"}
      BY <1>2, <3>2
    <3> QED
      BY <1>1, <3>2, <3>3, <3>4, NothingTaken
  <2> QED
    BY <1>2, <2>1, <2>2
<1>3. /\ <<"SWARM_STARTED", "PLANNER_DECISION">> \in Seq(EventTypes)
      /\ <<"AGENT_STEP_COMPLETED">> \in Seq(EventTypes)
      /\ <<"AGENT_STEP_COMPLETED", "INSERT_RETRY_PATH">> \in Seq(EventTypes)
      /\ <<"AGENT_STEP_RETRY", "RETRY">> \in Seq(EventTypes)
      /\ <<"AGENT_STEP_FAILED", "SWARM_FAILED", "SWARM_RESULT">> \in Seq(EventTypes)
      /\ <<"AGENT_STEP_FAILED">> \in Seq(EventTypes)
      /\ <<"SWARM_COMPLETED", "SWARM_RESULT">> \in Seq(EventTypes)
  BY DEF EventTypes
<1>4. /\ Calm(<<"SWARM_STARTED", "PLANNER_DECISION">>)
      /\ Calm(<<"AGENT_STEP_COMPLETED">>)
      /\ Calm(<<"AGENT_STEP_COMPLETED", "INSERT_RETRY_PATH">>)
      /\ Calm(<<"AGENT_STEP_RETRY", "RETRY">>)
      /\ Calm(<<"AGENT_STEP_FAILED", "SWARM_FAILED", "SWARM_RESULT">>)
      /\ Calm(<<"AGENT_STEP_FAILED">>)
      /\ Calm(<<"SWARM_COMPLETED", "SWARM_RESULT">>)
  OBVIOUS
<1>5. CASE /\ Same /\ UNCHANGED <<plan, queue, applied, step>>
           /\ pc' \in {"execute", "except"} => pc \in {"execute", "except"}
           /\ pc' # "done"
  BY <1>1, <1>5, TakesNone DEF PlanInv, AllTaken
<1> HIDE DEF Calm, Same
<1>6. CASE Begin
  <2>1. Same
    BY <1>1, <1>2, <1>3, <1>4, <1>6 DEF Begin
  <2> QED
    BY <1>5, <1>6, <2>1 DEF Begin
<1>7. CASE SkipStep
  <2>1. Take("SKIP_STEP") /\ UNCHANGED <<plan, applied>> /\ pc' \in {"take", "aborted"}
    BY <1>7, OneEvent DEF SkipStep, Take, Emit
  <2> QED
    BY <1>1, <2>1, TakeStep DEF PlanInv, AllTaken
<1>8. CASE StartStep
  <2>1. Take("AGENT_STEP_STARTED") /\ UNCHANGED <<plan, applied>> /\ pc' \in {"execute", "aborted"}
    BY <1>8, OneEvent DEF StartStep, Take, Emit
  <2> QED
    BY <1>1, <2>1, TakeStep DEF PlanInv, AllTaken
<1>9. CASE Complete
  <2>1. Same /\ UNCHANGED <<plan, step>> /\ pc = "execute" /\ pc' \in {"take", "except"}
    BY <1>1, <1>2, <1>3, <1>4, <1>9 DEF Complete
  <2>2. CASE UNCHANGED <<queue, applied>>
    BY <1>5, <2>1, <2>2
  <2>3. CASE step.agent = "quality" /\ ~applied /\ applied' = TRUE /\ queue' = AdaptivePlan \o queue
    <3>1. Kept' /\ QueueInv' /\ LastInv'
      BY <1>1, <2>1, <2>3, InsertsPath DEF Same
    <3> QED
      BY <1>1, <2>1, <3>1 DEF PlanInv, AllTaken
  <2> QED
    BY <1>9, <2>2, <2>3 DEF Complete
<1>10. CASE Fail
  BY <1>5, <1>10 DEF Fail, Same, Taken, Places
<1>11. CASE Retry
  <2>1. Same
    BY <1>1, <1>2, <1>3, <1>4, <1>11 DEF Retry
  <2> QED
    BY <1>5, <1>11, <2>1 DEF Retry
<1>12. CASE GiveUp
  <2>1. Same /\ UNCHANGED <<plan, queue, applied, step>> /\ pc' \in {"done", "aborted"}
    BY <1>1, <1>2, <1>3, <1>4, <1>12 DEF GiveUp
  <2>2. pc' = "done" => report'[1].status = "failed"
    BY <1>12 DEF GiveUp, Report
  <2>3. Kept' /\ QueueInv' /\ LastInv'
    BY <1>1, <2>1, TakesNone DEF Same
  <2> QED
    BY <1>1, <2>1, <2>2, <2>3 DEF PlanInv, AllTaken
<1>13. CASE Finish
  <2>1. Same /\ UNCHANGED <<plan, queue, applied, step>> /\ pc' = "done" /\ queue = <<>>
    BY <1>1, <1>2, <1>3, <1>4, <1>13 DEF Finish
  <2>2. Kept' /\ QueueInv' /\ LastInv' /\ PlanGone' = PlanGone /\ PathGone' = PathGone
    BY <1>1, <2>1, TakesNone DEF Same
  <2>3. /\ PlanGone \in Nat /\ PathGone \in Nat /\ Len(plan) \in Nat /\ Len(queue) = 0
        /\ Len(Default) = 3
    BY <1>1, <2>1, GoneNat DEF TypeOK, Default
  <2>4. /\ PlanGone <= Len(plan) /\ PathGone <= 3 /\ 0 = Pending + (Len(plan) - PlanGone)
        /\ Pending = IF applied THEN 3 - PathGone ELSE 0
        /\ PathGone > 0 => applied
    BY <2>3 DEF PlanInv, QueueInv, Pending, Left
  <2>5. PlanGone = Len(plan) /\ (applied => PathGone = 3) /\ (~applied => PathGone = 0)
    BY <2>3, <2>4
  <2>6. AllTaken'
    BY <2>1, <2>2, <2>3, <2>5 DEF AllTaken, Default
  <2> QED
    BY <1>1, <2>2, <2>6 DEF PlanInv
<1>14. CASE UNCHANGED vars
  <2>1. Same /\ UNCHANGED <<plan, queue, applied, step, pc, report>>
    BY <1>14 DEF vars, Same, Taken, Places
  <2>2. Kept' /\ QueueInv' /\ LastInv' /\ PlanGone' = PlanGone /\ PathGone' = PathGone
    BY <1>1, <2>1, TakesNone DEF Same
  <2> QED
    BY <1>1, <2>1, <2>2 DEF PlanInv, AllTaken, Default
<1> QED
  BY <1>6, <1>7, <1>8, <1>9, <1>10, <1>11, <1>12, <1>13, <1>14 DEF Next

(* The steps a run takes are those of its plan in their order, with the    *)
(* retry path once, in one piece, after a quality step; a completed run    *)
(* has taken them all.                                                     *)
THEOREM PlanHolds == Spec => []PlanFollowed
<1>1. PlanInv => PlanFollowed
  BY DEF PlanInv, Kept, AllTaken, PlanFollowed, PlanGone, PathGone
<1> QED
  BY <1>1, InitPlan, NextPlan, PTL DEF Spec

-----------------------------------------------------------------------------
(* What those who listen may rely on                                       *)

StepTold == {"AGENT_STEP_COMPLETED", "AGENT_STEP_FAILED", "AGENT_STEP_RETRY"}

(* Nothing is said of a step before some step was started.                 *)
StepsStart ==
  \A j \in DOMAIN emitted : emitted[j].type \in StepTold =>
     \E i \in 1..(j - 1) : emitted[i].type = "AGENT_STEP_STARTED"

OrderInv ==
  /\ RunInv
  /\ StepsStart
  /\ pc \in {"execute", "except"} => Places("AGENT_STEP_STARTED") # {}
  /\ pc = "done" => report # <<>>

(* An emit keeps both the events and what was started before them.         *)
LEMMA StartsKept ==
  ASSUME TypeOK, NEW types \in Seq(EventTypes), NEW s \in Step, emitted' = emitted \o Chain(types, s), StepsStart,
         Places("AGENT_STEP_STARTED") # {} \/ \A i \in 1..Len(types) : types[i] \notin StepTold
  PROVE  /\ StepsStart'
         /\ Places("AGENT_STEP_STARTED") # {} => Places("AGENT_STEP_STARTED")' # {}
<1>1. /\ Len(emitted) \in Nat /\ Len(types) \in Nat /\ DOMAIN emitted = 1..Len(emitted)
      /\ Len(emitted') = Len(emitted) + Len(types) /\ DOMAIN emitted' = 1..Len(emitted')
      /\ \A i \in 1..Len(emitted) : emitted'[i] = emitted[i]
      /\ \A i \in 1..Len(types) : emitted'[Len(emitted) + i].type = types[i]
  <2>1. emitted \in Seq(Event)
    BY DEF TypeOK, Event
  <2>2. /\ Len(emitted') = Len(emitted) + Len(types) /\ DOMAIN emitted' = 1..Len(emitted')
        /\ \A i \in 1..Len(emitted) : emitted'[i] = emitted[i]
        /\ \A i \in 1..Len(types) : /\ emitted'[Len(emitted) + i].type = types[i]
                                     /\ emitted'[Len(emitted) + i].step = s
    BY Emitted
  <2>3. Len(emitted) \in Nat /\ Len(types) \in Nat /\ DOMAIN emitted = 1..Len(emitted)
    <3> HIDE DEF Event, EventTypes
    <3> QED
      BY <2>1
  <2> QED
    BY <2>2, <2>3
<1>2. ASSUME NEW j \in DOMAIN emitted', emitted'[j].type \in StepTold
      PROVE  \E i \in 1..(j - 1) : emitted'[i].type = "AGENT_STEP_STARTED"
  <2>1. CASE j \in 1..Len(emitted)
    <3>1. PICK i \in 1..(j - 1) : emitted[i].type = "AGENT_STEP_STARTED"
      BY <1>1, <1>2, <2>1 DEF StepsStart
    <3>2. i \in 1..Len(emitted)
      BY <1>1, <2>1
    <3> QED
      BY <1>1, <3>1, <3>2
  <2>2. CASE j \notin 1..Len(emitted)
    <3>1. j - Len(emitted) \in 1..Len(types) /\ j = Len(emitted) + (j - Len(emitted))
      BY <1>1, <1>2, <2>2
    <3>2. types[j - Len(emitted)] \in StepTold
      BY <1>1, <1>2, <3>1
    <3>3. PICK i \in 1..Len(emitted) : emitted[i].type = "AGENT_STEP_STARTED"
      BY <1>1, <3>1, <3>2 DEF Places
    <3>4. i \in 1..(j - 1)
      BY <1>1, <1>2, <2>2
    <3> QED
      BY <1>1, <3>3, <3>4
  <2> QED
    BY <2>1, <2>2
<1>3. \A i \in Places("AGENT_STEP_STARTED") : i \in Places("AGENT_STEP_STARTED")'
  BY <1>1 DEF Places
<1> QED
  BY <1>2, <1>3 DEF StepsStart

LEMMA InitOrder == Init => OrderInv
BY InitRun DEF Init, OrderInv, StepsStart

LEMMA NextOrder == OrderInv /\ [Next]_vars => OrderInv'
<1> SUFFICES ASSUME OrderInv, [Next]_vars PROVE OrderInv'
  OBVIOUS
<1>0. /\ TypeOK /\ RunInv' /\ TypeInv' /\ step \in Step /\ step' \in Step /\ NoStep \in Step /\ StepsStart
  <2>1. RunInv /\ RunInv' /\ StepsStart
    BY NextRun DEF OrderInv
  <2> QED
    BY <2>1 DEF RunInv, TypeInv, TypeOK, NoStep, Step, Agents
<1>1. ASSUME NEW types \in Seq(EventTypes), NEW s \in Step, Emit(types, s) \/ EmitRaising(types, s),
             Places("AGENT_STEP_STARTED") # {} \/ \A i \in 1..Len(types) : types[i] \notin StepTold
      PROVE  StepsStart' /\ (Places("AGENT_STEP_STARTED") # {} => Places("AGENT_STEP_STARTED")' # {})
  <2>1. CASE Emit(types, s)
    BY <1>0, <1>1, <2>1, EmitType, StartsKept
  <2>2. CASE EmitRaising(types, s)
    <3>1. PICK n \in 1..Len(types) : emitted' = emitted \o Chain(SubSeq(types, 1, n), s)
      BY <1>0, <1>1, <2>2, EmitRaisingType
    <3>2. PICK begun \in Seq(EventTypes) :
             begun = SubSeq(types, 1, n) /\ Len(begun) = n /\ \A i \in 1..n : begun[i] = types[i]
      <4> HIDE DEF EventTypes
      <4>1. n \in 1..Len(types) /\ types \in Seq(EventTypes)
        OBVIOUS
      <4>2. SubSeq(types, 1, n) \in Seq(EventTypes) /\ Len(SubSeq(types, 1, n)) = n
            /\ \A i \in 1..n : SubSeq(types, 1, n)[i] = types[i]
        BY ONLY <4>1
      <4> QED
        BY <4>2
    <3>3. \A i \in 1..Len(begun) : i \in 1..Len(types) /\ begun[i] = types[i]
      BY <3>2
    <3> QED
      BY <1>0, <1>1, <3>1, <3>2, <3>3, StartsKept
  <2> QED
    BY <1>1, <2>1, <2>2
<1>2. CASE Begin
  <2>1. <<"SWARM_STARTED", "PLANNER_DECISION">> \in Seq(EventTypes)
        /\ \A i \in 1..2 : <<"SWARM_STARTED", "PLANNER_DECISION">>[i] \notin StepTold
    BY DEF EventTypes, StepTold
  <2> QED
    BY <1>0, <1>1, <1>2, <2>1 DEF Begin, OrderInv
<1>3. CASE SkipStep
  <2>1. <<"SKIP_STEP">> \in Seq(EventTypes) /\ \A i \in 1..1 : <<"SKIP_STEP">>[i] \notin StepTold
    BY DEF EventTypes, StepTold
  <2> QED
    BY <1>0, <1>1, <1>3, <2>1 DEF SkipStep, OrderInv
<1>4. CASE StartStep
  <2> DEFINE types == <<"AGENT_STEP_STARTED">>
  <2>1. /\ types \in Seq(EventTypes) /\ Len(types) = 1 /\ types[1] = "AGENT_STEP_STARTED" /\ 1 \in 1..Len(types)
        /\ \A i \in 1..Len(types) : types[i] \notin StepTold
    BY DEF EventTypes, StepTold
  <2>2. Emit(types, step') \/ EmitRaising(types, step')
    BY <1>4 DEF StartStep
  <2>3. StepsStart'
    BY <1>0, <1>1, <2>1, <2>2
  <2>4. emitted' = emitted \o Chain(types, step')
    BY <2>2, OneEvent DEF Emit
  <2> HIDE DEF types
  <2>5. Places("AGENT_STEP_STARTED")' # {}
    <3>1. Len(emitted) \in Nat /\ Len(emitted') = Len(emitted) + 1 /\ DOMAIN emitted' = 1..Len(emitted')
          /\ emitted'[Len(emitted) + 1].type = "AGENT_STEP_STARTED"
      <4>1. emitted \in Seq(Event)
        BY <1>0 DEF TypeOK, Event
      <4>2. /\ Len(emitted') = Len(emitted) + Len(types) /\ DOMAIN emitted' = 1..Len(emitted')
            /\ \A i \in 1..Len(emitted) : emitted'[i] = emitted[i]
            /\ \A i \in 1..Len(types) : /\ emitted'[Len(emitted) + i].type = types[i]
                                         /\ emitted'[Len(emitted) + i].step = step'
        BY <1>0, <2>1, <2>4, Emitted
      <4>3. Len(emitted) \in Nat
        <5> HIDE DEF Event
        <5> QED
          BY <4>1
      <4> QED
        BY <2>1, <4>2, <4>3
    <3> QED
      BY <3>1 DEF Places
  <2> QED
    BY <1>0, <1>4, <2>3, <2>5 DEF StartStep, OrderInv
<1>5. CASE Complete
  <2>1. <<"AGENT_STEP_COMPLETED">> \in Seq(EventTypes)
        /\ <<"AGENT_STEP_COMPLETED", "INSERT_RETRY_PATH">> \in Seq(EventTypes)
    BY DEF EventTypes
  <2>2. \/ EmitRaising(<<"AGENT_STEP_COMPLETED">>, step)
        \/ Emit(<<"AGENT_STEP_COMPLETED", "INSERT_RETRY_PATH">>, step)
        \/ Emit(<<"AGENT_STEP_COMPLETED">>, step)
    BY <1>5 DEF Complete
  <2>3. pc = "execute" /\ pc' \in {"take", "except"} /\ Places("AGENT_STEP_STARTED") # {}
    BY <1>5 DEF Complete, OrderInv
  <2>4. StepsStart' /\ Places("AGENT_STEP_STARTED")' # {}
    BY <1>0, <1>1, <2>1, <2>2, <2>3
  <2> QED
    BY <1>0, <2>3, <2>4 DEF OrderInv
<1>6. CASE Retry
  <2>1. <<"AGENT_STEP_RETRY", "RETRY">> \in Seq(EventTypes)
    BY DEF EventTypes
  <2>2. pc = "except" /\ pc' \in {"execute", "aborted"} /\ Places("AGENT_STEP_STARTED") # {}
    BY <1>6 DEF Retry, OrderInv
  <2>3. StepsStart' /\ Places("AGENT_STEP_STARTED")' # {}
    BY <1>0, <1>1, <1>6, <2>1, <2>2 DEF Retry
  <2> QED
    BY <1>0, <2>2, <2>3 DEF OrderInv
<1>7. CASE GiveUp
  <2>1. <<"AGENT_STEP_FAILED", "SWARM_FAILED", "SWARM_RESULT">> \in Seq(EventTypes)
        /\ <<"AGENT_STEP_FAILED">> \in Seq(EventTypes)
    BY DEF EventTypes
  <2>2. pc = "except" /\ Places("AGENT_STEP_STARTED") # {}
    BY <1>7 DEF GiveUp, OrderInv
  <2>3. StepsStart'
    BY <1>0, <1>1, <1>7, <2>1, <2>2 DEF GiveUp
  <2>4. pc' \in {"done", "aborted"} /\ (pc' = "done" => report' # <<>>)
    BY <1>7 DEF GiveUp, Report
  <2> QED
    BY <1>0, <2>3, <2>4 DEF OrderInv
<1>8. CASE Finish
  <2>1. <<"SWARM_COMPLETED", "SWARM_RESULT">> \in Seq(EventTypes)
        /\ \A i \in 1..2 : <<"SWARM_COMPLETED", "SWARM_RESULT">>[i] \notin StepTold
    BY DEF EventTypes, StepTold
  <2>2. pc' = "done" /\ report' # <<>>
    BY <1>8 DEF Finish, Report
  <2>3. StepsStart'
    BY <1>0, <1>1, <1>8, <2>1 DEF Finish
  <2> QED
    BY <1>0, <2>2, <2>3 DEF OrderInv
<1>9. CASE Fail \/ UNCHANGED vars
  <2>1. emitted' = emitted /\ report' = report /\ (pc' = pc \/ (pc = "execute" /\ pc' = "except"))
    BY <1>9 DEF Fail, vars
  <2> QED
    BY <1>0, <2>1 DEF OrderInv, StepsStart, Places
<1> QED
  BY <1>2, <1>3, <1>4, <1>5, <1>6, <1>7, <1>8, <1>9 DEF Next

(* What the page relies on (Browser!RunsInOrder): nothing is said of a     *)
(* step before one was started, a run that failed did not complete, and    *)
(* after its end comes only its result, which says how it ended.           *)
PublishedInOrder ==
  \A j \in DOMAIN emitted :
    /\ emitted[j].type \in StepTold => \E i \in 1..(j - 1) : emitted[i].type = "AGENT_STEP_STARTED"
    /\ emitted[j].type = "SWARM_FAILED" => Places("SWARM_COMPLETED") = {}
    /\ \A i \in 1..(j - 1) : emitted[i].type \in {"SWARM_FAILED", "SWARM_COMPLETED"} =>
          /\ emitted[j].type = "SWARM_RESULT" /\ report # <<>>
          /\ (report[1].status = "failed") = (emitted[i].type = "SWARM_FAILED")

(* The run publishes its events in the order the views of the page need    *)
(* (_run_swarm's loop and its two ends), whatever fails or is retried.     *)
THEOREM RunsPublishInOrder == Spec => []PublishedInOrder
<1>1. ASSUME OrderInv PROVE PublishedInOrder
  <2>1. emitted \in Seq(Event) /\ DOMAIN emitted = 1..Len(emitted) /\ Len(emitted) \in Nat
    BY <1>1 DEF OrderInv, RunInv, TypeInv, TypeOK, Event
  <2>2. ASSUME NEW i \in DOMAIN emitted, emitted[i].type \in {"SWARM_FAILED", "SWARM_COMPLETED"}
        PROVE  /\ i \in Places("SWARM_COMPLETED") \cup Places("SWARM_FAILED")
               /\ i = Len(emitted) - 1 /\ emitted[i + 1].type = "SWARM_RESULT" /\ report # <<>>
               /\ (report[1].status = "failed") = (Places("SWARM_FAILED") # {})
    <3>1. i \in Places("SWARM_COMPLETED") \cup Places("SWARM_FAILED")
      BY <2>2 DEF Places
    <3>2. report # <<>>
      BY <1>1, <3>1 DEF OrderInv, RunInv, Open
    <3> QED
      BY <1>1, <3>1, <3>2 DEF OrderInv, RunInv, EndsOnce, ReportAgrees
  <2>3. ASSUME NEW i \in DOMAIN emitted, emitted[i].type = "SWARM_FAILED" PROVE Places("SWARM_COMPLETED") = {}
    <3>1. ASSUME NEW k \in Places("SWARM_COMPLETED") PROVE FALSE
      <4>1. k \in DOMAIN emitted /\ emitted[k].type = "SWARM_COMPLETED"
        BY DEF Places
      <4>2. k = i
        BY <2>2, <2>3, <4>1
      <4> QED
        BY <2>3, <4>1, <4>2
    <3> QED
      BY <3>1
  <2>4. ASSUME NEW j \in DOMAIN emitted, NEW i \in 1..(j - 1),
               emitted[i].type \in {"SWARM_FAILED", "SWARM_COMPLETED"}
        PROVE  /\ emitted[j].type = "SWARM_RESULT" /\ report # <<>>
               /\ (report[1].status = "failed") = (emitted[i].type = "SWARM_FAILED")
    <3>1. i \in DOMAIN emitted /\ j \in Nat /\ i < j /\ j <= Len(emitted)
      BY <2>1
    <3>2. j = i + 1
      BY <2>1, <2>2, <2>4, <3>1
    <3>3. Places("SWARM_FAILED") # {} <=> emitted[i].type = "SWARM_FAILED"
      <4>1. CASE emitted[i].type = "SWARM_FAILED"
        BY <3>1, <4>1 DEF Places
      <4>2. CASE emitted[i].type = "SWARM_COMPLETED"
        <5>1. ASSUME NEW k \in Places("SWARM_FAILED") PROVE FALSE
          BY <2>3, <3>1, <4>2 DEF Places
        <5> QED
          BY <4>2, <5>1
      <4> QED
        BY <2>4, <4>1, <4>2
    <3> QED
      BY <2>2, <2>4, <3>1, <3>2, <3>3
  <2>5. StepsStart
    BY <1>1 DEF OrderInv
  <2> QED
    BY <2>3, <2>4, <2>5 DEF PublishedInOrder, StepsStart
<1> QED
  BY <1>1, InitOrder, NextOrder, PTL DEF Spec

-----------------------------------------------------------------------------
(* The dispatches to the sidecar (MetaPipeline)                            *)

States == {"idle", "dropped", "sent", "handling", "done"}
Stages == {"none", "wire", "refused", "analyzing", "storing", "failed", "answered", "lost"}

-------------------------------------------------------------------------------
(* Types.                                                                  *)

(* What the two windows keep after a pop is a shorter sequence of times.   *)
LEMMA RestType ==
  ASSUME NEW q \in Seq(Times), NEW n \in 0..Len(q)
  PROVE  /\ Rest(q, n) \in Seq(Times)
         /\ Len(Rest(q, n)) = Len(q) - n
         /\ \A i \in 1..Len(Rest(q, n)) : Rest(q, n)[i] = q[n + i]
<1>1. \A i \in 1..Len(q) : q[i] \in Times
  OBVIOUS
<1> HIDE DEF Times
<1> QED
  BY <1>1 DEF Rest

(* And a time more, if they were not full.                                 *)
LEMMA RestMore ==
  ASSUME NEW q \in Seq(Times), NEW n \in 0..Len(q), NEW x \in Times
  PROVE  /\ Append(Rest(q, n), x) \in Seq(Times)
         /\ Len(Append(Rest(q, n), x)) = Len(q) - n + 1
         /\ \A i \in 1..Len(q) - n : Append(Rest(q, n), x)[i] = q[n + i]
         /\ Append(Rest(q, n), x)[Len(q) - n + 1] = x
<1> HIDE DEF Times
<1> DEFINE r == Rest(q, n)
<1>1. r \in Seq(Times) /\ Len(r) = Len(q) - n /\ \A i \in 1..Len(r) : r[i] = q[n + i]
  BY RestType
<1> HIDE DEF r
<1>2. /\ Append(r, x) \in Seq(Times) /\ Len(Append(r, x)) = Len(r) + 1
      /\ \A i \in 1..Len(r) : Append(r, x)[i] = r[i]
      /\ Append(r, x)[Len(r) + 1] = x
  BY <1>1, AppendProperties
<1> QED
  BY <1>1, <1>2 DEF r

(* Counting one more keeps a counter a counter.                            *)
LEMMA CountType ==
  ASSUME NEW S, NEW f \in [S -> Nat], NEW k
  PROVE  [f EXCEPT ![k] = f[k] + 1] \in [S -> Nat]
<1>1. CASE k \in S
  BY <1>1
<1>2. CASE k \notin S
  BY <1>2
<1> QED
  BY <1>1, <1>2

(* A busy dispatch is counted: there is a slot to give back.               *)
LEMMA BusyHoldsSlot ==
  ASSUME MetaTypeOK, SlotsAccounted, NEW d \in Busy
  PROVE  free + 1 \in 0..Slots
<1>1. IsFiniteSet(Busy)
  BY DispatchesAssumption, FS_Subset DEF Busy
<1>2. Cardinality(Busy) # 0 /\ Cardinality(Busy) \in Nat
  BY <1>1, FS_EmptySet, FS_CardinalityType
<1> QED
  BY <1>2, SizesAssumption DEF MetaTypeOK, SlotsAccounted

LEMMA MetaInitTypes == MetaInit => MetaTypeOK
<1> SUFFICES ASSUME MetaInit PROVE MetaTypeOK
  OBVIOUS
<1>1. /\ now \in Times
      /\ last \in [Traces -> Times \cup {Never}]
      /\ free \in 0..Slots
      /\ call \in [Dispatches -> States]
      /\ handled \in [Dispatches -> Nat] /\ stored \in [Dispatches -> Nat]
      /\ shown \in [Keys -> Nat] /\ rows \in [Keys -> Nat]
      /\ side \in [Dispatches -> Stages]
      /\ {trusted, auth, enabled} \subseteq BOOLEAN
  BY SizesAssumption DEF MetaInit, Times, States, Stages, Never
<1>2. /\ ticks = <<>> /\ bucket = <<>> /\ admitted = <<>> /\ passed = <<>>
      /\ answer \in [Dispatches -> Seq(Keys)]
      /\ found \in [Dispatches -> Seq(Keys)]
  BY DEF MetaInit
<1>3. 0 <= RateMax /\ 0 <= LimiterMax
  BY SizesAssumption
<1> QED
  BY <1>1, <1>2, <1>3 DEF MetaTypeOK, States, Stages

LEMMA MergeType ==
  ASSUME MetaTypeOK, NEW d \in Dispatches, Merge(d)
  PROVE  stored' \in [Dispatches -> Nat] /\ rows' \in [Keys -> Nat]
<1>1. stored \in [Dispatches -> Nat] /\ rows \in [Keys -> Nat]
  BY DEF MetaTypeOK
<1>2. /\ stored' = [stored EXCEPT ![d] = stored[d] + 1]
      /\ \E k : rows' = [rows EXCEPT ![k] = rows[k] + 1]
  BY DEF Merge
<1> QED
  BY <1>1, <1>2, CountType

LEMMA MetaNextTypes == MetaTypeOK /\ SlotsAccounted /\ [MetaNext]_metaVars => MetaTypeOK'
<1> SUFFICES ASSUME MetaTypeOK, SlotsAccounted, [MetaNext]_metaVars PROVE MetaTypeOK'
  OBVIOUS
<1>1. ASSUME NEW d \in Dispatches, NEW t \in Traces \cup {NoTrace}, Dispatch(d, t)
      PROVE  MetaTypeOK'
  <2>0. now \in Times /\ ticks \in Seq(Times)
    BY DEF MetaTypeOK
  <2>1. PICK n \in 0..Len(ticks) :
          /\ Expired(ticks, n)
          /\ \/ /\ ticks' = Rest(ticks, n)
                /\ Drop(d)
                /\ UNCHANGED <<last, passed>>
             \/ /\ ~Full(ticks, n, RateMax)
                /\ ticks' = Append(Rest(ticks, n), now)
                /\ last' = IF t \in Traces THEN [last EXCEPT ![t] = now] ELSE last
                /\ passed' = Append(passed, [trace |-> t, at |-> now])
                /\ (free = 0 /\ Drop(d)) \/ Send(d)
    BY <1>1 DEF Dispatch
  <2>2. ticks' \in Seq(Times) /\ Len(ticks') <= RateMax
    <3>1. CASE ticks' = Rest(ticks, n)
      <4>1. Rest(ticks, n) \in Seq(Times) /\ Len(Rest(ticks, n)) = Len(ticks) - n
        BY <2>0, RestType
      <4>2. Len(ticks) \in Nat /\ Len(ticks) <= RateMax /\ RateMax \in Nat
        BY <2>0, SizesAssumption DEF MetaTypeOK
      <4> QED
        BY <3>1, <4>1, <4>2
    <3>2. CASE ~Full(ticks, n, RateMax) /\ ticks' = Append(Rest(ticks, n), now)
      <4>1. Len(Rest(ticks, n)) = Len(ticks) - n /\ Len(Rest(ticks, n)) < RateMax
        BY <2>0, <3>2, RestType, SizesAssumption DEF Full
      <4>2. ticks' \in Seq(Times) /\ Len(ticks') = Len(ticks) - n + 1
        BY <2>0, <3>2, RestMore
      <4> QED
        BY <4>1, <4>2, SizesAssumption
    <3> QED
      BY <2>1, <3>1, <3>2
  <2>3. last' \in [Traces -> Times \cup {Never}]
    BY <2>0, <2>1 DEF MetaTypeOK
  <2>4. passed' \in Seq([trace : Traces \cup {NoTrace}, at : Times])
    <3>1. [trace |-> t, at |-> now] \in [trace : Traces \cup {NoTrace}, at : Times]
      BY <2>0
    <3>2. passed \in Seq([trace : Traces \cup {NoTrace}, at : Times])
      BY DEF MetaTypeOK
    <3>3. passed' = passed \/ passed' = Append(passed, [trace |-> t, at |-> now])
      BY <2>1
    <3> HIDE DEF Times
    <3>4. Append(passed, [trace |-> t, at |-> now])
            \in Seq([trace : Traces \cup {NoTrace}, at : Times])
      BY <3>1, <3>2, AppendProperties
    <3> QED
      BY <3>2, <3>3, <3>4
  <2>5. /\ call' \in [Dispatches -> States] /\ free' \in 0..Slots
        /\ side' \in [Dispatches -> Stages]
    <3>1. CASE Drop(d)
      BY <3>1 DEF Drop, MetaTypeOK, States, Stages
    <3>2. CASE Send(d)
      <4>1. call' \in [Dispatches -> States] /\ side' \in [Dispatches -> Stages]
        BY <3>2 DEF Send, MetaTypeOK, States, Stages
      <4>2. free' = free - 1 /\ free > 0 /\ free \in 0..Slots /\ Slots \in Nat
        BY <3>2, SizesAssumption DEF Send, MetaTypeOK
      <4>3. free' \in 0..Slots
        BY ONLY <4>2
      <4> QED
        BY <4>1, <4>3
    <3> QED
      BY <2>1, <3>1, <3>2
  <2> QED
    BY <1>1, <2>2, <2>3, <2>4, <2>5 DEF Dispatch, MetaTypeOK, States, Stages
<1>2. ASSUME NEW d \in Dispatches, Receive(d) PROVE MetaTypeOK'
  <2> DEFINE n == IF Len(found[d]) > MaxInsights THEN MaxInsights ELSE Len(found[d])
             insights == SubSeq(found[d], 1, n)
  <2>1. insights \in Seq(Keys)
    <3>1. found[d] \in Seq(Keys)
      BY DEF MetaTypeOK
    <3>2. Len(found[d]) \in Nat
      BY <3>1
    <3>3. MaxInsights \in Nat
      BY SizesAssumption
    <3>4. n \in 0..Len(found[d])
      BY <3>2, <3>3
    <3> HIDE DEF n
    <3> QED
      BY <3>1, <3>4, SubSeqProperties
  <2>2. free + 1 \in 0..Slots
    BY <1>2, BusyHoldsSlot DEF Receive, Busy
  <2>3. /\ \/ Release(d) /\ UNCHANGED answer
           \/ /\ call' = [call EXCEPT ![d] = "handling"]
              /\ answer' = [answer EXCEPT ![d] = insights]
              /\ UNCHANGED free
        /\ UNCHANGED <<now, ticks, last, handled, shown, passed, sidecar>>
    BY <1>2 DEF Receive
  <2> HIDE DEF insights
  <2>4. call' \in [Dispatches -> States] /\ free' \in 0..Slots
    BY <2>2, <2>3 DEF Release, MetaTypeOK, States
  <2>5. answer' \in [Dispatches -> Seq(Keys)]
    BY <2>1, <2>3 DEF MetaTypeOK
  <2> QED
    BY <2>3, <2>4, <2>5 DEF MetaTypeOK, States, sidecar
<1>3. ASSUME NEW d \in Dispatches, Handle(d) PROVE MetaTypeOK'
  <2>1. free + 1 \in 0..Slots
    BY <1>3, BusyHoldsSlot DEF Handle, Busy
  <2>2. call' \in [Dispatches -> States] /\ free' \in 0..Slots
    BY <1>3, <2>1 DEF Handle, Release, MetaTypeOK, States
  <2>3. handled' \in [Dispatches -> Nat] /\ shown' \in [Keys -> Nat]
    <3>1. handled \in [Dispatches -> Nat] /\ shown \in [Keys -> Nat]
      BY DEF MetaTypeOK
    <3>2. /\ handled' = [handled EXCEPT ![d] = handled[d] + 1]
          /\ \/ shown' = shown
             \/ \E k : shown' = [shown EXCEPT ![k] = shown[k] + 1]
      BY <1>3 DEF Handle
    <3> QED
      BY <3>1, <3>2, CountType
  <2> QED
    BY <1>3, <2>2, <2>3 DEF Handle, MetaTypeOK, States, sidecar
<1>4. ASSUME NEW d \in Dispatches, CallFails(d) PROVE MetaTypeOK'
  <2>1. free + 1 \in 0..Slots
    BY <1>4, BusyHoldsSlot DEF CallFails, Busy
  <2>2. call' \in [Dispatches -> States] /\ free' \in 0..Slots
    BY <1>4, <2>1 DEF CallFails, Release, MetaTypeOK, States
  <2> QED
    BY <1>4, <2>2 DEF CallFails, MetaTypeOK, States, sidecar
<1>5. ASSUME NEW d \in Dispatches, Arrive(d) PROVE MetaTypeOK'
  <2>0. now \in Times /\ bucket \in Seq(Times) /\ admitted \in Seq(Times)
        /\ Len(bucket) <= LimiterMax
    BY DEF MetaTypeOK
  <2>1. side' \in [Dispatches -> Stages]
    BY <1>5 DEF Arrive, Become, MetaTypeOK, Stages
  <2>2. \/ UNCHANGED <<bucket, admitted>>
        \/ \E n \in 0..Len(bucket) :
             \/ bucket' = Rest(bucket, n) /\ UNCHANGED admitted
             \/ /\ ~Full(bucket, n, LimiterMax)
                /\ bucket' = Append(Rest(bucket, n), now)
                /\ admitted' = Append(admitted, now)
    BY <1>5 DEF Arrive
  <2>3. CASE UNCHANGED <<bucket, admitted>>
    BY <1>5, <2>1, <2>3 DEF Arrive, MetaTypeOK, Stages, backend
  <2>4. ASSUME NEW n \in 0..Len(bucket),
               \/ bucket' = Rest(bucket, n) /\ UNCHANGED admitted
               \/ /\ ~Full(bucket, n, LimiterMax)
                  /\ bucket' = Append(Rest(bucket, n), now)
                  /\ admitted' = Append(admitted, now)
        PROVE  MetaTypeOK'
    <3>1. bucket' \in Seq(Times) /\ Len(bucket') <= LimiterMax
      <4>1. CASE bucket' = Rest(bucket, n)
        BY <2>0, <4>1, RestType, SizesAssumption
      <4>2. CASE ~Full(bucket, n, LimiterMax) /\ bucket' = Append(Rest(bucket, n), now)
        <5>1. Len(Rest(bucket, n)) = Len(bucket) - n /\ Len(Rest(bucket, n)) < LimiterMax
          BY <2>0, <4>2, RestType, SizesAssumption DEF Full
        <5>2. bucket' \in Seq(Times) /\ Len(bucket') = Len(bucket) - n + 1
          BY <2>0, <4>2, RestMore
        <5> QED
          BY <5>1, <5>2, SizesAssumption
      <4> QED
        BY <2>4, <4>1, <4>2
    <3>2. admitted' \in Seq(Times)
      <4>1. admitted' = admitted \/ admitted' = Append(admitted, now)
        BY <2>4
      <4> HIDE DEF Times
      <4>2. Append(admitted, now) \in Seq(Times)
        BY <2>0, AppendProperties
      <4> QED
        BY <2>0, <4>1, <4>2
    <3> QED
      BY <1>5, <2>1, <3>1, <3>2 DEF Arrive, MetaTypeOK, Stages, backend
  <2> QED
    BY <2>2, <2>3, <2>4
<1>6. ASSUME NEW d \in Dispatches, Analyzed(d) PROVE MetaTypeOK'
  <2>1. side' \in [Dispatches -> Stages] /\ found' \in [Dispatches -> Seq(Keys)]
    BY <1>6, FindingsAssumption DEF Analyzed, Become, MetaTypeOK, Stages
  <2> QED
    BY <1>6, <2>1 DEF Analyzed, MetaTypeOK, Stages, backend
<1>7. ASSUME NEW d \in Dispatches, Upsert(d) PROVE MetaTypeOK'
  <2>1. stored' \in [Dispatches -> Nat] /\ rows' \in [Keys -> Nat]
    BY <1>7, MergeType DEF Upsert
  <2> QED
    BY <1>7, <2>1 DEF Upsert, MetaTypeOK, backend
<1>8. ASSUME NEW d \in Dispatches, UpsertFails(d) PROVE MetaTypeOK'
  <2>1. stored' \in [Dispatches -> Nat] /\ rows' \in [Keys -> Nat]
    BY <1>8, MergeType DEF UpsertFails, MetaTypeOK
  <2>2. side' \in [Dispatches -> Stages]
    BY <1>8 DEF UpsertFails, Become, MetaTypeOK, Stages
  <2> QED
    BY <1>8, <2>1, <2>2 DEF UpsertFails, MetaTypeOK, Stages, backend
<1>9. ASSUME NEW d \in Dispatches, Reply(d) PROVE MetaTypeOK'
  <2>1. side' \in [Dispatches -> Stages]
    BY <1>9 DEF Reply, Become, MetaTypeOK, Stages
  <2> QED
    BY <1>9, <2>1 DEF Reply, MetaTypeOK, Stages, backend
<1>10. CASE Restart
  <2>1. side' \in [Dispatches -> Stages]
    BY <1>10 DEF Restart, MetaTypeOK, Stages
  <2>2. /\ bucket' \in Seq(Times) /\ Len(bucket') <= LimiterMax
        /\ admitted' \in Seq(Times)
    BY <1>10, SizesAssumption DEF Restart
  <2> QED
    BY <1>10, <2>1, <2>2 DEF Restart, MetaTypeOK, Stages, backend
<1>11. CASE Tick
  <2>1. now' \in Times
    BY <1>11, SizesAssumption DEF Tick, MetaTypeOK, Times
  <2> QED
    BY <1>11, <2>1 DEF Tick, MetaTypeOK, backend, sidecar
<1>12. CASE UNCHANGED metaVars
  BY <1>12 DEF metaVars, MetaTypeOK, backend, sidecar
<1> QED
  BY <1>1, <1>2, <1>3, <1>4, <1>5, <1>6, <1>7, <1>8, <1>9, <1>10, <1>11, <1>12 DEF MetaNext

-------------------------------------------------------------------------------
(* The slots.                                                              *)

LEMMA BusyFinite == IsFiniteSet(Busy) /\ Cardinality(Busy) \in Nat
BY DispatchesAssumption, FS_Subset, FS_CardinalityType DEF Busy

(* A dispatch that is let in takes the slot it is counted for.             *)
LEMMA SendSlot ==
  ASSUME MetaTypeOK, SlotsAccounted, NEW d \in Dispatches, call[d] = "idle", Send(d)
  PROVE  SlotsAccounted'
<1>1. Busy' = Busy \cup {d} /\ d \notin Busy
  BY DEF Busy, Send, MetaTypeOK
<1>2. Cardinality(Busy \cup {d}) = Cardinality(Busy) + 1
  BY <1>1, BusyFinite, FS_AddElement
<1> QED
  BY <1>1, <1>2, BusyFinite, SizesAssumption DEF SlotsAccounted, Send, MetaTypeOK

(* A dispatch that ends gives back the slot it held.                       *)
LEMMA ReleaseSlot ==
  ASSUME MetaTypeOK, SlotsAccounted, NEW d \in Busy, Release(d)
  PROVE  SlotsAccounted'
<1>1. Busy' = Busy \ {d} /\ d \in Dispatches
  BY DEF Busy, Release, MetaTypeOK
<1>2. Cardinality(Busy \ {d}) = Cardinality(Busy) - 1
  BY BusyFinite, FS_RemoveElement
<1> QED
  BY <1>1, <1>2, BusyFinite, SizesAssumption DEF SlotsAccounted, Release, MetaTypeOK

(* What changes neither the slots nor who holds them.                      *)
LEMMA SameSlots ==
  ASSUME SlotsAccounted, UNCHANGED free, Busy' = Busy
  PROVE  SlotsAccounted'
BY DEF SlotsAccounted

LEMMA NextSlots == MetaTypeOK /\ SlotsAccounted /\ [MetaNext]_metaVars => SlotsAccounted'
<1> SUFFICES ASSUME MetaTypeOK, SlotsAccounted, [MetaNext]_metaVars PROVE SlotsAccounted'
  OBVIOUS
<1>1. ASSUME NEW d \in Dispatches, NEW t \in Traces \cup {NoTrace}, Dispatch(d, t)
      PROVE  SlotsAccounted'
  <2>1. call[d] = "idle" /\ (Drop(d) \/ Send(d))
    BY <1>1 DEF Dispatch
  <2>2. CASE Drop(d)
    <3>1. Busy' = Busy
      BY <2>1, <2>2 DEF Drop, Busy, MetaTypeOK
    <3> QED
      BY <2>2, <3>1, SameSlots DEF Drop
  <2> QED
    BY <2>1, <2>2, SendSlot
<1>2. ASSUME NEW d \in Dispatches, Receive(d) PROVE SlotsAccounted'
  <2>1. d \in Busy
    BY <1>2 DEF Receive, Busy
  <2>2. \/ Release(d)
        \/ call' = [call EXCEPT ![d] = "handling"] /\ UNCHANGED free
    BY <1>2 DEF Receive
  <2>3. CASE call' = [call EXCEPT ![d] = "handling"] /\ UNCHANGED free
    <3>1. Busy' = Busy
      BY <2>1, <2>3 DEF Busy, MetaTypeOK
    <3> QED
      BY <2>3, <3>1, SameSlots
  <2> QED
    BY <2>1, <2>2, <2>3, ReleaseSlot
<1>3. ASSUME NEW d \in Dispatches, Handle(d) PROVE SlotsAccounted'
  <2>1. d \in Busy
    BY <1>3 DEF Handle, Busy
  <2>2. Release(d) \/ UNCHANGED <<call, free>>
    BY <1>3 DEF Handle
  <2> QED
    BY <2>1, <2>2, ReleaseSlot, SameSlots DEF Busy
<1>4. ASSUME NEW d \in Dispatches, CallFails(d) PROVE SlotsAccounted'
  <2>1. d \in Busy /\ Release(d)
    BY <1>4 DEF CallFails, Busy
  <2> QED
    BY <2>1, ReleaseSlot
<1>5. CASE UNCHANGED <<call, free>>
  BY <1>5, SameSlots DEF Busy
<1>6. \/ \E d \in Dispatches, t \in Traces \cup {NoTrace} : Dispatch(d, t)
      \/ \E d \in Dispatches : Receive(d) \/ Handle(d) \/ CallFails(d)
      \/ UNCHANGED <<call, free>>
  BY DEF MetaNext, metaVars, backend, Arrive, Analyzed, Upsert, UpsertFails, Reply, Restart, Tick
<1> QED
  BY <1>1, <1>2, <1>3, <1>4, <1>5, <1>6

LEMMA InitSlots == MetaInit => SlotsAccounted
<1> SUFFICES ASSUME MetaInit PROVE SlotsAccounted
  OBVIOUS
<1>1. Busy = {}
  BY DEF MetaInit, Busy
<1> QED
  BY <1>1, FS_EmptySet, SizesAssumption DEF MetaInit, SlotsAccounted

TypedSlots == MetaTypeOK /\ SlotsAccounted

LEMMA SpecTypedSlots == MetaSpec => []TypedSlots
<1>1. MetaInit => TypedSlots
  BY MetaInitTypes, InitSlots DEF TypedSlots
<1>2. TypedSlots /\ [MetaNext]_metaVars => TypedSlots'
  BY MetaNextTypes, NextSlots DEF TypedSlots
<1> QED
  BY <1>1, <1>2, PTL DEF MetaSpec

(* Type correctness of the pipeline, the two rate limits' queues bounded.   *)
THEOREM MetaTypeCorrect == MetaSpec => []MetaTypeOK
<1>1. TypedSlots => MetaTypeOK
  BY DEF TypedSlots
<1> QED
  BY <1>1, SpecTypedSlots, PTL

(* The semaphore never leaks a slot and never has one too many.            *)
THEOREM SlotsNeverLeak == MetaSpec => []SlotsAccounted
<1>1. TypedSlots => SlotsAccounted
  BY DEF TypedSlots
<1> QED
  BY <1>1, SpecTypedSlots, PTL

-------------------------------------------------------------------------------
(* The sliding windows.                                                    *)

(* q is what is left at time t of the history h of length n: its last       *)
(* entries, and the others are older than the window.                      *)
Windowed(q, h, n, t) ==
  /\ Len(q) <= n
  /\ \A i \in 1..Len(q) : q[i] = h[n - Len(q) + i]
  /\ \A i \in 1..n - Len(q) : h[i] < t - RateWindow
  /\ \A i \in 1..n : h[i] <= t

Bounded(h, n, max) ==
  \A i \in 1..n : i + max <= n => h[i + max] - h[i] > RateWindow

(* Popping what has expired keeps the rest in the window.                  *)
LEMMA WindowPop ==
  ASSUME NEW q \in Seq(Times), NEW n \in 0..Len(q), Expired(q, n), now \in Times,
         NEW l \in Nat, NEW h, \A i \in 1..l : h[i] \in Times,
         Windowed(q, h, l, now)
  PROVE  Windowed(Rest(q, n), h, l, now)
<1> DEFINE r == Rest(q, n)
<1>1. Len(r) = Len(q) - n /\ \A i \in 1..Len(r) : r[i] = q[n + i]
  BY RestType
<1>2. Len(q) \in Nat /\ Len(q) <= l /\ n \in Nat /\ n <= Len(q)
  BY DEF Windowed
<1> HIDE DEF r
<1>3. \A i \in 1..Len(r) : r[i] = h[l - Len(r) + i]
  <2> TAKE i \in 1..Len(r)
  <2>1. n + i \in 1..Len(q)
    BY <1>1, <1>2
  <2>2. q[n + i] = h[l - Len(q) + (n + i)] /\ l - Len(q) + (n + i) = l - Len(r) + i
    BY <1>1, <1>2, <2>1 DEF Windowed
  <2> QED
    BY <1>1, <2>2
<1>4. \A i \in 1..l - Len(r) : h[i] < now - RateWindow
  <2> TAKE i \in 1..l - Len(r)
  <2>1. CASE i \in 1..l - Len(q)
    BY <2>1 DEF Windowed
  <2>2. CASE i \notin 1..l - Len(q)
    <3> DEFINE j == i - (l - Len(q))
    <3>1. j \in 1..n /\ j \in 1..Len(q) /\ l - Len(q) + j = i
      BY <1>1, <1>2, <2>2
    <3>2. q[j] = h[l - Len(q) + j]
      BY <3>1 DEF Windowed
    <3>3. q[j] < now - RateWindow
      BY <3>1 DEF Expired
    <3> QED
      BY <3>1, <3>2, <3>3
  <2> QED
    BY <2>1, <2>2
<1>5. Len(r) <= l
  BY <1>1, <1>2
<1> QED
  BY <1>3, <1>4, <1>5 DEF Windowed, r

(* A time let in while the rest is below the limit keeps the history        *)
(* bounded: the one max places before it has left the window.              *)
LEMMA WindowAppend ==
  ASSUME NEW q \in Seq(Times), NEW n \in 0..Len(q), Expired(q, n), now \in Times,
         NEW max \in Nat \ {0}, ~Full(q, n, max),
         NEW l \in Nat, NEW h, \A i \in 1..l : h[i] \in Times,
         Windowed(q, h, l, now), Bounded(h, l, max),
         NEW g, \A i \in 1..l : g[i] = h[i], g[l + 1] = now
  PROVE  /\ Windowed(Append(Rest(q, n), now), g, l + 1, now)
         /\ Bounded(g, l + 1, max)
<1> DEFINE r == Rest(q, n)
           a == Append(r, now)
<1>1. /\ Len(r) = Len(q) - n /\ Len(r) \in Nat /\ Len(r) < max
      /\ Len(a) = Len(r) + 1
      /\ \A i \in 1..Len(r) : a[i] = r[i]
      /\ a[Len(r) + 1] = now
  <2>1. r \in Seq(Times) /\ Len(r) = Len(q) - n
    BY RestType
  <2>2. Len(r) < max
    BY <2>1 DEF Full
  <2> HIDE DEF r, Times
  <2> QED
    BY <2>1, <2>2, AppendProperties
<1>2. Windowed(r, h, l, now)
  BY WindowPop
<1>w. RateWindow \in Nat /\ now \in Nat /\ \A i \in 1..l : h[i] \in Nat
  BY SizesAssumption DEF Times
<1> HIDE DEF r, a
<1>3. Windowed(a, g, l + 1, now)
  <2>1. Len(a) <= l + 1
    BY <1>1, <1>2 DEF Windowed
  <2>2. \A i \in 1..Len(a) : a[i] = g[l + 1 - Len(a) + i]
    <3> TAKE i \in 1..Len(a)
    <3>1. CASE i = Len(r) + 1
      <4>1. l + 1 - Len(a) + i = l + 1
        BY <1>1, <3>1
      <4> QED
        BY <1>1, <3>1, <4>1
    <3>2. CASE i \in 1..Len(r)
      <4>1. l + 1 - Len(a) + i = l - Len(r) + i /\ l - Len(r) + i \in 1..l
        BY <1>1, <1>2, <3>2 DEF Windowed
      <4>2. r[i] = h[l - Len(r) + i]
        BY <1>2, <3>2 DEF Windowed
      <4> QED
        BY <1>1, <3>2, <4>1, <4>2
    <3> QED
      BY <1>1, <3>1, <3>2
  <2>3. \A i \in 1..l + 1 - Len(a) : g[i] < now - RateWindow
    <3> TAKE i \in 1..l + 1 - Len(a)
    <3>1. i \in 1..l - Len(r) /\ i \in 1..l
      BY <1>1
    <3> QED
      BY <1>2, <3>1 DEF Windowed
  <2>4. \A i \in 1..l + 1 : g[i] <= now
    <3> TAKE i \in 1..l + 1
    <3>1. CASE i \in 1..l
      BY <1>2, <3>1 DEF Windowed
    <3>2. CASE i = l + 1
      BY <1>w, <3>2
    <3> QED
      BY <3>1, <3>2
  <2> QED
    BY <2>1, <2>2, <2>3, <2>4 DEF Windowed
<1>4. Bounded(g, l + 1, max)
  <2> SUFFICES ASSUME NEW i \in 1..l + 1, i + max <= l + 1
               PROVE  g[i + max] - g[i] > RateWindow
    BY DEF Bounded
  <2>1. i \in 1..l /\ g[i] = h[i]
    OBVIOUS
  <2>2. CASE i + max = l + 1
    <3>1. i \in 1..l - Len(r)
      BY <1>1, <2>1, <2>2
    <3>2. h[i] < now - RateWindow
      BY <1>2, <3>1 DEF Windowed
    <3> QED
      BY <1>w, <2>1, <2>2, <3>2
  <2>3. CASE i + max <= l
    <3>1. i + max \in 1..l /\ h[i + max] - h[i] > RateWindow
      BY <2>1, <2>3 DEF Bounded
    <3> QED
      BY <2>1, <3>1
  <2> QED
    BY <2>2, <2>3
<1> QED
  BY <1>3, <1>4 DEF a, r

(* Time passing only widens what has expired.                              *)
LEMMA WindowTick ==
  ASSUME NEW q, NEW l \in Nat, NEW h, \A i \in 1..l : h[i] \in Times,
         NEW t \in Nat, Windowed(q, h, l, t), Len(q) \in Nat
  PROVE  Windowed(q, h, l, t + 1)
<1>1. RateWindow \in Nat /\ \A i \in 1..l : h[i] \in Nat
  BY SizesAssumption DEF Times
<1>2. \A i \in 1..l - Len(q) : i \in 1..l
  OBVIOUS
<1> QED
  BY <1>1, <1>2 DEF Windowed

-------------------------------------------------------------------------------
(* The rates and the gap.                                                  *)

PassedAt == [i \in 1..Len(passed) |-> passed[i].at]

RateInv ==
  /\ Windowed(ticks, PassedAt, Len(passed), now)
  /\ Bounded(PassedAt, Len(passed), RateMax)

LimiterInv ==
  /\ Windowed(bucket, admitted, Len(admitted), now)
  /\ Bounded(admitted, Len(admitted), LimiterMax)

(* A trace's latest dispatch is remembered.                                *)
GapInv ==
  /\ TraceSpaced
  /\ \A i \in 1..Len(passed) :
       passed[i].trace \in Traces => passed[i].at <= last[passed[i].trace]

RatesInv == TypedSlots /\ RateInv /\ LimiterInv /\ GapInv

LEMMA InitRates == MetaInit => RatesInv
<1> SUFFICES ASSUME MetaInit PROVE RatesInv
  OBVIOUS
<1>1. TypedSlots
  BY MetaInitTypes, InitSlots DEF TypedSlots
<1>2. /\ ticks = <<>> /\ bucket = <<>> /\ passed = <<>> /\ admitted = <<>>
      /\ Len(ticks) = 0 /\ Len(bucket) = 0 /\ Len(passed) = 0 /\ Len(admitted) = 0
  BY DEF MetaInit
<1>3. RateInv /\ LimiterInv
  BY <1>2 DEF RateInv, LimiterInv, Windowed, Bounded
<1>4. GapInv
  BY <1>2 DEF GapInv, TraceSpaced
<1> QED
  BY <1>1, <1>3, <1>4 DEF RatesInv

(* The types the window lemmas ask for.                                    *)
LEMMA WindowTypes ==
  ASSUME MetaTypeOK
  PROVE  /\ now \in Times /\ now \in Nat
         /\ ticks \in Seq(Times) /\ bucket \in Seq(Times)
         /\ Len(ticks) \in Nat /\ Len(bucket) \in Nat
         /\ Len(passed) \in Nat /\ Len(admitted) \in Nat
         /\ \A i \in 1..Len(passed) : PassedAt[i] \in Times /\ PassedAt[i] = passed[i].at
         /\ \A i \in 1..Len(admitted) : admitted[i] \in Times
         /\ RateMax \in Nat \ {0} /\ LimiterMax \in Nat \ {0}
<1>1. /\ now \in Times /\ now \in Nat
      /\ ticks \in Seq(Times) /\ bucket \in Seq(Times) /\ admitted \in Seq(Times)
      /\ passed \in Seq([trace : Traces \cup {NoTrace}, at : Times])
  BY DEF MetaTypeOK, Times
<1>2. \A i \in 1..Len(passed) : passed[i] \in [trace : Traces \cup {NoTrace}, at : Times]
  <2> DEFINE R == [trace : Traces \cup {NoTrace}, at : Times]
  <2>1. passed \in Seq(R)
    BY <1>1
  <2> HIDE DEF R
  <2>2. \A i \in 1..Len(passed) : passed[i] \in R
    BY <2>1
  <2> QED
    BY <2>2 DEF R
<1>3. \A i \in 1..Len(passed) : PassedAt[i] = passed[i].at /\ passed[i].at \in Times
  BY <1>2 DEF PassedAt
<1>4. RateMax \in Nat \ {0} /\ LimiterMax \in Nat \ {0}
  BY SizesAssumption
<1> HIDE DEF Times
<1> QED
  BY <1>1, <1>3, <1>4

LEMMA DomainOfPassed ==
  MetaTypeOK => DOMAIN passed = 1..Len(passed)
BY DEF MetaTypeOK

(* A dispatch that passes the debounce is the newest, RateWindow and more   *)
(* after the RateMax-th before it, TraceGap and more after its trace's last. *)
LEMMA DispatchRates ==
  ASSUME RatesInv, TypedSlots', NEW d \in Dispatches, NEW t \in Traces \cup {NoTrace},
         Dispatch(d, t)
  PROVE  RatesInv'
<1>0. MetaTypeOK
  BY DEF RatesInv, TypedSlots
<1>1. LimiterInv'
  BY DEF Dispatch, RatesInv, LimiterInv
<1>2. PICK n \in 0..Len(ticks) :
        /\ Expired(ticks, n)
        /\ \/ /\ ticks' = Rest(ticks, n)
              /\ UNCHANGED <<last, passed, now>>
           \/ /\ ~Full(ticks, n, RateMax) /\ ~Recent(t)
              /\ ticks' = Append(Rest(ticks, n), now)
              /\ last' = IF t \in Traces THEN [last EXCEPT ![t] = now] ELSE last
              /\ passed' = Append(passed, [trace |-> t, at |-> now])
              /\ UNCHANGED now
  BY DEF Dispatch
<1>3. CASE ticks' = Rest(ticks, n) /\ UNCHANGED <<last, passed, now>>
  <2>1. Windowed(Rest(ticks, n), PassedAt, Len(passed), now)
    BY <1>0, <1>2, WindowTypes, WindowPop DEF RatesInv, RateInv
  <2>2. RateInv'
    BY <1>3, <2>1 DEF RatesInv, RateInv, PassedAt
  <2>3. GapInv'
    BY <1>3 DEF RatesInv, GapInv, TraceSpaced
  <2> QED
    BY <1>1, <2>2, <2>3 DEF RatesInv
<1>4. CASE /\ ~Full(ticks, n, RateMax) /\ ~Recent(t)
           /\ ticks' = Append(Rest(ticks, n), now)
           /\ last' = IF t \in Traces THEN [last EXCEPT ![t] = now] ELSE last
           /\ passed' = Append(passed, [trace |-> t, at |-> now])
           /\ UNCHANGED now
  <2> DEFINE l == Len(passed)
  <2>1. /\ l \in Nat /\ Len(passed') = l + 1
        /\ \A i \in 1..l : passed'[i] = passed[i]
        /\ passed'[l + 1] = [trace |-> t, at |-> now]
    <3>1. passed \in Seq([trace : Traces \cup {NoTrace}, at : Times])
          /\ [trace |-> t, at |-> now] \in [trace : Traces \cup {NoTrace}, at : Times]
      BY <1>0 DEF MetaTypeOK
    <3> HIDE DEF Times
    <3> QED
      BY <1>4, <3>1, AppendProperties
  <2> HIDE DEF l
  <2>2. RateInv'
    <3>1. /\ \A i \in 1..l : PassedAt'[i] = PassedAt[i]
          /\ PassedAt'[l + 1] = now
      BY <2>1 DEF PassedAt, l
    <3>2. /\ Windowed(ticks, PassedAt, l, now) /\ Bounded(PassedAt, l, RateMax)
          /\ \A i \in 1..l : PassedAt[i] \in Times
      BY <1>0, WindowTypes DEF RatesInv, RateInv, l
    <3>3. /\ Windowed(Append(Rest(ticks, n), now), PassedAt', l + 1, now)
          /\ Bounded(PassedAt', l + 1, RateMax)
      <4> DEFINE h == PassedAt
                 g == PassedAt'
      <4>1. /\ ticks \in Seq(Times) /\ now \in Times /\ RateMax \in Nat \ {0}
            /\ Expired(ticks, n) /\ ~Full(ticks, n, RateMax)
        BY <1>0, <1>2, <1>4, WindowTypes
      <4>2. /\ \A i \in 1..l : h[i] \in Times
            /\ Windowed(ticks, h, l, now) /\ Bounded(h, l, RateMax)
        BY <3>2
      <4>3. l \in Nat /\ (\A i \in 1..l : g[i] = h[i]) /\ g[l + 1] = now
        BY <2>1, <3>1
      <4> HIDE DEF g, h, Times
      <4>4. /\ Windowed(Append(Rest(ticks, n), now), g, l + 1, now)
            /\ Bounded(g, l + 1, RateMax)
        BY <4>1, <4>2, <4>3, WindowAppend
      <4> QED
        BY <4>4 DEF g
    <3> QED
      BY <1>4, <2>1, <3>3 DEF RateInv
  <2>3. GapInv'
    <3>0. /\ last \in [Traces -> Times \cup {Never}] /\ now \in Nat /\ TraceGap \in Nat
          /\ \A i \in 1..l : passed[i].at \in Nat /\ passed[i].at <= now
      <4>1. \A i \in 1..l : PassedAt[i] \in Times /\ PassedAt[i] = passed[i].at
                             /\ PassedAt[i] <= now
        BY <1>0, WindowTypes DEF RatesInv, RateInv, Windowed, l
      <4>2. now \in Nat /\ TraceGap \in Nat
        BY <1>0, WindowTypes, SizesAssumption
      <4>3. \A i \in 1..l : passed[i].at \in Nat /\ passed[i].at <= now
        BY <4>1 DEF Times
      <4> QED
        BY <1>0, <4>2, <4>3 DEF MetaTypeOK
    <3>1. ASSUME NEW i \in 1..l, passed[i].trace = t, t \in Traces
          PROVE  now - passed[i].at >= TraceGap
      <4>1. passed[i].at <= last[t]
        BY <3>1 DEF RatesInv, GapInv, l
      <4>2. last[t] # Never /\ last[t] \in Nat
        BY <3>0, <3>1, <4>1 DEF Never, Times
      <4>3. now - last[t] >= TraceGap
        BY <1>4, <3>0, <3>1, <4>2 DEF Recent
      <4> QED
        BY <3>0, <4>1, <4>2, <4>3
    <3>2. TraceSpaced'
      <4> SUFFICES ASSUME NEW i \in 1..l + 1, NEW j \in 1..l + 1, i < j,
                          passed'[i].trace = passed'[j].trace,
                          passed'[i].trace \in Traces
                   PROVE  passed'[j].at - passed'[i].at >= TraceGap
        BY <1>0, <2>1, DomainOfPassed DEF TraceSpaced
      <4>1. i \in 1..l /\ passed'[i] = passed[i]
        BY <2>1
      <4>2. CASE j = l + 1
        <5>1. passed[i].trace = t /\ t \in Traces /\ passed'[j].at = now
          BY <2>1, <4>1, <4>2
        <5> QED
          BY <3>1, <4>1, <5>1
      <4>3. CASE j \in 1..l
        BY <2>1, <4>1, <4>3 DEF RatesInv, GapInv, TraceSpaced, l
      <4> QED
        BY <4>2, <4>3, <2>1
    <3>3. ASSUME NEW i \in 1..l + 1, passed'[i].trace \in Traces
          PROVE  passed'[i].at <= last'[passed'[i].trace]
      <4>1. CASE i = l + 1
        BY <1>4, <2>1, <3>0, <3>3, <4>1
      <4>2. CASE i \in 1..l
        <5>1. passed'[i] = passed[i] /\ passed[i].at <= last[passed[i].trace]
          BY <2>1, <3>3, <4>2 DEF RatesInv, GapInv, l
        <5> QED
          BY <1>4, <3>0, <3>3, <4>2, <5>1
      <4> QED
        BY <2>1, <4>1, <4>2
    <3> QED
      BY <2>1, <3>2, <3>3 DEF GapInv
  <2> QED
    BY <1>1, <2>2, <2>3 DEF RatesInv
<1> QED
  BY <1>2, <1>3, <1>4

(* A request that arrives counts for the limiter, or it changes no window.  *)
LEMMA ArriveRates ==
  ASSUME RatesInv, TypedSlots', NEW d \in Dispatches, Arrive(d)
  PROVE  RatesInv'
<1>0. MetaTypeOK
  BY DEF RatesInv, TypedSlots
<1>1. RateInv' /\ GapInv' /\ now' = now
  BY DEF Arrive, backend, RatesInv, RateInv, GapInv, TraceSpaced, PassedAt
<1>2. CASE UNCHANGED <<bucket, admitted>>
  BY <1>1, <1>2 DEF RatesInv, LimiterInv
<1>3. ASSUME NEW n \in 0..Len(bucket), Expired(bucket, n),
             bucket' = Rest(bucket, n), UNCHANGED admitted
      PROVE  RatesInv'
  <2>1. Windowed(Rest(bucket, n), admitted, Len(admitted), now)
    BY <1>0, <1>3, WindowTypes, WindowPop DEF RatesInv, LimiterInv
  <2> QED
    BY <1>1, <1>3, <2>1 DEF RatesInv, LimiterInv
<1>4. ASSUME NEW n \in 0..Len(bucket), Expired(bucket, n),
             ~Full(bucket, n, LimiterMax),
             bucket' = Append(Rest(bucket, n), now), admitted' = Append(admitted, now)
      PROVE  RatesInv'
  <2> DEFINE l == Len(admitted)
  <2>1. /\ l \in Nat /\ Len(admitted') = l + 1
        /\ \A i \in 1..l : admitted'[i] = admitted[i]
        /\ admitted'[l + 1] = now
    <3>1. admitted \in Seq(Times) /\ now \in Times
      BY <1>0 DEF MetaTypeOK
    <3> HIDE DEF Times
    <3> QED
      BY <1>4, <3>1, AppendProperties
  <2> HIDE DEF l
  <2>2. /\ Windowed(bucket, admitted, l, now) /\ Bounded(admitted, l, LimiterMax)
        /\ \A i \in 1..l : admitted[i] \in Times
    BY <1>0, WindowTypes DEF RatesInv, LimiterInv, l
  <2>3. /\ Windowed(Append(Rest(bucket, n), now), admitted', l + 1, now)
        /\ Bounded(admitted', l + 1, LimiterMax)
    BY <1>0, <1>4, <2>1, <2>2, WindowTypes, WindowAppend
  <2>4. LimiterInv'
    BY <1>1, <1>4, <2>1, <2>3 DEF LimiterInv
  <2> QED
    BY <1>1, <2>4 DEF RatesInv
<1>5. \/ UNCHANGED <<bucket, admitted>>
      \/ \E n \in 0..Len(bucket) :
           /\ Expired(bucket, n)
           /\ \/ bucket' = Rest(bucket, n) /\ UNCHANGED admitted
              \/ /\ ~Full(bucket, n, LimiterMax)
                 /\ bucket' = Append(Rest(bucket, n), now)
                 /\ admitted' = Append(admitted, now)
  BY DEF Arrive
<1> QED
  BY <1>2, <1>3, <1>4, <1>5

LEMMA NextRates == RatesInv /\ [MetaNext]_metaVars => RatesInv'
<1> SUFFICES ASSUME RatesInv, [MetaNext]_metaVars PROVE RatesInv'
  OBVIOUS
<1>0. TypedSlots' /\ MetaTypeOK
  BY MetaNextTypes, NextSlots DEF RatesInv, TypedSlots
<1>1. CASE \E d \in Dispatches, t \in Traces \cup {NoTrace} : Dispatch(d, t)
  BY <1>0, <1>1, DispatchRates
<1>2. CASE \E d \in Dispatches : Arrive(d)
  BY <1>0, <1>2, ArriveRates
<1>3. CASE Tick
  <2>1. /\ now' = now + 1
        /\ UNCHANGED <<ticks, passed, last, bucket, admitted>>
    BY <1>3 DEF Tick, backend, sidecar
  <2>2. Windowed(ticks, PassedAt, Len(passed), now + 1)
    BY <1>0, WindowTypes, WindowTick DEF RatesInv, RateInv
  <2>3. Windowed(bucket, admitted, Len(admitted), now + 1)
    BY <1>0, WindowTypes, WindowTick DEF RatesInv, LimiterInv
  <2>4. RateInv' /\ LimiterInv'
    BY <2>1, <2>2, <2>3 DEF RatesInv, RateInv, LimiterInv, PassedAt
  <2>5. GapInv'
    BY <2>1 DEF RatesInv, GapInv, TraceSpaced
  <2> QED
    BY <1>0, <2>4, <2>5 DEF RatesInv
<1>4. CASE Restart
  <2>1. /\ UNCHANGED <<now, ticks, passed, last>>
        /\ Len(bucket') = 0 /\ Len(admitted') = 0
    BY <1>4 DEF Restart, backend
  <2>2. LimiterInv'
    BY <2>1 DEF LimiterInv, Windowed, Bounded
  <2> QED
    BY <1>0, <2>1, <2>2 DEF RatesInv, RateInv, GapInv, TraceSpaced, PassedAt
<1>5. CASE UNCHANGED <<now, ticks, passed, last, bucket, admitted>>
  BY <1>0, <1>5 DEF RatesInv, RateInv, LimiterInv, GapInv, TraceSpaced, PassedAt
<1>6. \/ \E d \in Dispatches, t \in Traces \cup {NoTrace} : Dispatch(d, t)
      \/ \E d \in Dispatches : Arrive(d)
      \/ Tick
      \/ Restart
      \/ UNCHANGED <<now, ticks, passed, last, bucket, admitted>>
  BY DEF MetaNext, metaVars, backend, sidecar, Receive, Handle, CallFails,
         Analyzed, Upsert, UpsertFails, Reply
<1> QED
  BY <1>1, <1>2, <1>3, <1>4, <1>5, <1>6

LEMMA SpecRates == MetaSpec => []RatesInv
BY InitRates, NextRates, PTL DEF MetaSpec

(* No window of RateWindow holds more than RateMax dispatches.             *)
THEOREM DispatchRate == MetaSpec => []RateBounded
<1>1. RatesInv => RateBounded
  <2> SUFFICES ASSUME RatesInv PROVE RateBounded
    OBVIOUS
  <2>1. /\ DOMAIN passed = 1..Len(passed)
        /\ \A i \in 1..Len(passed) : PassedAt[i] = passed[i].at
    BY WindowTypes, DomainOfPassed DEF RatesInv, TypedSlots
  <2> QED
    BY <2>1 DEF RatesInv, RateInv, Bounded, RateBounded
<1> QED
  BY <1>1, SpecRates, PTL

(* Nor does one life of the sidecar analyse more untrusted requests than    *)
(* its limiter allows.                                                     *)
THEOREM UntrustedRate == MetaSpec => []LimiterBounded
<1>1. RatesInv => LimiterBounded
  <2> SUFFICES ASSUME RatesInv PROVE LimiterBounded
    OBVIOUS
  <2>1. DOMAIN admitted = 1..Len(admitted)
    <3>1. admitted \in Seq(Times)
      BY DEF RatesInv, TypedSlots, MetaTypeOK
    <3> HIDE DEF Times
    <3> QED
      BY <3>1
  <2> QED
    BY <2>1 DEF RatesInv, LimiterInv, Bounded, LimiterBounded
<1> QED
  BY <1>1, SpecRates, PTL

(* A trace is dispatched at most once in TraceGap.                         *)
THEOREM TraceGapKept == MetaSpec => []TraceSpaced
<1>1. RatesInv => TraceSpaced
  BY DEF RatesInv, GapInv
<1> QED
  BY <1>1, SpecRates, PTL

(* meta_client.py: the three limits of a dispatch hold together. *)
THEOREM LimitsHold == MetaSpec => []DispatchesLimited
<1>1. SlotsAccounted /\ TraceSpaced /\ RateBounded => DispatchesLimited
  BY DEF DispatchesLimited
<1> QED
  BY <1>1, SlotsNeverLeak, TraceGapKept, DispatchRate, PTL

-------------------------------------------------------------------------------
(* What the rows count.                                                    *)

(* The upserts that reached the database, as pairs of a dispatch and the    *)
(* place of an insight among those found for it.                           *)
Occurrences == UNION {{d} \X (1..stored[d]) : d \in Dispatches}

CountedFor(k) == {u \in Occurrences : found[u[1]][u[2]] = k}

(* The answer under way is what was found, from its beginning.             *)
Answered(d) ==
  \A i \in 1..Len(answer[d]) : i <= Len(found[d]) /\ answer[d][i] = found[d][i]

(* How far a request has come says how much of it may be stored.           *)
StoredInv ==
  \A d \in Dispatches :
    /\ stored[d] <= Len(found[d])
    /\ side[d] \in {"none", "wire", "refused", "analyzing"} => stored[d] = 0
    /\ side[d] = "storing" /\ ~enabled => stored[d] = 0
    /\ side[d] = "answered" => stored[d] = 0 \/ stored[d] = Len(found[d])
    /\ call[d] \in {"idle", "dropped"} => side[d] = "none"
    /\ call[d] = "handling" => side[d] = "answered" /\ Answered(d)

AccountInv ==
  TypedSlots /\ StoredInv /\ IsFiniteSet(Occurrences) /\ RowsCountUpserts

LEMMA InitAccount == MetaInit => AccountInv
<1> SUFFICES ASSUME MetaInit PROVE AccountInv
  OBVIOUS
<1>1. TypedSlots
  BY MetaInitTypes, InitSlots DEF TypedSlots
<1>2. StoredInv
  BY DEF MetaInit, StoredInv
<1>3. \A d \in Dispatches : {d} \X (1..stored[d]) = {}
  BY DEF MetaInit
<1>4. Occurrences = {}
  BY <1>3 DEF Occurrences
<1>5. IsFiniteSet(Occurrences)
  BY <1>4, FS_EmptySet
<1>6. ASSUME NEW k \in Keys PROVE rows[k] = Cardinality(CountedFor(k))
  <2>1. CountedFor(k) = {}
    BY <1>4 DEF CountedFor
  <2> QED
    BY <2>1, FS_EmptySet DEF MetaInit
<1> QED
  BY <1>1, <1>2, <1>5, <1>6 DEF AccountInv, RowsCountUpserts, CountedFor, Occurrences

(* What stores nothing and changes no analysis of which something is stored *)
(* changes neither the rows nor what they count.                           *)
LEMMA SameRows ==
  ASSUME MetaTypeOK, IsFiniteSet(Occurrences), RowsCountUpserts, UNCHANGED <<stored, rows>>,
         \A d \in Dispatches : stored[d] # 0 => found'[d] = found[d]
  PROVE  IsFiniteSet(Occurrences)' /\ RowsCountUpserts'
<1>1. Occurrences' = Occurrences
  BY DEF Occurrences
<1>2. ASSUME NEW u \in Occurrences PROVE found'[u[1]] = found[u[1]]
  <2>1. PICK d \in Dispatches : u \in {d} \X (1..stored[d])
    BY DEF Occurrences
  <2>2. u[1] = d /\ u[2] \in 1..stored[d]
    BY <2>1
  <2>3. stored[d] # 0
    BY <2>2 DEF MetaTypeOK
  <2> QED
    BY <2>2, <2>3
<1>3. \A k \in Keys : CountedFor(k)' = CountedFor(k)
  BY <1>1, <1>2 DEF CountedFor
<1>4. \A k \in Keys : rows[k] = Cardinality(CountedFor(k))
  BY DEF RowsCountUpserts, CountedFor, Occurrences
<1>5. \A k \in Keys : rows'[k] = Cardinality(CountedFor(k)')
  BY <1>3, <1>4
<1> QED
  BY <1>1, <1>5 DEF RowsCountUpserts, CountedFor, Occurrences

(* An upsert counts one occurrence more, and only in the row of its key.    *)
LEMMA MergeRows ==
  ASSUME MetaTypeOK, IsFiniteSet(Occurrences), RowsCountUpserts,
         NEW d \in Dispatches, Merge(d), UNCHANGED found
  PROVE  IsFiniteSet(Occurrences)' /\ RowsCountUpserts'
<1> DEFINE n == stored[d] + 1
           u == <<d, n>>
           key == found[d][n]
<1>1. n \in Nat /\ n \in 1..Len(found[d]) /\ found[d] \in Seq(Keys)
  <2>1. found[d] \in Seq(Keys) /\ stored[d] \in Nat
    BY DEF MetaTypeOK
  <2>2. stored[d] < Len(found[d])
    BY DEF Merge
  <2>3. Len(found[d]) \in Nat
    BY <2>1
  <2>4. n \in Nat /\ n \in 1..Len(found[d])
    BY ONLY <2>1, <2>2, <2>3
  <2> QED
    BY <2>1, <2>4
<1>2. key \in Keys
  BY <1>1
<1>3. /\ stored' = [stored EXCEPT ![d] = n] /\ stored \in [Dispatches -> Nat]
      /\ rows' = [rows EXCEPT ![key] = rows[key] + 1] /\ rows \in [Keys -> Nat]
  BY DEF Merge, MetaTypeOK
<1>4. u \notin Occurrences
  <2> SUFFICES ASSUME u \in Occurrences PROVE FALSE
    OBVIOUS
  <2>1. PICK e \in Dispatches : u \in {e} \X (1..stored[e])
    BY DEF Occurrences
  <2>2. d = e /\ n \in 1..stored[e]
    BY <2>1
  <2> QED
    BY <2>2, <1>3
<1>5. Occurrences' = Occurrences \cup {u}
  <2>1. ASSUME NEW e \in Dispatches, e # d
        PROVE  {e} \X (1..stored'[e]) = {e} \X (1..stored[e])
    BY <2>1, <1>3
  <2>2. {d} \X (1..stored'[d]) = ({d} \X (1..stored[d])) \cup {u}
    <3>1. 1..n = (1..stored[d]) \cup {n} /\ stored'[d] = n
      BY <1>1, <1>3
    <3> QED
      BY <3>1
  <2> HIDE DEF u, n
  <2> QED
    BY <2>1, <2>2 DEF Occurrences
<1>6. \A k \in Keys : IsFiniteSet(CountedFor(k)) /\ Cardinality(CountedFor(k)) \in Nat
  BY FS_Subset, FS_CardinalityType DEF CountedFor
<1>7. \A k \in Keys : rows[k] = Cardinality(CountedFor(k))
  BY DEF RowsCountUpserts, CountedFor, Occurrences
<1>8. u[1] = d /\ u[2] = n
  OBVIOUS
<1>9. ASSUME NEW k \in Keys PROVE rows'[k] = Cardinality(CountedFor(k)')
  <2>1. CASE k = key
    <3>1. CountedFor(k)' = CountedFor(k) \cup {u} /\ u \notin CountedFor(k)
      <4> HIDE DEF u, n
      <4> QED
        BY <1>4, <1>5, <1>8, <2>1 DEF CountedFor
    <3>2. Cardinality(CountedFor(k) \cup {u}) = Cardinality(CountedFor(k)) + 1
      BY <3>1, <1>6, FS_AddElement
    <3>3. rows'[k] = rows[k] + 1
      BY <1>2, <1>3, <2>1
    <3> QED
      BY <3>1, <3>2, <3>3, <1>7
  <2>2. CASE k # key
    <3>1. CountedFor(k)' = CountedFor(k)
      <4> HIDE DEF u, n
      <4> QED
        BY <1>4, <1>5, <1>8, <2>2 DEF CountedFor
    <3>2. rows'[k] = rows[k]
      BY <1>2, <1>3, <2>2
    <3> QED
      BY <3>1, <3>2, <1>7
  <2> QED
    BY <2>1, <2>2
<1>10. IsFiniteSet(Occurrences')
  BY <1>5, FS_AddElement
<1> QED
  BY <1>9, <1>10 DEF RowsCountUpserts, CountedFor, Occurrences

(* An answer shown is made of a beginning of what was found.               *)
LEMMA ShownFromStart ==
  ASSUME MetaTypeOK, NEW d \in Dispatches, Receive(d)
  PROVE  call'[d] = "handling" => Answered(d)'
<1> DEFINE max == IF Len(found[d]) > MaxInsights THEN MaxInsights ELSE Len(found[d])
           insights == SubSeq(found[d], 1, max)
<1>1. found[d] \in Seq(Keys) /\ max \in 0..Len(found[d])
  <2>1. found[d] \in Seq(Keys)
    BY DEF MetaTypeOK
  <2>2. Len(found[d]) \in Nat /\ MaxInsights \in Nat
    BY <2>1, SizesAssumption
  <2> QED
    BY ONLY <2>1, <2>2
<1>2. Len(insights) = max /\ \A i \in 1..max : insights[i] = found[d][i]
  BY <1>1
<1>3. found' = found /\ answer \in [Dispatches -> Seq(Keys)]
      /\ call \in [Dispatches -> States]
      /\ (call' = [call EXCEPT ![d] = "done"]
          \/ answer' = [answer EXCEPT ![d] = insights])
  BY DEF Receive, Release, sidecar, MetaTypeOK, States
<1>4. call'[d] = "handling" => answer'[d] = insights
  BY <1>3
<1> HIDE DEF insights
<1> QED
  BY <1>1, <1>2, <1>3, <1>4 DEF Answered

LEMMA StoredDispatch ==
  ASSUME MetaTypeOK, StoredInv, NEW d \in Dispatches, NEW t \in Traces \cup {NoTrace},
         Dispatch(d, t)
  PROVE  StoredInv'
<1>1. /\ call[d] = "idle" /\ UNCHANGED <<stored, found, enabled, answer>>
      /\ \/ call' = [call EXCEPT ![d] = "dropped"] /\ side' = side
         \/ call' = [call EXCEPT ![d] = "sent"] /\ side' = [side EXCEPT ![d] = "wire"]
  BY DEF Dispatch, Drop, Send
<1>2. call \in [Dispatches -> States] /\ side \in [Dispatches -> Stages]
  BY DEF MetaTypeOK, States, Stages
<1>3. ASSUME NEW e \in Dispatches, Answered(e) PROVE Answered(e)'
  BY <1>1, <1>3 DEF Answered
<1> QED
  BY <1>1, <1>2, <1>3 DEF StoredInv

(* The steps of a dispatch that has been sent.                             *)
LEMMA StoredBackend ==
  ASSUME MetaTypeOK, StoredInv, NEW d \in Dispatches,
         Receive(d) \/ Handle(d) \/ CallFails(d)
  PROVE  StoredInv'
<1>1. call \in [Dispatches -> States] /\ answer \in [Dispatches -> Seq(Keys)]
  BY DEF MetaTypeOK, States
<1>2. UNCHANGED <<side, stored, found, enabled>>
  BY DEF Receive, Handle, CallFails, sidecar
<1>3. ASSUME NEW e \in Dispatches, e # d, Answered(e)
      PROVE  call'[e] = call[e] /\ Answered(e)'
  BY <1>1, <1>2, <1>3 DEF Receive, Handle, CallFails, Release, Answered
<1>4. \A e \in Dispatches : e # d => call'[e] = call[e]
  BY <1>1 DEF Receive, Handle, CallFails, Release
<1>5. call'[d] \notin {"idle", "dropped"}
  BY <1>1 DEF Receive, Handle, CallFails, Release
<1>6. call'[d] = "handling" => side[d] = "answered" /\ Answered(d)'
  <2>1. CASE Receive(d)
    BY <2>1, ShownFromStart DEF Receive
  <2>2. CASE Handle(d)
    BY <2>2, <1>2 DEF Handle, StoredInv, Answered
  <2>3. CASE CallFails(d)
    BY <2>3, <1>1 DEF CallFails, Release
  <2> QED
    BY <2>1, <2>2, <2>3
<1> QED
  BY <1>2, <1>3, <1>4, <1>5, <1>6 DEF StoredInv

(* The steps of a request in the sidecar.                                  *)
LEMMA StoredSidecar ==
  ASSUME MetaTypeOK, StoredInv, NEW d \in Dispatches,
         Arrive(d) \/ Analyzed(d) \/ Upsert(d) \/ UpsertFails(d) \/ Reply(d)
  PROVE  StoredInv'
<1>1. /\ side \in [Dispatches -> Stages] /\ stored \in [Dispatches -> Nat]
      /\ found \in [Dispatches -> Seq(Keys)] /\ enabled \in BOOLEAN
  BY DEF MetaTypeOK, Stages
<1>2. UNCHANGED <<call, answer, enabled>>
  BY DEF Arrive, Analyzed, Upsert, UpsertFails, Reply, backend
<1>3. ASSUME NEW e \in Dispatches, e # d
      PROVE  side'[e] = side[e] /\ stored'[e] = stored[e] /\ found'[e] = found[e]
  BY <1>1, <1>3 DEF Arrive, Analyzed, Upsert, UpsertFails, Reply, Become, Merge
<1>4. ASSUME NEW e \in Dispatches, e # d, Answered(e) PROVE Answered(e)'
  BY <1>2, <1>3, <1>4 DEF Answered
<1>5. side[d] \in {"wire", "analyzing", "storing"}
  BY DEF Arrive, Analyzed, Upsert, UpsertFails, Reply, Storing
<1>6. call[d] \notin {"idle", "dropped", "handling"}
  BY <1>5 DEF StoredInv
<1>7. /\ stored'[d] <= Len(found'[d])
      /\ side'[d] \in {"none", "wire", "refused", "analyzing"} => stored'[d] = 0
      /\ side'[d] = "storing" /\ ~enabled => stored'[d] = 0
      /\ side'[d] = "answered" => stored'[d] = 0 \/ stored'[d] = Len(found'[d])
  <2>1. CASE Arrive(d)
    <3>1. side'[d] \in {"refused", "analyzing"} /\ stored' = stored /\ found' = found
      BY <2>1, <1>1 DEF Arrive, Become
    <3>2. stored[d] = 0
      BY <2>1 DEF Arrive, StoredInv
    <3> QED
      BY <3>1, <3>2, <1>1
  <2>2. CASE Analyzed(d)
    <3>1. side'[d] = "storing" /\ stored' = stored /\ found'[d] \in Seq(Keys)
      BY <2>2, <1>1, FindingsAssumption DEF Analyzed, Become
    <3>2. stored[d] = 0
      BY <2>2 DEF Analyzed, StoredInv
    <3> QED
      BY <3>1, <3>2
  <2>3. CASE Upsert(d)
    <3>1. /\ side'[d] = "storing" /\ found' = found /\ enabled
          /\ stored[d] < Len(found[d]) /\ stored'[d] = stored[d] + 1
      BY <2>3, <1>1 DEF Upsert, Merge, Storing
    <3> QED
      BY <3>1, <1>1
  <2>4. CASE UpsertFails(d)
    <3>1. /\ side'[d] = "failed" /\ found' = found
          /\ stored[d] < Len(found[d]) /\ stored'[d] \in {stored[d], stored[d] + 1}
      BY <2>4, <1>1 DEF UpsertFails, Merge, Become
    <3> QED
      BY <3>1, <1>1
  <2>5. CASE Reply(d)
    <3>1. /\ side'[d] = "answered" /\ found' = found /\ stored' = stored
          /\ enabled => stored[d] = Len(found[d])
      BY <2>5, <1>1 DEF Reply, Become
    <3>2. stored[d] <= Len(found[d]) /\ (~enabled => stored[d] = 0)
      BY <2>5 DEF Reply, Storing, StoredInv
    <3> QED
      BY <3>1, <3>2, <1>1
  <2> QED
    BY <2>1, <2>2, <2>3, <2>4, <2>5
<1> QED
  BY <1>2, <1>3, <1>4, <1>6, <1>7 DEF StoredInv

LEMMA NextAccount == AccountInv /\ [MetaNext]_metaVars => AccountInv'
<1> SUFFICES ASSUME AccountInv, [MetaNext]_metaVars PROVE AccountInv'
  OBVIOUS
<1>1. MetaTypeOK /\ StoredInv /\ IsFiniteSet(Occurrences) /\ RowsCountUpserts /\ TypedSlots
  BY DEF AccountInv, TypedSlots
<1>2. TypedSlots'
  BY <1>1, MetaNextTypes, NextSlots DEF TypedSlots
<1>3. StoredInv' /\ IsFiniteSet(Occurrences)' /\ RowsCountUpserts'
  <2>1. ASSUME NEW d \in Dispatches, NEW t \in Traces \cup {NoTrace}, Dispatch(d, t)
        PROVE  StoredInv' /\ IsFiniteSet(Occurrences)' /\ RowsCountUpserts'
    BY <1>1, <2>1, StoredDispatch, SameRows DEF Dispatch
  <2>2. ASSUME NEW d \in Dispatches, Receive(d) \/ Handle(d) \/ CallFails(d)
        PROVE  StoredInv' /\ IsFiniteSet(Occurrences)' /\ RowsCountUpserts'
    <3>1. UNCHANGED <<stored, rows, found>>
      BY <2>2 DEF Receive, Handle, CallFails, sidecar
    <3> QED
      BY <1>1, <2>2, <3>1, StoredBackend, SameRows
  <2>3. ASSUME NEW d \in Dispatches, Arrive(d) \/ Reply(d)
        PROVE  StoredInv' /\ IsFiniteSet(Occurrences)' /\ RowsCountUpserts'
    BY <1>1, <2>3, StoredSidecar, SameRows DEF Arrive, Reply
  <2>4. ASSUME NEW d \in Dispatches, Analyzed(d)
        PROVE  StoredInv' /\ IsFiniteSet(Occurrences)' /\ RowsCountUpserts'
    <3>1. stored[d] = 0
      BY <1>1, <2>4 DEF Analyzed, StoredInv
    <3>2. \A e \in Dispatches : stored[e] # 0 => found'[e] = found[e]
      BY <1>1, <2>4, <3>1 DEF Analyzed, MetaTypeOK
    <3> QED
      BY <1>1, <2>4, <3>2, StoredSidecar, SameRows DEF Analyzed
  <2>5. ASSUME NEW d \in Dispatches, Upsert(d)
        PROVE  StoredInv' /\ IsFiniteSet(Occurrences)' /\ RowsCountUpserts'
    BY <1>1, <2>5, StoredSidecar, MergeRows DEF Upsert
  <2>6. ASSUME NEW d \in Dispatches, UpsertFails(d)
        PROVE  StoredInv' /\ IsFiniteSet(Occurrences)' /\ RowsCountUpserts'
    <3>1. CASE Merge(d)
      BY <1>1, <2>6, <3>1, StoredSidecar, MergeRows DEF UpsertFails
    <3>2. CASE UNCHANGED <<stored, rows>>
      BY <1>1, <2>6, <3>2, StoredSidecar, SameRows DEF UpsertFails
    <3> QED
      BY <2>6, <3>1, <3>2 DEF UpsertFails
  <2>7. CASE Restart
    <3>1. /\ UNCHANGED <<stored, rows, found, call, answer>>
          /\ side' = [d \in Dispatches |->
                        IF side[d] \in {"analyzing", "storing"} THEN "lost" ELSE side[d]]
      BY <2>7 DEF Restart, backend
    <3>2. \A d \in Dispatches : Answered(d)' = Answered(d)
      BY <3>1 DEF Answered
    <3>3. StoredInv'
      BY <1>1, <3>1, <3>2 DEF StoredInv
    <3> QED
      BY <1>1, <3>1, <3>3, SameRows
  <2>8. CASE Tick \/ UNCHANGED metaVars
    <3>1. UNCHANGED <<backend, sidecar>>
      BY <2>8 DEF Tick, metaVars
    <3>2. \A d \in Dispatches : Answered(d)' = Answered(d)
      BY <3>1 DEF Answered, backend, sidecar
    <3>3. StoredInv'
      BY <1>1, <3>1, <3>2 DEF StoredInv, backend, sidecar
    <3> QED
      BY <1>1, <3>1, <3>3, SameRows DEF sidecar
  <2> QED
    BY <2>1, <2>2, <2>3, <2>4, <2>5, <2>6, <2>7, <2>8 DEF MetaNext
<1> QED
  BY <1>2, <1>3 DEF AccountInv

(* The occurrence_count of an insight is the number of upserts that reached *)
(* the database, and an insight shown has a row, unless the sidecar has no  *)
(* database.                                                               *)
THEOREM RowsAccounted == MetaSpec => []InsightsAccounted
<1>1. AccountInv => InsightsAccounted
  <2> SUFFICES ASSUME AccountInv PROVE InsightsAccounted
    OBVIOUS
  <2>1. MetaTypeOK /\ StoredInv /\ IsFiniteSet(Occurrences) /\ RowsCountUpserts
    BY DEF AccountInv, TypedSlots
  <2>2. ASSUME NEW d \in Dispatches, call[d] = "handling", stored[d] # 0,
               NEW i \in DOMAIN answer[d]
        PROVE  rows[answer[d][i]] > 0
    <3> DEFINE k == answer[d][i]
    <3>1. answer[d] \in Seq(Keys) /\ found[d] \in Seq(Keys)
      BY <2>1 DEF MetaTypeOK
    <3>2. i \in 1..Len(answer[d]) /\ k \in Keys
      BY <3>1
    <3>3. stored[d] = Len(found[d]) /\ Answered(d)
      BY <2>1, <2>2 DEF StoredInv
    <3>4. i \in 1..stored[d] /\ found[d][i] = k
      BY <3>1, <3>2, <3>3 DEF Answered
    <3> HIDE DEF k
    <3>5. <<d, i>> \in {d} \X (1..stored[d])
      BY <3>4
    <3>6. <<d, i>> \in Occurrences
      BY <3>5 DEF Occurrences
    <3>7. <<d, i>> \in CountedFor(k)
      BY <3>4, <3>6 DEF CountedFor
    <3>8. IsFiniteSet(CountedFor(k))
      BY <2>1, FS_Subset DEF CountedFor
    <3>9. Cardinality(CountedFor(k)) \in Nat /\ Cardinality(CountedFor(k)) # 0
      BY <3>7, <3>8, FS_EmptySet, FS_CardinalityType
    <3>10. rows[k] = Cardinality(CountedFor(k))
      BY <2>1, <3>2 DEF RowsCountUpserts, CountedFor, Occurrences, k
    <3> QED
      BY <3>9, <3>10 DEF k
  <2>3. ShownWasStored
    BY <2>2 DEF ShownWasStored
  <2> QED
    BY <2>1, <2>3 DEF InsightsAccounted
<1> QED
  BY <1>1, InitAccount, NextAccount, PTL DEF MetaSpec

-----------------------------------------------------------------------------
(* Connections: removal from a list, as disconnect performs it.            *)

(* The rank of a position among the kept ones: positive, at most the       *)
(* position itself, strictly increasing, and taking every value up to the  *)
(* number of kept positions.                                               *)
LEMMA RankFacts ==
  ASSUME NEW n \in Nat, NEW K \in SUBSET (1..n)
  PROVE  /\ IsFiniteSet(K)
         /\ Cardinality(K) \in Nat
         /\ \A k \in K : Rank(K, k) \in 1..Cardinality(K) /\ Rank(K, k) <= k
         /\ \A j, k \in K : j < k => Rank(K, j) < Rank(K, k)
         /\ \A m \in 1..Cardinality(K) : \E k \in K : Rank(K, k) = m
<1>1. IsFiniteSet(K) /\ Cardinality(K) \in Nat
  <2>1. IsFiniteSet(1..n)
    BY FS_Interval
  <2>2. IsFiniteSet(K)
    BY <2>1, FS_Subset
  <2> QED BY <2>2, FS_CardinalityType
<1>2. \A k \in K : /\ Rank(K, k) \in 1..Cardinality(K)
                   /\ Rank(K, k) <= k
  <2> TAKE k \in K
  <2>1. /\ IsFiniteSet(K \cap 1..k)
        /\ Cardinality(K \cap 1..k) \in Nat
        /\ Cardinality(K \cap 1..k) <= Cardinality(K)
    BY <1>1, FS_Intersection, FS_CardinalityType
  <2>2. Cardinality(K \cap 1..k) <= k
    <3>1. k \in 1..n
      OBVIOUS
    <3>2. IsFiniteSet(1..k) /\ Cardinality(1..k) = k
      BY <3>1, FS_Interval
    <3>3. K \cap 1..k \in SUBSET (1..k)
      OBVIOUS
    <3> QED BY <3>2, <3>3, FS_Subset
  <2>3. Cardinality(K \cap 1..k) # 0
    <3>1. k \in K \cap 1..k
      OBVIOUS
    <3> QED BY <3>1, <2>1, FS_EmptySet
  <2> QED BY <1>1, <2>1, <2>2, <2>3 DEF Rank
<1>3. \A j, k \in K : j < k => Rank(K, j) < Rank(K, k)
  <2> SUFFICES ASSUME NEW j \in K, NEW k \in K, j < k
               PROVE  Rank(K, j) < Rank(K, k)
    OBVIOUS
  <2>1. K \cap 1..j \in SUBSET (K \cap 1..k)
    OBVIOUS
  <2>2. k \in K \cap 1..k /\ k \notin K \cap 1..j
    OBVIOUS
  <2>3. IsFiniteSet(K \cap 1..k)
    BY <1>1, FS_Intersection
  <2>4. /\ Cardinality(K \cap 1..j) <= Cardinality(K \cap 1..k)
        /\ Cardinality(K \cap 1..j) # Cardinality(K \cap 1..k)
    BY <2>1, <2>2, <2>3, FS_Subset
  <2> QED BY <1>2, <2>4 DEF Rank
<1>4. \A m \in 1..Cardinality(K) : \E k \in K : Rank(K, k) = m
  <2> DEFINE f == [k \in K |-> Rank(K, k)]
             T == 1..Cardinality(K)
  <2>1. f \in [K -> T]
    BY <1>2
  <2>2. \A j, k \in K : f[j] = f[k] => j = k
    <3> SUFFICES ASSUME NEW j \in K, NEW k \in K, Rank(K, j) = Rank(K, k)
                 PROVE  j = k
      OBVIOUS
    <3>1. Rank(K, j) \in Nat
      BY <1>1, <1>2
    <3>2. ~(j < k) /\ ~(k < j)
      BY <1>3, <3>1
    <3> QED BY <3>2
  <2>3. f \in Injection(K, T)
    BY <2>1, <2>2 DEF Injection, IsInjective
  <2>4. IsFiniteSet(T) /\ Cardinality(T) = Cardinality(K)
    BY <1>1, FS_Interval
  <2>5. f \in Surjection(K, T)
    BY <2>3, <2>4, FS_Injection
  <2> QED BY <2>5 DEF Surjection
<1> QED BY <1>1, <1>2, <1>3, <1>4

(* What is left after a removal: the members outside S, each once if it    *)
(* was there once, and none further back than before.                      *)
LEMMA WithoutFacts ==
  ASSUME NEW A, NEW l \in Seq(A), NEW S
  PROVE  /\ Without(l, S) \in Seq(A)
         /\ \A m \in DOMAIN Without(l, S) :
              \E k \in DOMAIN l : /\ m <= k
                                  /\ l[k] = Without(l, S)[m]
                                  /\ l[k] \notin S
         /\ \A k \in DOMAIN l : l[k] \notin S =>
              \E m \in DOMAIN Without(l, S) : Without(l, S)[m] = l[k]
         /\ (\A j, k \in DOMAIN l : l[j] = l[k] => j = k) =>
              \A j, k \in DOMAIN Without(l, S) :
                 Without(l, S)[j] = Without(l, S)[k] => j = k
<1> DEFINE K == Remaining(l, S)
           n == Cardinality(K)
           At(m) == CHOOSE k \in K : Rank(K, k) = m
           W == [m \in 1..n |-> l[At(m)]]
<1>1. Len(l) \in Nat /\ DOMAIN l = 1..Len(l) /\ K \in SUBSET (1..Len(l))
  BY DEF Remaining
<1>2. /\ n \in Nat
      /\ \A k \in K : Rank(K, k) \in 1..n /\ Rank(K, k) <= k
      /\ \A j, k \in K : j < k => Rank(K, j) < Rank(K, k)
      /\ \A m \in 1..n : \E k \in K : Rank(K, k) = m
  BY <1>1, RankFacts
<1>3. Without(l, S) = W
  BY DEF Without
<1>4. \A m \in 1..n : At(m) \in K /\ Rank(K, At(m)) = m /\ m <= At(m)
  BY <1>2
<1>5. \A k \in K : At(Rank(K, k)) = k
  <2> TAKE k \in K
  <2> DEFINE j == At(Rank(K, k))
  <2>1. j \in K /\ Rank(K, j) = Rank(K, k) /\ Rank(K, k) \in Nat
    BY <1>2, <1>4
  <2>2. j \in Nat /\ k \in Nat
    BY <1>1, <2>1
  <2> HIDE DEF j
  <2>3. ~(j < k) /\ ~(k < j)
    BY <1>2, <2>1
  <2> QED BY <2>2, <2>3
<1> HIDE DEF K, n, At
<1>6. W \in Seq(A) /\ DOMAIN W = 1..n
  <2>1. \A m \in 1..n : l[At(m)] \in A
    <3> TAKE m \in 1..n
    <3>1. At(m) \in 1..Len(l)
      BY <1>1, <1>4
    <3>2. \A k \in 1..Len(l) : l[k] \in A
      OBVIOUS
    <3> QED BY <3>1, <3>2
  <2>2. W \in [1..n -> A]
    BY <2>1
  <2>3. [1..n -> A] \subseteq Seq(A)
    BY <1>2
  <2> QED BY <2>2, <2>3
<1>7. \A m \in DOMAIN W : \E k \in DOMAIN l : m <= k /\ l[k] = W[m] /\ l[k] \notin S
  BY <1>1, <1>4, <1>6 DEF K, Remaining
<1>8. \A k \in DOMAIN l : l[k] \notin S => \E m \in DOMAIN W : W[m] = l[k]
  <2> SUFFICES ASSUME NEW k \in DOMAIN l, l[k] \notin S
               PROVE  \E m \in DOMAIN W : W[m] = l[k]
    OBVIOUS
  <2>1. k \in K
    BY DEF K, Remaining
  <2>2. Rank(K, k) \in 1..n /\ At(Rank(K, k)) = k
    BY <1>2, <1>5, <2>1
  <2>3. W[Rank(K, k)] = l[k]
    BY <2>2
  <2> QED BY <1>6, <2>2, <2>3
<1>9. (\A j, k \in DOMAIN l : l[j] = l[k] => j = k) =>
        \A j, k \in DOMAIN W : W[j] = W[k] => j = k
  <2> SUFFICES ASSUME \A j, k \in DOMAIN l : l[j] = l[k] => j = k,
                      NEW j \in DOMAIN W, NEW k \in DOMAIN W, W[j] = W[k]
               PROVE  j = k
    OBVIOUS
  <2>1. At(j) = At(k)
    BY <1>1, <1>4, <1>6
  <2> QED BY <1>4, <1>6, <2>1
<1> HIDE DEF W
<1> QED BY <1>3, <1>6, <1>7, <1>8, <1>9

-----------------------------------------------------------------------------
(* The inductive invariant.                                                *)

(* Only an endpoint between connect and disconnect is registered, and      *)
(* nothing was written before connect.                                     *)
SessionInv ==
  \A c \in Client : /\ c \in Registered => session[c] \in {"welcoming", "serving"}
                    /\ session[c] = "new" => inbox[c] = <<>>

(* The entry of a client holds the identity it authenticated with. *)
IdentityInv ==
  \A c \in Registered : /\ metadata[c].tenant = context[c].tenant
                        /\ metadata[c].super = context[c].super

(* Who already got the message of a suspended broadcast is behind its      *)
(* iterator: this is what makes delivery at most once.                     *)
Behind(b, c) ==
  \A k \in DOMAIN active[bc[b].channel] :
     active[bc[b].channel][k] = c => k < bc[b].i
CursorInv ==
  \A b \in Task : \A c \in Client :
     b \in Range(inbox[c]) => /\ bc[b].pc # "idle"
                              /\ bc[b].pc = "sending" => Behind(b, c)

(* A suspended broadcast is sending to somebody. *)
TargetInv == \A b \in Task : bc[b].pc = "sending" => bc[b].to \in Client

IInv == /\ ManagerTypeOK /\ RegistryAgrees /\ AtMostOnce /\ TenantIsolation
        /\ SessionInv /\ IdentityInv /\ CursorInv /\ TargetInv

(* What Start, Sent and SendFailed hand to Advance for the call b: its own *)
(* locals and metadata in which at most events_received changed.           *)
Continues(b, B, md) ==
  /\ B \in Broadcast
  /\ B.channel = bc[b].channel /\ B.tenant = bc[b].tenant /\ B.i = bc[b].i
  /\ B.to = bc[b].to
  /\ bc[b].pc \in {"idle", "sending"}
  /\ md \in [Registered -> Entry]
  /\ \A c \in Registered : /\ md[c].channel = metadata[c].channel
                            /\ md[c].tenant = metadata[c].tenant
                            /\ md[c].super = metadata[c].super

-----------------------------------------------------------------------------
(* Marking a shift changes nothing but the history flag. *)
LEMMA MarkShiftFacts ==
  ASSUME NEW B \in [Task -> Broadcast], NEW S
  PROVE  /\ MarkShift(B, S) \in [Task -> Broadcast]
         /\ \A b \in Task : /\ MarkShift(B, S)[b].pc = B[b].pc
                            /\ MarkShift(B, S)[b].channel = B[b].channel
                            /\ MarkShift(B, S)[b].tenant = B[b].tenant
                            /\ MarkShift(B, S)[b].i = B[b].i
                            /\ MarkShift(B, S)[b].to = B[b].to
<1>1. ASSUME NEW b \in Task
      PROVE  \E s \in BOOLEAN : MarkShift(B, S)[b] = [B[b] EXCEPT !.shifted = s]
  <2> DEFINE s == \/ B[b].shifted
                  \/ /\ B[b].pc = "sending"
                     /\ \E k \in DOMAIN active[B[b].channel] :
                          k < B[b].i /\ active[B[b].channel][k] \in S
  <2>1. B[b].shifted \in BOOLEAN
    BY DEF Broadcast
  <2>2. s \in BOOLEAN
    BY <2>1
  <2>3. MarkShift(B, S)[b] = [B[b] EXCEPT !.shifted = s]
    BY DEF MarkShift
  <2> HIDE DEF s
  <2> QED BY <2>2, <2>3
<1>2. ASSUME NEW b \in Task
      PROVE  /\ MarkShift(B, S)[b] \in Broadcast
             /\ MarkShift(B, S)[b].pc = B[b].pc
             /\ MarkShift(B, S)[b].channel = B[b].channel
             /\ MarkShift(B, S)[b].tenant = B[b].tenant
             /\ MarkShift(B, S)[b].i = B[b].i
             /\ MarkShift(B, S)[b].to = B[b].to
  <2>1. PICK s \in BOOLEAN : MarkShift(B, S)[b] = [B[b] EXCEPT !.shifted = s]
    BY <1>1
  <2>2. B[b] \in Broadcast
    OBVIOUS
  <2> QED BY <2>1, <2>2 DEF Broadcast
<1>3. DOMAIN MarkShift(B, S) = Task /\ MarkShift(B, S) = [b \in Task |-> MarkShift(B, S)[b]]
  BY DEF MarkShift
<1> QED BY <1>2, <1>3

(* Appending a message that was not there keeps an inbox free of           *)
(* duplicates and adds just that message.                                  *)
LEMMA WriteFacts ==
  ASSUME ManagerTypeOK, NEW c \in Client, NEW m \in Task \cup {"welcome"}, Write(c, m)
  PROVE  /\ inbox' \in [Client -> Seq(Task \cup {"welcome"})]
         /\ \A d \in Client : \A k \in DOMAIN inbox'[d] :
              \/ k \in DOMAIN inbox[d] /\ inbox'[d][k] = inbox[d][k]
              \/ d = c /\ k = Len(inbox[c]) + 1 /\ inbox'[d][k] = m
BY DEF ManagerTypeOK, Write

(* A step that writes a new message to one client keeps inboxes free of    *)
(* duplicates.                                                             *)
LEMMA WriteOnce ==
  ASSUME ManagerTypeOK, AtMostOnce, NEW c \in Client, NEW m \in Task \cup {"welcome"},
         Write(c, m), m \notin Range(inbox[c])
  PROVE  AtMostOnce'
<1> SUFFICES ASSUME NEW d \in Client, NEW j \in DOMAIN inbox'[d],
                    NEW k \in DOMAIN inbox'[d], inbox'[d][j] = inbox'[d][k]
             PROVE  j = k
  BY DEF AtMostOnce
<1>1. /\ \/ j \in DOMAIN inbox[d] /\ inbox'[d][j] = inbox[d][j]
         \/ d = c /\ j = Len(inbox[c]) + 1 /\ inbox'[d][j] = m
      /\ \/ k \in DOMAIN inbox[d] /\ inbox'[d][k] = inbox[d][k]
         \/ d = c /\ k = Len(inbox[c]) + 1 /\ inbox'[d][k] = m
  BY WriteFacts
<1> QED BY <1>1 DEF AtMostOnce, Range

(* Removing clients, by disconnect or by the clean-up of a broadcast,      *)
(* keeps the invariant: the survivors only move towards the front.         *)
LEMMA RemoveStep ==
  ASSUME IInv, NEW S \in SUBSET Client, NEW md,
         md \in [Registered -> Entry],
         \A c \in Registered : /\ md[c].channel = metadata[c].channel
                               /\ md[c].tenant = metadata[c].tenant
                               /\ md[c].super = metadata[c].super,
         active' = ListsWithout(S),
         metadata' = MetadataWithout(md, S),
         total' \in Nat,
         session' \in [Client -> {"new", "welcoming", "serving", "closed"}],
         \A c \in Client : session'[c] = session[c] \/ (session'[c] = "closed" /\ c \in S),
         bc' \in [Task -> Broadcast],
         \A b \in Task : /\ bc'[b].channel = bc[b].channel
                         /\ bc'[b].tenant = bc[b].tenant
                         /\ bc'[b].i = bc[b].i
                         /\ bc'[b].to = bc[b].to
                         /\ bc'[b].pc = bc[b].pc \/ bc'[b].pc = "done",
         UNCHANGED <<up, inbox, context>>
  PROVE  IInv'
<1> USE DEF IInv
<1>1. Registered' = Registered \ S /\ \A c \in Registered' : metadata'[c] = md[c]
  BY DEF MetadataWithout, Registered
<1>2. \A ch \in Channel :
        /\ active'[ch] \in Seq(Client)
        /\ \A m \in DOMAIN active'[ch] :
             \E k \in DOMAIN active[ch] :
                m <= k /\ active[ch][k] = active'[ch][m] /\ active[ch][k] \notin S
        /\ \A k \in DOMAIN active[ch] : active[ch][k] \notin S =>
             \E m \in DOMAIN active'[ch] : active'[ch][m] = active[ch][k]
        /\ \A j, k \in DOMAIN active'[ch] : active'[ch][j] = active'[ch][k] => j = k
  <2> TAKE ch \in Channel
  <2>1. active[ch] \in Seq(Client) /\ active'[ch] = Without(active[ch], S)
    BY DEF ManagerTypeOK, ListsWithout
  <2>2. \A j, k \in DOMAIN active[ch] : active[ch][j] = active[ch][k] => j = k
    BY DEF RegistryAgrees
  <2> DEFINE l == active[ch]
             W == Without(l, S)
  <2> HIDE DEF l, W
  <2>3. l \in Seq(Client) /\ \A j, k \in DOMAIN l : l[j] = l[k] => j = k
    BY <2>1, <2>2 DEF l
  <2>4. /\ W \in Seq(Client)
        /\ \A m \in DOMAIN W :
             \E k \in DOMAIN l : m <= k /\ l[k] = W[m] /\ l[k] \notin S
        /\ \A k \in DOMAIN l : l[k] \notin S => \E m \in DOMAIN W : W[m] = l[k]
        /\ \A j, k \in DOMAIN W : W[j] = W[k] => j = k
    BY <2>3, WithoutFacts DEF W
  <2> QED BY <2>1, <2>4 DEF l, W
<1>3. ManagerTypeOK'
  <2>1. active' \in [Channel -> Seq(Client)]
    BY <1>2 DEF ListsWithout
  <2>2. Registered' \subseteq Client /\ metadata' \in [Registered' -> Entry]
    BY <1>1 DEF ManagerTypeOK, MetadataWithout, Registered
  <2> QED BY <2>1, <2>2 DEF ManagerTypeOK
<1>4. RegistryAgrees'
  <2>1. ASSUME NEW ch \in Channel, NEW m \in DOMAIN active'[ch]
        PROVE  /\ active'[ch][m] \in Registered'
               /\ metadata'[active'[ch][m]].channel = ch
               /\ \A j \in DOMAIN active'[ch] : active'[ch][j] = active'[ch][m] => j = m
    <3>1. PICK k \in DOMAIN active[ch] :
             active[ch][k] = active'[ch][m] /\ active[ch][k] \notin S
      BY <1>2
    <3>2. active[ch][k] \in Registered /\ metadata[active[ch][k]].channel = ch
      BY DEF RegistryAgrees
    <3> QED BY <1>1, <1>2, <3>1, <3>2
  <2>2. ASSUME NEW c \in Registered'
        PROVE  c \in Range(active'[metadata'[c].channel])
    <3> DEFINE ch == metadata[c].channel
    <3>1. c \in Registered /\ c \notin S /\ metadata'[c].channel = ch
      BY <1>1
    <3>2. ch \in Channel
      BY <3>1 DEF ManagerTypeOK, Entry
    <3>3. \E k \in DOMAIN active[ch] : active[ch][k] = c
      BY <3>1 DEF RegistryAgrees, Range
    <3>4. \E m \in DOMAIN active'[ch] : active'[ch][m] = c
      BY <1>2, <3>1, <3>2, <3>3
    <3> QED BY <3>1, <3>4 DEF Range
  <2> QED BY <2>1, <2>2 DEF RegistryAgrees
<1>5. AtMostOnce'
  BY DEF AtMostOnce
<1>6. TenantIsolation'
  BY DEF TenantIsolation
<1>7. SessionInv'
  BY <1>1 DEF SessionInv
<1>8. IdentityInv'
  BY <1>1 DEF IdentityInv
<1>9. CursorInv'
  <2> SUFFICES ASSUME NEW b \in Task, NEW c \in Client, b \in Range(inbox[c])
               PROVE  /\ bc'[b].pc # "idle"
                      /\ bc'[b].pc = "sending" => Behind(b, c)'
    BY DEF CursorInv
  <2>1. bc'[b].pc # "idle"
    BY DEF CursorInv
  <2>2. ASSUME bc'[b].pc = "sending" PROVE Behind(b, c)'
    <3>1. Behind(b, c) /\ bc[b].channel \in Channel /\ bc[b].i \in Nat
      BY <2>2 DEF CursorInv, ManagerTypeOK, Broadcast
    <3>2. DOMAIN active[bc[b].channel] \subseteq Nat /\ DOMAIN active'[bc[b].channel] \subseteq Nat
      BY <1>2, <3>1 DEF ManagerTypeOK
    <3> QED BY <1>2, <3>1, <3>2 DEF Behind
  <2> QED BY <2>1, <2>2
<1>10. TargetInv'
  BY DEF TargetInv
<1> QED BY <1>3, <1>4, <1>5, <1>6, <1>7, <1>8, <1>9, <1>10

(* Sending to the client under the iterator keeps the invariant: it did    *)
(* not get the message yet, and the iterator moves past it.                *)
LEMMA SendStep ==
  ASSUME IInv, NEW b \in Task, NEW B, NEW md, Continues(b, B, md),
         NEW k \in Eligible(active[B.channel], md, B.i, B.tenant),
         SendTo(b, B, md, k), UNCHANGED <<session, up, context>>
  PROVE  IInv'
<1> USE DEF IInv
<1> DEFINE ch == bc[b].channel
           c == active[ch][k]
<1>1. /\ ch \in Channel /\ bc[b].i \in Nat \ {0} /\ B.channel = ch /\ B.i = bc[b].i
      /\ active[ch] \in Seq(Client)
  BY DEF Continues, ManagerTypeOK, Broadcast
<1>2. /\ k \in Nat \ {0} /\ k >= bc[b].i /\ k \in DOMAIN active[ch]
      /\ c \in Client /\ c \in Registered
      /\ MayReceive(md, c, B.tenant)
  BY <1>1 DEF Eligible, RegistryAgrees
<1>3. /\ bc' = [bc EXCEPT ![b] = [B EXCEPT !.pc = "sending", !.i = k + 1, !.to = c]]
      /\ Write(c, b) /\ metadata' = md /\ active' = active /\ total' = total
  BY <1>1 DEF SendTo
<1> HIDE DEF c
<1>4. Registered' = Registered
  BY <1>3 DEF Registered, Continues
<1>5. bc' \in [Task -> Broadcast]
  <2>1. B \in Broadcast /\ k + 1 \in Nat \ {0} /\ c \in Client
    BY <1>2 DEF Continues
  <2>2. [B EXCEPT !.pc = "sending", !.i = k + 1, !.to = c] \in Broadcast
    BY <2>1 DEF Broadcast
  <2> QED BY <1>3, <2>2 DEF ManagerTypeOK
<1>6. /\ bc'[b].pc = "sending" /\ bc'[b].i = k + 1 /\ bc'[b].channel = ch
      /\ bc'[b].tenant = bc[b].tenant
      /\ \A a \in Task \ {b} : bc'[a] = bc[a]
  BY <1>1, <1>3 DEF ManagerTypeOK, Continues, Broadcast
<1>7. b \notin Range(inbox[c])
  <2> SUFFICES ASSUME b \in Range(inbox[c]) PROVE FALSE
    OBVIOUS
  <2>1. bc[b].pc = "sending" /\ Behind(b, c)
    BY <1>2 DEF CursorInv, Continues
  <2>2. k < bc[b].i
    BY <1>2, <2>1 DEF Behind, c
  <2> QED BY <1>1, <1>2, <2>2
<1>8. ManagerTypeOK'
  BY <1>2, <1>3, <1>4, <1>5, WriteFacts DEF ManagerTypeOK, Continues
<1>9. RegistryAgrees'
  BY <1>3, <1>4 DEF RegistryAgrees, Continues
<1>10. AtMostOnce'
  BY <1>2, <1>3, <1>7, WriteOnce
<1>11. IdentityInv'
  BY <1>3, <1>4 DEF IdentityInv, Continues
<1>12. SessionInv'
  <2>1. session[c] # "new"
    BY <1>2 DEF SessionInv
  <2> QED BY <1>2, <1>3, <1>4, <2>1 DEF SessionInv, Write, ManagerTypeOK
<1>13. \A d \in Client : \A j \in DOMAIN inbox'[d] :
         \/ j \in DOMAIN inbox[d] /\ inbox'[d][j] = inbox[d][j]
         \/ d = c /\ inbox'[d][j] = b
  BY <1>2, <1>3, WriteFacts
<1>14. TenantIsolation'
  <2>1. ~AuthDisabled /\ ~context[c].super =>
          bc[b].tenant # None /\ bc[b].tenant = context[c].tenant
    BY <1>2, <1>11, <1>3, <1>4 DEF MayReceive, Continues, IdentityInv
  <2> SUFFICES ASSUME NEW d \in Client, NEW j \in DOMAIN inbox'[d],
                      inbox'[d][j] \in Task, ~AuthDisabled, ~context[d].super
               PROVE  /\ bc'[inbox'[d][j]].tenant # None
                      /\ bc'[inbox'[d][j]].tenant = context[d].tenant
    BY DEF TenantIsolation
  <2>2. \A a \in Task : bc'[a].tenant = bc[a].tenant
    BY <1>6
  <2>3. CASE j \in DOMAIN inbox[d] /\ inbox'[d][j] = inbox[d][j]
    BY <2>2, <2>3 DEF TenantIsolation
  <2>4. CASE d = c /\ inbox'[d][j] = b
    BY <2>1, <2>2, <2>4
  <2> QED BY <1>13, <2>3, <2>4
<1>15. CursorInv'
  <2> SUFFICES ASSUME NEW a \in Task, NEW d \in Client, a \in Range(inbox'[d])
               PROVE  /\ bc'[a].pc # "idle"
                      /\ bc'[a].pc = "sending" => Behind(a, d)'
    BY DEF CursorInv
  <2>1. a \in Range(inbox[d]) \/ (d = c /\ a = b)
    BY <1>13 DEF Range
  <2>2. CASE a # b
    BY <1>3, <1>6, <2>1, <2>2 DEF CursorInv, Behind
  <2>3. CASE a = b /\ d = c
    <3>1. \A j \in DOMAIN active[ch] : active[ch][j] = c => j = k
      BY <1>1, <1>2 DEF RegistryAgrees, c
    <3> QED BY <1>2, <1>3, <1>6, <2>3, <3>1 DEF Behind
  <2>4. CASE a = b /\ d # c
    <3>1. a \in Range(inbox[d]) /\ bc[b].pc = "sending"
      BY <2>1, <2>4 DEF CursorInv, Continues
    <3>2. \A j \in DOMAIN active[ch] : active[ch][j] = d => j < bc[b].i
      BY <2>4, <3>1 DEF CursorInv, Behind
    <3>3. \A j \in DOMAIN active[ch] : j \in Nat
      BY <1>1
    <3> QED BY <1>1, <1>2, <1>3, <1>6, <2>4, <3>2, <3>3 DEF Behind
  <2> QED BY <2>2, <2>3, <2>4
<1>16. TargetInv'
  <2>1. bc'[b].to = c
    BY <1>3 DEF Continues, Broadcast, ManagerTypeOK
  <2> QED BY <1>2, <1>6, <2>1 DEF TargetInv
<1> QED BY <1>8, <1>9, <1>10, <1>11, <1>12, <1>14, <1>15, <1>16

(* One turn of broadcast's loop, to the next send or to its end. *)
LEMMA AdvanceStep ==
  ASSUME IInv, NEW b \in Task, NEW B, NEW md, Continues(b, B, md),
         Advance(b, B, md), UNCHANGED <<session, up, context>>
  PROVE  IInv'
<1>1. ASSUME NEW k \in Eligible(active[B.channel], md, B.i, B.tenant),
             SendTo(b, B, md, k)
      PROVE  IInv'
  BY <1>1, SendStep
<1>2. ASSUME FinishBroadcast(b, B, md) PROVE IInv'
  <2> DEFINE D == [bc EXCEPT ![b] = [B EXCEPT !.pc = "done"]]
  <2>1. /\ D \in [Task -> Broadcast]
        /\ \A a \in Task : /\ D[a].channel = bc[a].channel
                           /\ D[a].tenant = bc[a].tenant
                           /\ D[a].i = bc[a].i
                           /\ D[a].to = bc[a].to
                           /\ D[a].pc = bc[a].pc \/ D[a].pc = "done"
    BY DEF IInv, ManagerTypeOK, Continues, Broadcast
  <2>2. bc' = MarkShift(D, B.failed)
    BY <1>2 DEF FinishBroadcast
  <2> HIDE DEF D
  <2>3. /\ bc' \in [Task -> Broadcast]
        /\ \A a \in Task : /\ bc'[a].channel = bc[a].channel
                           /\ bc'[a].tenant = bc[a].tenant
                           /\ bc'[a].i = bc[a].i
                           /\ bc'[a].to = bc[a].to
                           /\ bc'[a].pc = bc[a].pc \/ bc'[a].pc = "done"
    BY <2>1, <2>2, MarkShiftFacts
  <2>4. B.failed \in SUBSET Client /\ total' \in Nat
    BY <1>2 DEF IInv, ManagerTypeOK, Continues, Broadcast, FinishBroadcast
  <2>5. /\ active' = ListsWithout(B.failed)
        /\ metadata' = MetadataWithout(md, B.failed)
        /\ inbox' = inbox
    BY <1>2 DEF FinishBroadcast
  <2>6. /\ md \in [Registered -> Entry]
        /\ \A c \in Registered : /\ md[c].channel = metadata[c].channel
                                /\ md[c].tenant = metadata[c].tenant
                                /\ md[c].super = metadata[c].super
    BY DEF Continues
  <2>7. session' \in [Client -> {"new", "welcoming", "serving", "closed"}]
    BY DEF IInv, ManagerTypeOK
  <2> QED BY <2>3, <2>4, <2>5, <2>6, <2>7, RemoveStep
<1> QED BY <1>1, <1>2 DEF Advance

(* Registering a client that was never written to keeps the invariant. *)
LEMMA ConnectStep ==
  ASSUME IInv, NEW c \in Client, NEW ch \in Channel, Connect(c, ch)
  PROVE  IInv'
<1> USE DEF IInv
<1>1. /\ c \notin Registered /\ inbox[c] = <<>>
      /\ session' = [session EXCEPT ![c] = "welcoming"]
      /\ active' = [active EXCEPT ![ch] = Append(@, c)]
      /\ Write(c, "welcome")
      /\ UNCHANGED <<total, up, context, bc>>
  BY DEF Connect, Register, SessionInv
<1>2. /\ Registered' = Registered \cup {c}
      /\ metadata'[c].channel = ch
      /\ metadata'[c].tenant = context[c].tenant
      /\ metadata'[c].super = context[c].super
      /\ metadata'[c] \in Entry
      /\ \A d \in Registered : metadata'[d] = metadata[d]
  <2>1. context[c].tenant \in Tenant \cup {None} /\ context[c].super \in BOOLEAN
    BY DEF ManagerTypeOK, Auth
  <2> QED BY <1>1, <2>1 DEF Connect, Register, Registered, Entry
<1>3. /\ active' \in [Channel -> Seq(Client)]
      /\ \A h \in Channel : \A k \in DOMAIN active'[h] :
           \/ k \in DOMAIN active[h] /\ active'[h][k] = active[h][k]
           \/ h = ch /\ k = Len(active[ch]) + 1 /\ active'[h][k] = c
      /\ \A h \in Channel : \A k \in DOMAIN active[h] :
           k \in DOMAIN active'[h] /\ active'[h][k] = active[h][k]
      /\ c \in Range(active'[ch])
  <2>1. active[ch] \in Seq(Client) /\ active'[ch] = Append(active[ch], c)
    BY <1>1 DEF ManagerTypeOK
  <2>2. \A h \in Channel \ {ch} : active'[h] = active[h]
    BY <1>1 DEF ManagerTypeOK
  <2>3. active'[ch][Len(active[ch]) + 1] = c /\ Len(active[ch]) + 1 \in DOMAIN active'[ch]
    BY <2>1
  <2>4. active' \in [Channel -> Seq(Client)]
    BY <1>1 DEF ManagerTypeOK
  <2>5. \A k \in DOMAIN active'[ch] :
          \/ k \in DOMAIN active[ch] /\ active'[ch][k] = active[ch][k]
          \/ k = Len(active[ch]) + 1 /\ active'[ch][k] = c
    BY <2>1
  <2>6. \A k \in DOMAIN active[ch] :
          k \in DOMAIN active'[ch] /\ active'[ch][k] = active[ch][k]
    BY <2>1
  <2>7. c \in Range(active'[ch])
    BY <2>3 DEF Range
  <2> QED BY <2>2, <2>4, <2>5, <2>6, <2>7
<1>4. ManagerTypeOK'
  <2>1. metadata' \in [Registered' -> Entry]
    BY <1>2 DEF ManagerTypeOK, Connect, Register, Registered
  <2>2. inbox' \in [Client -> Seq(Task \cup {"welcome"})]
    BY <1>1, WriteFacts
  <2>3. Registered' \subseteq Client /\ active' \in [Channel -> Seq(Client)]
    BY <1>2, <1>3 DEF ManagerTypeOK
  <2>4. session' \in [Client -> {"new", "welcoming", "serving", "closed"}]
    BY <1>1 DEF ManagerTypeOK
  <2>5. /\ total' \in Nat /\ up' \in [Client -> BOOLEAN] /\ context' \in [Client -> Auth]
        /\ bc' \in [Task -> Broadcast]
    BY <1>1 DEF ManagerTypeOK
  <2> QED BY <2>1, <2>2, <2>3, <2>4, <2>5 DEF ManagerTypeOK
<1>5. RegistryAgrees'
  <2>1. ASSUME NEW h \in Channel, NEW k \in DOMAIN active'[h]
        PROVE  /\ active'[h][k] \in Registered'
               /\ metadata'[active'[h][k]].channel = h
               /\ \A j \in DOMAIN active'[h] : active'[h][j] = active'[h][k] => j = k
    <3>1. \A g \in Channel : \A j \in DOMAIN active[g] : active[g][j] # c
      BY <1>1 DEF RegistryAgrees
    <3>2. CASE active'[h][k] = c
      <4>1. k \notin DOMAIN active[h] /\ h = ch /\ k = Len(active[ch]) + 1
        BY <1>3, <3>1, <3>2
      <4>2. \A j \in DOMAIN active'[h] : active'[h][j] = c => j = k
        BY <1>3, <3>1, <4>1
      <4> QED BY <1>2, <3>2, <4>1, <4>2
    <3>3. CASE active'[h][k] # c
      <4>1. k \in DOMAIN active[h] /\ active'[h][k] = active[h][k]
        BY <1>3, <3>3
      <4>2. /\ active[h][k] \in Registered /\ metadata[active[h][k]].channel = h
            /\ \A j \in DOMAIN active[h] : active[h][j] = active[h][k] => j = k
        BY <4>1 DEF RegistryAgrees
      <4>3. \A j \in DOMAIN active'[h] : active'[h][j] = active'[h][k] => j = k
        BY <1>3, <3>3, <4>1, <4>2
      <4> QED BY <1>2, <4>1, <4>2, <4>3
    <3> QED BY <3>2, <3>3
  <2>2. ASSUME NEW d \in Registered' PROVE d \in Range(active'[metadata'[d].channel])
    <3>1. CASE d = c
      BY <1>2, <1>3, <3>1
    <3>2. CASE d \in Registered
      <4>1. metadata'[d].channel = metadata[d].channel /\ metadata[d].channel \in Channel
        BY <1>2, <3>2 DEF ManagerTypeOK, Entry
      <4> QED BY <1>3, <3>2, <4>1 DEF RegistryAgrees, Range
    <3> QED BY <1>2, <3>1, <3>2
  <2> QED BY <2>1, <2>2 DEF RegistryAgrees
<1>6. AtMostOnce'
  <2>1. "welcome" \notin Range(inbox[c])
    BY <1>1 DEF Range
  <2> QED BY <1>1, <2>1, WriteOnce
<1>7. \A d \in Client : \A j \in DOMAIN inbox'[d] :
        \/ j \in DOMAIN inbox[d] /\ inbox'[d][j] = inbox[d][j]
        \/ inbox'[d][j] \notin Task
  BY <1>1, WriteFacts, WelcomeAssumption
<1>8. TenantIsolation'
  BY <1>1, <1>7 DEF TenantIsolation
<1>9. SessionInv'
  BY <1>1, <1>2 DEF SessionInv, ManagerTypeOK, Write
<1>10. IdentityInv'
  BY <1>1, <1>2 DEF IdentityInv
<1>11. CursorInv'
  <2> SUFFICES ASSUME NEW b \in Task, NEW d \in Client, b \in Range(inbox'[d])
               PROVE  /\ bc[b].pc # "idle"
                      /\ bc[b].pc = "sending" => Behind(b, d)'
    BY <1>1 DEF CursorInv
  <2>1. b \in Range(inbox[d])
    BY <1>7 DEF Range
  <2>2. d # c
    BY <1>1, <2>1 DEF Range
  <2>3. bc[b].channel \in Channel
    BY DEF ManagerTypeOK, Broadcast
  <2> QED BY <1>1, <1>3, <2>1, <2>2, <2>3 DEF CursorInv, Behind
<1>12. TargetInv'
  BY <1>1 DEF TargetInv
<1> QED BY <1>4, <1>5, <1>6, <1>8, <1>9, <1>10, <1>11, <1>12

(* The invariant holds initially. *)
LEMMA InitInv == ManagerInit => IInv
<1> SUFFICES ASSUME ManagerInit PROVE IInv
  OBVIOUS
<1>1. Registered = {} /\ \A c \in Client : inbox[c] = <<>> /\ session[c] = "new"
  BY DEF ManagerInit, Registered
<1>2. bc \in [Task -> Broadcast]
  <2> DEFINE Idle == [pc : {"idle"}, channel : Channel,
                      tenant : Tenant \cup {None}, i : {1}, to : {None},
                      failed : {{}}, audience : {{}}, shifted : {FALSE}]
  <2>1. Idle \subseteq Broadcast
    <3> SUFFICES ASSUME NEW r \in Idle PROVE r \in Broadcast
      OBVIOUS
    <3>1. /\ r = [pc |-> r.pc, channel |-> r.channel, tenant |-> r.tenant,
                  i |-> r.i, to |-> r.to, failed |-> r.failed,
                  audience |-> r.audience, shifted |-> r.shifted]
          /\ r.pc = "idle" /\ r.channel \in Channel /\ r.tenant \in Tenant \cup {None}
          /\ r.i = 1 /\ r.to = None /\ r.failed = {} /\ r.audience = {}
          /\ r.shifted = FALSE
      OBVIOUS
    <3>2. {} \in SUBSET Client /\ 1 \in Nat \ {0} /\ FALSE \in BOOLEAN
      OBVIOUS
    <3> QED BY <3>1, <3>2 DEF Broadcast
  <2>2. bc \in [Task -> Idle]
    BY DEF ManagerInit
  <2> HIDE DEF Idle
  <2> QED BY <2>1, <2>2
<1>3. ManagerTypeOK
  BY <1>1, <1>2 DEF ManagerInit, ManagerTypeOK, Registered
<1>4. RegistryAgrees
  BY <1>1 DEF ManagerInit, RegistryAgrees
<1>5. AtMostOnce /\ TenantIsolation /\ CursorInv
  BY <1>1 DEF AtMostOnce, TenantIsolation, CursorInv, Range
<1>6. SessionInv /\ IdentityInv
  BY <1>1 DEF SessionInv, IdentityInv
<1>7. TargetInv
  BY DEF ManagerInit, TargetInv
<1> QED BY <1>3, <1>4, <1>5, <1>6, <1>7 DEF IInv

(* Every step keeps the invariant. *)
LEMMA NextInv == IInv /\ [ManagerNext]_managerVars => IInv'
<1> SUFFICES ASSUME IInv, [ManagerNext]_managerVars PROVE IInv'
  OBVIOUS
<1> USE DEF IInv
<1>1. ASSUME NEW c \in Client, Welcomed(c) PROVE IInv'
  BY <1>1 DEF Welcomed, ManagerTypeOK, RegistryAgrees, AtMostOnce, TenantIsolation,
              SessionInv, IdentityInv, CursorInv, Behind, TargetInv, Registered
<1>2. ASSUME NEW c \in Client, Leave(c) PROVE IInv'
  <2>1. /\ bc' = MarkShift(bc, {c}) /\ bc \in [Task -> Broadcast]
        /\ metadata \in [Registered -> Entry] /\ total' \in Nat
        /\ session' \in [Client -> {"new", "welcoming", "serving", "closed"}]
        /\ \A d \in Client : \/ session'[d] = session[d]
                             \/ session'[d] = "closed" /\ d \in {c}
    BY <1>2 DEF Leave, ManagerTypeOK
  <2>2. /\ bc' \in [Task -> Broadcast]
        /\ \A b \in Task : /\ bc'[b].channel = bc[b].channel
                           /\ bc'[b].tenant = bc[b].tenant
                           /\ bc'[b].i = bc[b].i
                           /\ bc'[b].to = bc[b].to
                           /\ bc'[b].pc = bc[b].pc \/ bc'[b].pc = "done"
    BY <2>1, MarkShiftFacts
  <2>3. /\ active' = ListsWithout({c}) /\ metadata' = MetadataWithout(metadata, {c})
        /\ UNCHANGED <<up, inbox, context>> /\ {c} \in SUBSET Client
    BY <1>2 DEF Leave
  <2> QED BY <2>1, <2>2, <2>3, RemoveStep
<1>3. ASSUME NEW c \in Client, PeerDrops(c) PROVE IInv'
  BY <1>3 DEF PeerDrops, ManagerTypeOK, RegistryAgrees, AtMostOnce, TenantIsolation,
              SessionInv, IdentityInv, CursorInv, Behind, TargetInv, Registered
<1>4. ASSUME NEW b \in Task, Start(b) PROVE IInv'
  <2> DEFINE B == [bc[b] EXCEPT !.audience = Range(active[bc[b].channel])]
  <2>1. Continues(b, B, metadata)
    <3>1. bc[b] \in Broadcast /\ bc[b].channel \in Channel /\ bc[b].pc = "idle"
      BY <1>4 DEF Start, ManagerTypeOK, Broadcast
    <3>2. Range(active[bc[b].channel]) \subseteq Client
      BY <3>1 DEF ManagerTypeOK, Range
    <3>3. B \in Broadcast
      BY <3>1, <3>2 DEF Broadcast
    <3>4. /\ B.channel = bc[b].channel /\ B.tenant = bc[b].tenant
          /\ B.i = bc[b].i /\ B.to = bc[b].to
      BY <3>1 DEF Broadcast
    <3> QED BY <3>1, <3>3, <3>4 DEF Continues, ManagerTypeOK
  <2> QED BY <1>4, <2>1, AdvanceStep DEF Start
<1>5. ASSUME NEW b \in Task, StartEmpty(b) PROVE IInv'
  <2>1. /\ bc' = [bc EXCEPT ![b].pc = "done"]
        /\ UNCHANGED <<active, metadata, total, session, up, inbox, context>>
    BY <1>5 DEF StartEmpty
  <2>2. /\ bc' \in [Task -> Broadcast]
        /\ \A a \in Task : /\ bc'[a].channel = bc[a].channel
                           /\ bc'[a].tenant = bc[a].tenant
                           /\ bc'[a].i = bc[a].i
                           /\ bc'[a].to = bc[a].to
                           /\ bc'[a].pc = bc[a].pc \/ bc'[a].pc = "done"
    <3>1. bc \in [Task -> Broadcast] /\ bc[b] \in Broadcast
      BY DEF ManagerTypeOK
    <3>2. [bc[b] EXCEPT !.pc = "done"] \in Broadcast
      BY <3>1 DEF Broadcast
    <3>3. bc' = [bc EXCEPT ![b] = [bc[b] EXCEPT !.pc = "done"]]
      BY <2>1
    <3>4. bc' \in [Task -> Broadcast]
      BY <3>1, <3>2, <3>3
    <3> QED BY <3>1, <3>3, <3>4 DEF Broadcast
  <2>3. ManagerTypeOK' /\ RegistryAgrees' /\ SessionInv' /\ IdentityInv' /\ AtMostOnce'
    BY <2>1, <2>2 DEF ManagerTypeOK, RegistryAgrees, SessionInv, IdentityInv, AtMostOnce, Registered
  <2>4. TenantIsolation'
    BY <2>1, <2>2 DEF TenantIsolation
  <2>5. CursorInv'
    BY <2>1, <2>2 DEF CursorInv, Behind
  <2>6. TargetInv'
    BY <2>1, <2>2 DEF TargetInv
  <2> QED BY <2>3, <2>4, <2>5, <2>6
<1>6. ASSUME NEW b \in Task, Sent(b) PROVE IInv'
  <2> DEFINE md == [d \in DOMAIN metadata |->
                      IF d = bc[b].to THEN [metadata[d] EXCEPT !.received = @ + 1]
                                      ELSE metadata[d]]
  <2>1. Continues(b, bc[b], md)
    <3>1. bc[b] \in Broadcast /\ bc[b].pc = "sending"
      BY <1>6 DEF Sent, ManagerTypeOK
    <3>2. \A d \in Registered : /\ md[d] \in Entry
                                /\ md[d].channel = metadata[d].channel
                                /\ md[d].tenant = metadata[d].tenant
                                /\ md[d].super = metadata[d].super
      <4> TAKE d \in Registered
      <4>1. metadata[d] \in Entry
        BY DEF ManagerTypeOK
      <4>2. [metadata[d] EXCEPT !.received = @ + 1] \in Entry
        BY <4>1 DEF Entry
      <4>3. \/ md[d] = metadata[d]
            \/ md[d] = [metadata[d] EXCEPT !.received = @ + 1]
        BY DEF Registered
      <4> QED BY <4>1, <4>2, <4>3 DEF Entry
    <3>3. md \in [Registered -> Entry]
      BY <3>2 DEF Registered
    <3> QED BY <3>1, <3>2, <3>3 DEF Continues
  <2>2. Advance(b, bc[b], md) /\ UNCHANGED <<session, up, context>>
    BY <1>6 DEF Sent
  <2> QED BY <2>1, <2>2, AdvanceStep
<1>7. ASSUME NEW b \in Task, SendFailed(b) PROVE IInv'
  <2> DEFINE B == [bc[b] EXCEPT !.failed = @ \cup {bc[b].to}]
  <2>1. Continues(b, B, metadata)
    <3>1. bc[b] \in Broadcast /\ bc[b].pc = "sending" /\ bc[b].to \in Client
      BY <1>7 DEF SendFailed, ManagerTypeOK, TargetInv
    <3>2. B \in Broadcast
      BY <3>1 DEF Broadcast
    <3>3. /\ B.channel = bc[b].channel /\ B.tenant = bc[b].tenant
          /\ B.i = bc[b].i /\ B.to = bc[b].to
      BY <3>1 DEF Broadcast
    <3> QED BY <3>1, <3>2, <3>3 DEF Continues, ManagerTypeOK
  <2>2. Advance(b, B, metadata) /\ UNCHANGED <<session, up, context>>
    BY <1>7 DEF SendFailed
  <2> QED BY <2>1, <2>2, AdvanceStep
<1>8. CASE UNCHANGED managerVars
  BY <1>8 DEF managerVars, ManagerTypeOK, RegistryAgrees, AtMostOnce, TenantIsolation,
              SessionInv, IdentityInv, CursorInv, Behind, TargetInv, Registered
<1> QED BY <1>1, <1>2, <1>3, <1>4, <1>5, <1>6, <1>7, <1>8, ConnectStep DEF ManagerNext

(* The inductive invariant is an invariant of the specification. *)
LEMMA Invariance == ManagerSpec => []IInv
BY InitInv, NextInv, PTL DEF ManagerSpec

(* Every variable keeps its type in every behaviour of the manager. *)
THEOREM ManagerTypeCorrect == ManagerSpec => []ManagerTypeOK
BY Invariance, PTL DEF IInv

(* The channel lists and connection_metadata never disagree, whatever      *)
(* disconnects and clean-ups are interleaved.                              *)
THEOREM RegistryConsistent == ManagerSpec => []RegistryAgrees
BY Invariance, PTL DEF IInv

(* A broadcast reaches no client twice although its list changes under it. *)
THEOREM NoDuplicateDelivery == ManagerSpec => []AtMostOnce
BY Invariance, PTL DEF IInv

(* No message crosses tenants while authentication is on. *)
THEOREM TenantsIsolated == ManagerSpec => []TenantIsolation
BY Invariance, PTL DEF IInv
-----------------------------------------------------------------------------
(* Delivery to everyone but those shifted past.                            *)

(* If nobody in front of position i is removed, who stood at or behind i   *)
(* still does.                                                             *)
LEMMA WithoutBehind ==
  ASSUME NEW A, NEW l \in Seq(A), NEW S, NEW i \in Nat \ {0},
         \A j \in DOMAIN l : j < i => l[j] \notin S,
         NEW k \in DOMAIN l, i <= k, l[k] \notin S
  PROVE  \E m \in DOMAIN Without(l, S) : i <= m /\ Without(l, S)[m] = l[k]
<1> DEFINE K == Remaining(l, S)
           n == Cardinality(K)
           m == Rank(K, k)
           At(r) == CHOOSE j \in K : Rank(K, j) = r
<1>1. Len(l) \in Nat /\ DOMAIN l = 1..Len(l) /\ K \in SUBSET (1..Len(l)) /\ k \in K
  BY DEF Remaining
<1>2. /\ IsFiniteSet(K) /\ n \in Nat
      /\ \A j \in K : Rank(K, j) \in 1..n
      /\ \A j, r \in K : j < r => Rank(K, j) < Rank(K, r)
  BY <1>1, RankFacts
<1>3. i <= m
  <2>0. PICK p \in Nat : i = p + 1
    OBVIOUS
  <2> DEFINE F == 1..p
  <2>1. F \cup {k} \subseteq K \cap 1..k
    <3>1. \A j \in F : j \in DOMAIN l /\ j < i
      BY <1>1, <2>0
    <3> QED BY <1>1, <3>1 DEF Remaining
  <2>2. k \notin F /\ k \in Nat
    BY <1>1, <2>0
  <2>3. IsFiniteSet(F) /\ Cardinality(F) = p
    <3>1. 1 \in Int /\ p \in Int
      OBVIOUS
    <3>2. /\ IsFiniteSet(1..p)
          /\ Cardinality(1..p) = IF 1 > p THEN 0 ELSE p - 1 + 1
      BY ONLY <3>1, FS_Interval
    <3> QED BY <3>2
  <2>4. IsFiniteSet(F \cup {k}) /\ Cardinality(F \cup {k}) = i
    <3> HIDE DEF F
    <3> QED BY <2>0, <2>2, <2>3, FS_AddElement
  <2>5. IsFiniteSet(K \cap 1..k)
    BY <1>2, FS_Intersection
  <2> HIDE DEF F
  <2>6. Cardinality(F \cup {k}) <= Cardinality(K \cap 1..k)
    BY <2>1, <2>5, FS_Subset
  <2> QED BY <2>4, <2>6 DEF Rank
<1>4. At(m) = k
  <2>1. At(m) \in K /\ Rank(K, At(m)) = m /\ m \in Nat
    BY <1>1, <1>2
  <2>2. At(m) \in Nat /\ k \in Nat
    BY <1>1, <2>1
  <2> DEFINE j == At(m)
  <2> HIDE DEF j
  <2>3. j \in K /\ Rank(K, j) = m /\ j \in Nat
    BY <2>1, <2>2 DEF j
  <2>4. ~(j < k) /\ ~(k < j)
    BY <1>1, <1>2, <2>1, <2>3
  <2> QED BY <2>2, <2>3, <2>4 DEF j
<1>5. m \in 1..n
  BY <1>1, <1>2
<1>6. Without(l, S) = [r \in 1..n |-> l[At(r)]]
  BY DEF Without
<1>7. m \in DOMAIN Without(l, S) /\ Without(l, S)[m] = l[At(m)]
  BY <1>5, <1>6
<1> HIDE DEF m, At
<1> QED BY <1>3, <1>4, <1>7

(* The loop has still to come to this client. *)
Ahead(b, c) ==
  \E k \in DOMAIN active[bc[b].channel] :
     bc[b].i <= k /\ active[bc[b].channel][k] = c

(* A broadcast starts at the head of its list; whoever was there then has  *)
(* connected before, and never connects again.                             *)
AudienceInv ==
  \A b \in Task : /\ bc[b].pc = "idle" => bc[b].i = 1 /\ bc[b].audience = {}
                  /\ bc[b].pc # "idle" => \A c \in bc[b].audience : session[c] # "new"

(* While nobody was removed in front of its iterator, a broadcast has      *)
(* reached all it owes the message to or has still to come to them.        *)
Covers(b) == \A c \in Owed(b) : c \in Reached(b) \/ Ahead(b, c)
CoverInv == \A b \in Task : bc[b].pc = "sending" /\ ~bc[b].shifted => Covers(b)

DInv == AudienceInv /\ CoverInv /\ MissedOnlyByShift

(* What a step leaves alone, or only reduces, of what a broadcast is about. *)
Narrows(b) ==
  /\ bc'[b].audience = bc[b].audience /\ bc'[b].tenant = bc[b].tenant
  /\ \A c \in bc[b].audience : c \in Registered' =>
       /\ c \in Registered
       /\ metadata'[c].tenant = metadata[c].tenant
       /\ metadata'[c].super = metadata[c].super
  /\ \A c \in Client : up'[c] => up[c]
  /\ \A c \in Client : Range(inbox[c]) \subseteq Range(inbox'[c])

(* Such a step owes the message to nobody new, and takes it from nobody.   *)
LEMMA NarrowsFacts ==
  ASSUME ManagerTypeOK, NEW b \in Task, Narrows(b)
  PROVE  Owed(b)' \subseteq Owed(b) /\ Reached(b) \subseteq Reached(b)'
<1>1. bc[b].audience \subseteq Client
  BY DEF ManagerTypeOK, Broadcast
<1>2. ASSUME NEW c \in Owed(b)' PROVE c \in Owed(b)
  <2>1. /\ c \in bc[b].audience /\ c \in Registered' /\ up'[c] /\ c \in Client
        /\ MayReceive(metadata', c, bc[b].tenant)
    BY <1>1, <1>2 DEF Owed, Narrows
  <2>2. /\ c \in Registered /\ up[c]
        /\ metadata'[c].tenant = metadata[c].tenant
        /\ metadata'[c].super = metadata[c].super
    BY <2>1 DEF Narrows
  <2>3. MayReceive(metadata, c, bc[b].tenant)
    BY <2>1, <2>2 DEF MayReceive, Registered
  <2> QED BY <2>1, <2>2, <2>3 DEF Owed
<1>3. Reached(b) \subseteq Reached(b)'
  BY DEF Narrows, Reached
<1> QED BY <1>2, <1>3

(* Marking a shift leaves the audience alone, and marks whoever suspended  *)
(* behind a removed client.                                                *)
LEMMA ShiftFacts ==
  ASSUME NEW B \in [Task -> Broadcast], NEW S, NEW b \in Task
  PROVE  /\ MarkShift(B, S)[b].audience = B[b].audience
         /\ B[b].shifted => MarkShift(B, S)[b].shifted
         /\ B[b].pc # "sending" /\ ~B[b].shifted => ~MarkShift(B, S)[b].shifted
         /\ B[b].pc = "sending" /\ ~MarkShift(B, S)[b].shifted =>
              \A k \in DOMAIN active[B[b].channel] :
                 k < B[b].i => active[B[b].channel][k] \notin S
<1> DEFINE s == \/ B[b].shifted
                \/ /\ B[b].pc = "sending"
                   /\ \E k \in DOMAIN active[B[b].channel] :
                        k < B[b].i /\ active[B[b].channel][k] \in S
<1>1. MarkShift(B, S)[b] = [B[b] EXCEPT !.shifted = s] /\ B[b] \in Broadcast
  BY DEF MarkShift
<1>2. MarkShift(B, S)[b].audience = B[b].audience /\ MarkShift(B, S)[b].shifted = s
  <2> HIDE DEF s
  <2> QED BY <1>1 DEF Broadcast
<1>3. B[b].shifted => s
  OBVIOUS
<1>4. B[b].pc # "sending" /\ ~B[b].shifted => ~s
  OBVIOUS
<1>5. B[b].pc = "sending" /\ ~s => \A k \in DOMAIN active[B[b].channel] :
         k < B[b].i => active[B[b].channel][k] \notin S
  OBVIOUS
<1> HIDE DEF s
<1> QED BY <1>2, <1>3, <1>4, <1>5

(* What was written to a client stays in its inbox.                        *)
LEMMA WriteReaches ==
  ASSUME ManagerTypeOK, NEW c \in Client, NEW m \in Task \cup {"welcome"}, Write(c, m)
  PROVE  \A d \in Client : Range(inbox[d]) \subseteq Range(inbox'[d])
<1> SUFFICES ASSUME NEW d \in Client, NEW x \in DOMAIN inbox[d]
             PROVE  inbox[d][x] \in Range(inbox'[d])
  BY DEF Range
<1>1. inbox[d] \in Seq(Task \cup {"welcome"}) /\ inbox \in [Client -> Seq(Task \cup {"welcome"})]
  BY DEF ManagerTypeOK
<1>2. inbox'[d] = inbox[d] \/ inbox'[d] = Append(inbox[d], m)
  BY <1>1 DEF Write
<1>3. x \in DOMAIN inbox'[d] /\ inbox'[d][x] = inbox[d][x]
  BY <1>1, <1>2
<1> QED BY <1>3 DEF Range

(* A step that leaves a broadcast and its list alone, or appends to it,    *)
(* keeps what the broadcast covers.                                        *)
LEMMA CoverKept ==
  ASSUME ManagerTypeOK, DInv, NEW b \in Task, Narrows(b), bc'[b] = bc[b],
         \A k \in DOMAIN active[bc[b].channel] :
            /\ k \in DOMAIN active'[bc[b].channel]
            /\ active'[bc[b].channel][k] = active[bc[b].channel][k]
  PROVE  /\ bc'[b].pc = "sending" /\ ~bc'[b].shifted => Covers(b)'
         /\ bc'[b].pc = "done" /\ ~bc'[b].shifted => Owed(b)' \subseteq Reached(b)'
<1>1. Owed(b)' \subseteq Owed(b) /\ Reached(b) \subseteq Reached(b)'
  BY NarrowsFacts
<1>2. \A c \in Client : Ahead(b, c) => Ahead(b, c)'
  BY DEF Ahead
<1>3. Owed(b) \subseteq Client
  BY DEF Owed, ManagerTypeOK, Broadcast
<1>4. ASSUME bc'[b].pc = "sending", ~bc'[b].shifted PROVE Covers(b)'
  BY <1>1, <1>2, <1>3, <1>4 DEF Covers, DInv, CoverInv
<1>5. ASSUME bc'[b].pc = "done", ~bc'[b].shifted PROVE Owed(b)' \subseteq Reached(b)'
  BY <1>1, <1>5 DEF DInv, MissedOnlyByShift
<1> QED BY <1>4, <1>5

(* A removal keeps what a suspended broadcast covers, unless it removes in *)
(* front of the iterator.                                                  *)
LEMMA RemoveCovers ==
  ASSUME ManagerTypeOK, DInv, NEW S, active' = ListsWithout(S),
         NEW b \in Task, Narrows(b), bc[b].pc = "sending", ~bc[b].shifted,
         bc'[b].channel = bc[b].channel, bc'[b].i = bc[b].i,
         \A k \in DOMAIN active[bc[b].channel] :
            k < bc[b].i => active[bc[b].channel][k] \notin S,
         \A c \in Registered' : c \notin S
  PROVE  Covers(b)'
<1> SUFFICES ASSUME NEW c \in Owed(b)', c \notin Reached(b)'
             PROVE  Ahead(b, c)'
  BY DEF Covers
<1> DEFINE l == active[bc[b].channel]
<1>1. c \in Owed(b) /\ c \notin Reached(b) /\ c \notin S
  BY NarrowsFacts DEF Owed
<1>2. Ahead(b, c)
  BY <1>1 DEF DInv, CoverInv, Covers
<1>3. PICK k \in DOMAIN l : bc[b].i <= k /\ l[k] = c
  BY <1>2 DEF Ahead
<1>4. l \in Seq(Client) /\ bc[b].i \in Nat \ {0} /\ bc[b].channel \in Channel
  BY DEF ManagerTypeOK, Broadcast
<1>5. active'[bc'[b].channel] = Without(l, S)
  BY <1>4 DEF ListsWithout
<1> HIDE DEF l
<1>6. \A j \in DOMAIN l : j < bc[b].i => l[j] \notin S
  BY DEF l
<1>7. \E m \in DOMAIN Without(l, S) : bc[b].i <= m /\ Without(l, S)[m] = l[k]
  BY <1>1, <1>3, <1>4, <1>6, WithoutBehind
<1> QED BY <1>3, <1>5, <1>7 DEF Ahead

(* One turn of the loop, to the next send or the end, of a broadcast that  *)
(* has reached, or has still to come to, all it owes the message to.       *)
LEMMA AdvanceCovers ==
  ASSUME IInv, DInv, NEW b \in Task, NEW B, NEW md, Continues(b, B, md),
         \A c \in B.audience : c \in Client /\ session[c] # "new",
         ~B.shifted => \A c \in B.audience :
            c \in Registered /\ up[c] /\ MayReceive(md, c, B.tenant) =>
               \/ c \in Reached(b)
               \/ \E k \in DOMAIN active[B.channel] : B.i <= k /\ active[B.channel][k] = c,
         Advance(b, B, md), UNCHANGED <<session, up, context>>
  PROVE  DInv'
<1> DEFINE l == active[B.channel]
<1>1. /\ ManagerTypeOK /\ B \in Broadcast /\ l \in Seq(Client) /\ B.i \in Nat \ {0} /\ bc \in [Task -> Broadcast]
      /\ md \in [Registered -> Entry] /\ B.tenant \in Tenant \cup {None} /\ B.channel \in Channel
  BY DEF IInv, ManagerTypeOK, Continues, Broadcast
<1>2. ASSUME NEW k \in Eligible(l, md, B.i, B.tenant),
             \A j \in Eligible(l, md, B.i, B.tenant) : k <= j, SendTo(b, B, md, k)
      PROVE  DInv'
  <2>1. /\ bc' = [bc EXCEPT ![b] = [B EXCEPT !.pc = "sending", !.i = k + 1, !.to = l[k]]]
        /\ Write(l[k], b) /\ metadata' = md /\ active' = active
    BY <1>2 DEF SendTo
  <2>2. k \in DOMAIN l /\ k \in Nat /\ B.i <= k /\ l[k] \in Client
    BY <1>1 DEF Eligible
  <2>3. /\ bc'[b].pc = "sending" /\ bc'[b].i = k + 1 /\ bc'[b].channel = B.channel
        /\ bc'[b].audience = B.audience /\ bc'[b].tenant = B.tenant /\ bc'[b].shifted = B.shifted
        /\ \A a \in Task \ {b} : bc'[a] = bc[a]
    BY <1>1, <2>1 DEF Broadcast
  <2>4. Registered' = Registered
    BY <1>1, <2>1 DEF Registered
  <2>5. \A c \in Client : Range(inbox[c]) \subseteq Range(inbox'[c])
    BY <1>1, <2>1, <2>2, WriteReaches
  <2>6. up[l[k]] => l[k] \in Reached(b)'
    <3> SUFFICES ASSUME up[l[k]] PROVE l[k] \in Reached(b)'
      OBVIOUS
    <3>1. inbox'[l[k]] = Append(inbox[l[k]], b) /\ inbox[l[k]] \in Seq(Task \cup {"welcome"})
      BY <1>1, <2>1, <2>2 DEF Write, ManagerTypeOK
    <3>2. PICK n \in Nat : n = Len(inbox[l[k]])
      BY <3>1
    <3>3. n + 1 \in DOMAIN inbox'[l[k]] /\ inbox'[l[k]][n + 1] = b
      BY <3>1, <3>2
    <3>4. b \in Range(inbox'[l[k]])
      BY <3>3 DEF Range
    <3> QED BY <2>2, <3>4 DEF Reached
  <2>7. ASSUME NEW a \in Task, a # b PROVE Narrows(a)
    BY <1>1, <2>1, <2>3, <2>4, <2>5, <2>7 DEF Narrows, Continues
  <2>8. AudienceInv'
    BY <2>3 DEF DInv, AudienceInv
  <2>9. ASSUME NEW a \in Task, a # b
        PROVE  /\ bc'[a].pc = "sending" /\ ~bc'[a].shifted => Covers(a)'
               /\ bc'[a].pc = "done" /\ ~bc'[a].shifted => Owed(a)' \subseteq Reached(a)'
    BY <1>1, <2>1, <2>3, <2>7, <2>9, CoverKept
  <2>10. ASSUME ~B.shifted, NEW c \in Owed(b)' PROVE c \in Reached(b)' \/ Ahead(b, c)'
    <3>1. /\ c \in B.audience /\ c \in Client /\ c \in Registered /\ up[c]
          /\ MayReceive(md, c, B.tenant)
      BY <2>1, <2>3, <2>4, <2>10 DEF Owed
    <3>2. CASE c \in Reached(b)
      BY <2>5, <3>2 DEF Reached
    <3>3. CASE \E j \in DOMAIN l : B.i <= j /\ l[j] = c
      <4>1. PICK j \in DOMAIN l : B.i <= j /\ l[j] = c
        BY <3>3
      <4>2. j \in Eligible(l, md, B.i, B.tenant) /\ j \in Nat
        BY <1>1, <3>1, <4>1 DEF Eligible
      <4>3. j = k \/ k + 1 <= j
        BY <1>2, <2>2, <4>2
      <4>4. CASE j = k
        BY <2>6, <3>1, <4>1, <4>4
      <4>5. CASE k + 1 <= j
        BY <2>1, <2>3, <4>1, <4>5 DEF Ahead
      <4> QED BY <4>3, <4>4, <4>5
    <3> QED BY <2>10, <3>1, <3>2, <3>3
  <2>11. CoverInv'
    BY <2>3, <2>9, <2>10 DEF CoverInv, Covers
  <2>12. MissedOnlyByShift'
    BY <2>3, <2>9 DEF MissedOnlyByShift
  <2> QED BY <2>8, <2>11, <2>12 DEF DInv
<1>3. ASSUME Eligible(l, md, B.i, B.tenant) = {}, FinishBroadcast(b, B, md) PROVE DInv'
  <2> DEFINE D == [bc EXCEPT ![b] = [B EXCEPT !.pc = "done"]]
             S == B.failed
  <2>1. /\ bc' = MarkShift(D, S) /\ active' = ListsWithout(S)
        /\ metadata' = MetadataWithout(md, S) /\ inbox' = inbox
    BY <1>3 DEF FinishBroadcast
  <2>2. /\ D \in [Task -> Broadcast] /\ \A a \in Task \ {b} : D[a] = bc[a]
        /\ D[b].pc = "done" /\ D[b].audience = B.audience /\ D[b].tenant = B.tenant
        /\ D[b].shifted = B.shifted
    BY <1>1 DEF Broadcast
  <2> HIDE DEF D
  <2>3. \A a \in Task : /\ bc'[a].pc = D[a].pc /\ bc'[a].channel = D[a].channel
                        /\ bc'[a].tenant = D[a].tenant /\ bc'[a].i = D[a].i
                        /\ bc'[a].audience = D[a].audience
                        /\ D[a].shifted => bc'[a].shifted
    BY <2>1, <2>2, MarkShiftFacts, ShiftFacts
  <2>4. Registered' = Registered \ S /\ \A c \in Registered' : metadata'[c] = md[c]
    BY <1>1, <2>1 DEF MetadataWithout, Registered
  <2>5. ASSUME NEW a \in Task, a # b PROVE Narrows(a)
    BY <2>1, <2>2, <2>3, <2>4, <2>5 DEF Narrows, Continues
  <2>6. AudienceInv'
    BY <2>2, <2>3 DEF DInv, AudienceInv
  <2>7. ASSUME NEW a \in Task, bc'[a].pc = "sending", ~bc'[a].shifted PROVE Covers(a)'
    <3>1. a # b
      BY <2>2, <2>3, <2>7
    <3>2. D[a] = bc[a] /\ bc[a].pc = "sending" /\ ~bc[a].shifted
      BY <2>2, <2>3, <2>7, <3>1
    <3>3. \A k \in DOMAIN active[bc[a].channel] :
            k < bc[a].i => active[bc[a].channel][k] \notin S
      BY <2>1, <2>2, <2>7, <3>2, ShiftFacts
    <3>4. bc'[a].channel = bc[a].channel /\ bc'[a].i = bc[a].i /\ \A c \in Registered' : c \notin S
      BY <2>3, <2>4, <3>2
    <3> QED BY <1>1, <2>1, <2>5, <3>1, <3>2, <3>3, <3>4, RemoveCovers
  <2>8. CoverInv'
    BY <2>7 DEF CoverInv
  <2>9. ASSUME NEW a \in Task, bc'[a].pc = "done", ~bc'[a].shifted
        PROVE  Owed(a)' \subseteq Reached(a)'
    <3>1. CASE a # b
      <4>1. bc[a].pc = "done" /\ ~bc[a].shifted
        BY <2>2, <2>3, <2>9, <3>1
      <4> QED BY <1>1, <2>5, <3>1, <4>1, NarrowsFacts DEF DInv, MissedOnlyByShift
    <3>2. CASE a = b
      <4>1. ~B.shifted
        BY <2>2, <2>3, <2>9, <3>2
      <4> SUFFICES ASSUME NEW c \in Owed(b)' PROVE c \in Reached(b)'
        BY <3>2
      <4>2. /\ c \in B.audience /\ c \in Registered /\ up[c] /\ MayReceive(metadata', c, B.tenant)
            /\ metadata'[c] = md[c] /\ c \in Registered'
        BY <2>2, <2>3, <2>4 DEF Owed
      <4>3. MayReceive(md, c, B.tenant)
        BY <1>1, <4>2 DEF MayReceive, Registered
      <4>4. ASSUME NEW j \in DOMAIN l, B.i <= j, l[j] = c PROVE FALSE
        <5>1. j \in Eligible(l, md, B.i, B.tenant)
          BY <1>1, <4>3, <4>4 DEF Eligible
        <5> QED BY <1>3, <5>1
      <4>5. c \in Reached(b)
        BY <4>1, <4>2, <4>3, <4>4
      <4> QED BY <2>1, <4>5 DEF Reached
    <3> QED BY <3>1, <3>2
  <2> QED BY <2>6, <2>8, <2>9 DEF DInv, MissedOnlyByShift
<1> QED BY <1>2, <1>3 DEF Advance

LEMMA InitDelivery == ManagerInit => DInv
BY DEF ManagerInit, DInv, AudienceInv, CoverInv, MissedOnlyByShift

(* Every step keeps it. *)
LEMMA NextDelivery == IInv /\ DInv /\ [ManagerNext]_managerVars => DInv'
<1> SUFFICES ASSUME IInv, DInv, [ManagerNext]_managerVars PROVE DInv'
  OBVIOUS
<1>0. ManagerTypeOK
  BY DEF IInv
<1>1. ASSUME NEW c \in Client, NEW ch \in Channel, Connect(c, ch) PROVE DInv'
  <2>1. /\ session[c] = "new" /\ session' = [session EXCEPT ![c] = "welcoming"]
        /\ active' = [active EXCEPT ![ch] = Append(@, c)]
        /\ Registered' = Registered \cup {c}
        /\ \A d \in Registered : d # c => metadata'[d] = metadata[d]
        /\ UNCHANGED <<up, bc>> /\ Write(c, "welcome")
    BY <1>1 DEF Connect, Register, Registered
  <2>2. AudienceInv'
    BY <1>0, <2>1 DEF DInv, AudienceInv, ManagerTypeOK, Broadcast
  <2>3. ASSUME NEW b \in Task, bc[b].pc # "idle" PROVE Narrows(b)
    <3>1. c \notin bc[b].audience
      BY <2>1, <2>3 DEF DInv, AudienceInv
    <3> QED BY <1>0, <2>1, <3>1, WriteReaches DEF Narrows
  <2>4. ASSUME NEW b \in Task, NEW k \in DOMAIN active[bc[b].channel]
        PROVE  /\ k \in DOMAIN active'[bc[b].channel]
               /\ active'[bc[b].channel][k] = active[bc[b].channel][k]
    <3>1. bc[b].channel \in Channel /\ active[bc[b].channel] \in Seq(Client)
      BY <1>0 DEF ManagerTypeOK, Broadcast
    <3> QED BY <1>0, <2>1, <3>1 DEF ManagerTypeOK
  <2>5. ASSUME NEW b \in Task, bc[b].pc # "idle"
        PROVE  /\ bc'[b].pc = "sending" /\ ~bc'[b].shifted => Covers(b)'
               /\ bc'[b].pc = "done" /\ ~bc'[b].shifted => Owed(b)' \subseteq Reached(b)'
    BY <1>0, <2>1, <2>3, <2>4, <2>5, CoverKept
  <2> QED BY <2>1, <2>2, <2>5 DEF DInv, CoverInv, MissedOnlyByShift
<1>2. ASSUME NEW c \in Client, Leave(c) PROVE DInv'
  <2>1. /\ session' = [session EXCEPT ![c] = "closed"] /\ active' = ListsWithout({c})
        /\ metadata' = MetadataWithout(metadata, {c}) /\ bc' = MarkShift(bc, {c})
        /\ UNCHANGED <<up, inbox>> /\ bc \in [Task -> Broadcast]
    BY <1>0, <1>2 DEF Leave, ManagerTypeOK
  <2>2. \A b \in Task : /\ bc'[b].pc = bc[b].pc /\ bc'[b].channel = bc[b].channel
                        /\ bc'[b].tenant = bc[b].tenant /\ bc'[b].i = bc[b].i
                        /\ bc'[b].audience = bc[b].audience
                        /\ bc[b].shifted => bc'[b].shifted
    BY <2>1, MarkShiftFacts, ShiftFacts
  <2>3. Registered' = Registered \ {c} /\ \A d \in Registered' : metadata'[d] = metadata[d]
    BY <2>1 DEF MetadataWithout, Registered
  <2>4. \A b \in Task : Narrows(b)
    BY <2>1, <2>2, <2>3 DEF Narrows
  <2>5. AudienceInv'
    <3>1. \A d \in Client : session'[d] = IF d = c THEN "closed" ELSE session[d]
      BY <1>0, <2>1 DEF ManagerTypeOK
    <3>2. \A b \in Task : bc[b].audience \subseteq Client
      BY <2>1 DEF Broadcast
    <3>3. \A d \in Client : session[d] # "new" => session'[d] # "new"
      BY <3>1
    <3> QED BY <2>2, <3>2, <3>3 DEF DInv, AudienceInv
  <2>6. ASSUME NEW b \in Task, bc'[b].pc = "sending", ~bc'[b].shifted PROVE Covers(b)'
    <3>1. bc[b].pc = "sending" /\ ~bc[b].shifted
      BY <2>2, <2>6
    <3>2. \A k \in DOMAIN active[bc[b].channel] :
            k < bc[b].i => active[bc[b].channel][k] \notin {c}
      BY <2>1, <2>6, <3>1, ShiftFacts
    <3>3. \A d \in Registered' : d \notin {c}
      BY <2>3
    <3> QED BY <1>0, <2>1, <2>2, <2>4, <3>1, <3>2, <3>3, RemoveCovers
  <2>7. ASSUME NEW b \in Task, bc'[b].pc = "done", ~bc'[b].shifted
        PROVE  Owed(b)' \subseteq Reached(b)'
    BY <1>0, <2>2, <2>4, <2>7, NarrowsFacts DEF DInv, MissedOnlyByShift
  <2> QED BY <2>5, <2>6, <2>7 DEF DInv, CoverInv, MissedOnlyByShift
<1>3. ASSUME NEW c \in Client, PeerDrops(c) PROVE DInv'
  <2>1. /\ UNCHANGED <<active, metadata, session, inbox, bc>>
        /\ \A d \in Client : up'[d] => up[d]
    BY <1>0, <1>3 DEF PeerDrops, ManagerTypeOK
  <2>2. \A b \in Task : Narrows(b)
    BY <2>1 DEF Narrows, Registered
  <2>3. ASSUME NEW b \in Task
        PROVE  /\ bc'[b].pc = "sending" /\ ~bc'[b].shifted => Covers(b)'
               /\ bc'[b].pc = "done" /\ ~bc'[b].shifted => Owed(b)' \subseteq Reached(b)'
    BY <1>0, <2>1, <2>2, CoverKept
  <2>4. AudienceInv'
    BY <2>1 DEF DInv, AudienceInv
  <2> QED BY <2>3, <2>4 DEF DInv, CoverInv, MissedOnlyByShift
<1>4. ASSUME NEW b \in Task, Start(b) PROVE DInv'
  <2> DEFINE l == active[bc[b].channel]
             B == [bc[b] EXCEPT !.audience = Range(l)]
  <2>1. bc[b] \in Broadcast /\ l \in Seq(Client) /\ bc[b].pc = "idle" /\ bc[b].channel \in Channel
    BY <1>0, <1>4 DEF ManagerTypeOK, Broadcast, Start
  <2>2. bc[b].i = 1 /\ \A c \in Range(l) : c \in Client /\ session[c] # "new"
    <3>1. \A k \in DOMAIN l : l[k] \in Client /\ l[k] \in Registered
      BY <2>1 DEF IInv, RegistryAgrees
    <3>2. \A k \in DOMAIN l : session[l[k]] # "new"
      BY <3>1 DEF IInv, SessionInv
    <3> QED BY <2>1, <3>1, <3>2 DEF DInv, AudienceInv, Range
  <2>3. /\ B \in Broadcast /\ B.audience = Range(l) /\ B.shifted = bc[b].shifted
        /\ B.channel = bc[b].channel /\ B.tenant = bc[b].tenant
        /\ B.i = bc[b].i /\ B.to = bc[b].to
    BY <2>1, <2>2 DEF Broadcast
  <2>4. Continues(b, B, metadata)
    BY <1>0, <2>1, <2>3 DEF Continues, ManagerTypeOK
  <2>5. ASSUME NEW c \in B.audience
        PROVE  \E k \in DOMAIN active[B.channel] : B.i <= k /\ active[B.channel][k] = c
    BY <2>1, <2>2, <2>3, <2>5 DEF Range
  <2>6. Advance(b, B, metadata) /\ UNCHANGED <<session, up, context>>
    BY <1>4 DEF Start
  <2> HIDE DEF B
  <2> QED BY <2>2, <2>3, <2>4, <2>5, <2>6, AdvanceCovers
<1>5. ASSUME NEW b \in Task, StartEmpty(b) PROVE DInv'
  <2>1. /\ active[bc[b].channel] = <<>> /\ bc[b].pc = "idle"
        /\ bc' = [bc EXCEPT ![b].pc = "done"] /\ bc[b] \in Broadcast
        /\ UNCHANGED <<active, metadata, session, up, inbox>>
    BY <1>0, <1>5 DEF StartEmpty, ManagerTypeOK
  <2>2. /\ bc'[b].pc = "done" /\ bc'[b].audience = {}
        /\ \A a \in Task \ {b} : bc'[a] = bc[a]
    BY <1>0, <2>1 DEF ManagerTypeOK, Broadcast, DInv, AudienceInv
  <2>3. \A a \in Task : a # b => Narrows(a)
    BY <2>1, <2>2 DEF Narrows, Registered
  <2>4. ASSUME NEW a \in Task, a # b
        PROVE  /\ bc'[a].pc = "sending" /\ ~bc'[a].shifted => Covers(a)'
               /\ bc'[a].pc = "done" /\ ~bc'[a].shifted => Owed(a)' \subseteq Reached(a)'
    BY <1>0, <2>1, <2>2, <2>3, <2>4, CoverKept
  <2>5. Owed(b)' = {}
    BY <2>2 DEF Owed
  <2>6. AudienceInv'
    BY <2>1, <2>2 DEF DInv, AudienceInv
  <2> QED BY <2>2, <2>4, <2>5, <2>6 DEF DInv, CoverInv, MissedOnlyByShift
<1>6. ASSUME NEW b \in Task, Sent(b) PROVE DInv'
  <2> DEFINE md == [d \in DOMAIN metadata |->
                      IF d = bc[b].to THEN [metadata[d] EXCEPT !.received = @ + 1]
                                      ELSE metadata[d]]
  <2>1. bc[b] \in Broadcast /\ bc[b].pc = "sending"
    BY <1>0, <1>6 DEF Sent, ManagerTypeOK
  <2>2. Continues(b, bc[b], md)
    <3>1. ASSUME NEW d \in Registered
          PROVE  /\ md[d] \in Entry
                 /\ md[d].channel = metadata[d].channel
                 /\ md[d].tenant = metadata[d].tenant
                 /\ md[d].super = metadata[d].super
      <4>1. metadata[d] \in Entry
        BY <1>0 DEF ManagerTypeOK
      <4>2. [metadata[d] EXCEPT !.received = @ + 1] \in Entry
        BY <4>1 DEF Entry
      <4>3. md[d] = metadata[d] \/ md[d] = [metadata[d] EXCEPT !.received = @ + 1]
        BY DEF Registered
      <4> QED BY <4>1, <4>2, <4>3 DEF Entry
    <3>2. md \in [Registered -> Entry]
      BY <3>1 DEF Registered
    <3> HIDE DEF md
    <3> QED BY <2>1, <3>1, <3>2 DEF Continues
  <2>3. Advance(b, bc[b], md) /\ UNCHANGED <<session, up, context>>
    BY <1>6 DEF Sent
  <2>4. Registered = DOMAIN md
    BY DEF Registered
  <2> HIDE DEF md
  <2>5. ASSUME NEW c \in bc[b].audience, ~bc[b].shifted, c \in Registered, up[c],
               MayReceive(md, c, bc[b].tenant)
        PROVE  \/ c \in Reached(b)
               \/ \E k \in DOMAIN active[bc[b].channel] :
                    bc[b].i <= k /\ active[bc[b].channel][k] = c
    <3>1. MayReceive(metadata, c, bc[b].tenant)
      BY <2>2, <2>5 DEF MayReceive, Continues, Registered
    <3>2. c \in Owed(b)
      BY <2>5, <3>1 DEF Owed
    <3> QED BY <2>1, <2>5, <3>2 DEF DInv, CoverInv, Covers, Ahead
  <2>6. \A c \in bc[b].audience : c \in Client /\ session[c] # "new"
    BY <2>1 DEF DInv, AudienceInv, Broadcast
  <2> QED BY <2>2, <2>3, <2>5, <2>6, AdvanceCovers
<1>7. ASSUME NEW b \in Task, SendFailed(b) PROVE DInv'
  <2> DEFINE B == [bc[b] EXCEPT !.failed = @ \cup {bc[b].to}]
  <2>1. bc[b] \in Broadcast /\ bc[b].pc = "sending" /\ bc[b].to \in Client
    BY <1>0, <1>7 DEF SendFailed, ManagerTypeOK, IInv, TargetInv
  <2>2. /\ B \in Broadcast /\ B.audience = bc[b].audience /\ B.shifted = bc[b].shifted
        /\ B.channel = bc[b].channel /\ B.tenant = bc[b].tenant
        /\ B.i = bc[b].i /\ B.to = bc[b].to
    BY <2>1 DEF Broadcast
  <2>3. Advance(b, B, metadata) /\ UNCHANGED <<session, up, context>>
    BY <1>7 DEF SendFailed
  <2> HIDE DEF B
  <2>4. Continues(b, B, metadata)
    BY <1>0, <2>1, <2>2 DEF Continues, ManagerTypeOK
  <2>5. ASSUME NEW c \in B.audience, ~B.shifted, c \in Registered, up[c],
               MayReceive(metadata, c, B.tenant)
        PROVE  \/ c \in Reached(b)
               \/ \E k \in DOMAIN active[B.channel] : B.i <= k /\ active[B.channel][k] = c
    <3>1. c \in Owed(b)
      BY <2>2, <2>5 DEF Owed
    <3> QED BY <2>1, <2>2, <2>5, <3>1 DEF DInv, CoverInv, Covers, Ahead
  <2>6. \A c \in B.audience : c \in Client /\ session[c] # "new"
    BY <2>1, <2>2 DEF DInv, AudienceInv, Broadcast
  <2> QED BY <2>3, <2>4, <2>5, <2>6, AdvanceCovers
<1>8. ASSUME NEW c \in Client, Welcomed(c) PROVE DInv'
  <2>1. /\ UNCHANGED <<active, metadata, up, inbox, bc>>
        /\ \A d \in Client : session[d] # "new" => session'[d] # "new"
    BY <1>0, <1>8 DEF Welcomed, ManagerTypeOK
  <2>2. \A b \in Task : Narrows(b)
    BY <2>1 DEF Narrows, Registered
  <2>3. ASSUME NEW b \in Task
        PROVE  /\ bc'[b].pc = "sending" /\ ~bc'[b].shifted => Covers(b)'
               /\ bc'[b].pc = "done" /\ ~bc'[b].shifted => Owed(b)' \subseteq Reached(b)'
    BY <1>0, <2>1, <2>2, CoverKept
  <2>4. \A b \in Task : bc[b].audience \subseteq Client
    BY <1>0 DEF ManagerTypeOK, Broadcast
  <2>5. AudienceInv'
    BY <2>1, <2>4 DEF DInv, AudienceInv
  <2> QED BY <2>3, <2>5 DEF DInv, CoverInv, MissedOnlyByShift
<1>9. CASE UNCHANGED managerVars
  BY <1>9 DEF managerVars, DInv, AudienceInv, CoverInv, Covers, MissedOnlyByShift,
              Owed, Reached, Ahead, Registered
<1> QED BY <1>1, <1>2, <1>3, <1>4, <1>5, <1>6, <1>7, <1>8, <1>9 DEF ManagerNext

(* A broadcast reaches every client it should exactly once, but for those  *)
(* that a removal in front of its iterator made it pass over.              *)
THEOREM DeliveryExact == ManagerSpec => []DeliveredOnce
<1>1. IInv /\ DInv /\ [ManagerNext]_managerVars => (IInv /\ DInv)'
  BY NextInv, NextDelivery
<1>2. ManagerInit => IInv /\ DInv
  BY InitInv, InitDelivery
<1>3. IInv /\ DInv => DeliveredOnce
  BY DEF IInv, DInv, DeliveredOnce
<1> QED BY <1>1, <1>2, <1>3, PTL DEF ManagerSpec
=============================================================================
