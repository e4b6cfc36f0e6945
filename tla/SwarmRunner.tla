----------------------------- MODULE SwarmRunner -----------------------------
(***************************************************************************)
(* One run of the backend's swarm runner (apps/backend/app/services/       *)
(* swarm_runner.py): the planner, the queue of steps, the retry of a       *)
(* failed step, the extra path after low quality, and the events the run   *)
(* publishes.  Publishing may raise after the event went out: publish_     *)
(* event broadcasts first and updates the agent-state store (Redis) last,  *)
(* which it does for events of an agent only.                              *)
(***************************************************************************)
EXTENDS Integers, Sequences, FiniteSets

CONSTANTS
  Customs,    \* plans a request may carry, each a sequence of agents
  Items,      \* numbers of items a fetch may return (always three today)
  MaxFaults   \* bound of the model: failures of the agent-state store

Agents == {"fetch", "normalize", "quality", "unknown"}

ASSUME CustomsAssumption == Customs \subseteq Seq(Agents)
ASSUME ItemsAssumption == Items \subseteq Nat
ASSUME FaultsAssumption == MaxFaults \in Nat

VARIABLES
  plan,      \* the planned agents
  items,     \* items the fetch agent returns
  low,       \* the task asks for low quality
  pc,        \* where the run stands
  queue,     \* step_queue
  step,      \* the step taken last
  attempt,   \* failed attempts of that step
  have,      \* keys of shared_context
  applied,   \* quality_retry_applied
  results,   \* results of the run, as the statuses of steps
  emitted,   \* events published, in order
  previous,  \* previous_event_id, as a place in emitted
  report,    \* payload of SWARM_RESULT
  faults     \* failures of the agent-state store so far

vars == <<plan, items, low, pc, queue, step, attempt, have, applied, results,
          emitted, previous, report, faults>>

SkipThreshold == 2
MaxStepRetries == 1

Default == <<"fetch", "normalize", "quality">>

Steps(agents, inserted) ==
  [i \in DOMAIN agents |-> [agent |-> agents[i], inserted |-> inserted]]

(* _plan_steps: a custom plan wins; each hint in the task (skip-normalize, *)
(* quality-only) leaves fetch and quality of the default.                  *)
Planned(custom, hinted) ==
  CASE custom # <<>> -> custom
    [] custom = <<>> /\ hinted  -> <<"fetch", "quality">>
    [] custom = <<>> /\ ~hinted -> Default

NoStep == [agent |-> "unknown", inserted |-> FALSE]

Init ==
  /\ \E custom \in Customs \cup {<<>>}, hinted \in BOOLEAN :
        plan = Planned(custom, hinted)
  /\ items \in Items
  /\ low \in BOOLEAN
  /\ pc = "start"
  /\ queue = Steps(plan, FALSE)
  /\ step = NoStep
  /\ attempt = 0
  /\ have = {}
  /\ applied = FALSE
  /\ results = <<>>
  /\ emitted = <<>>
  /\ previous = 0
  /\ report = <<>>
  /\ faults = 0

-----------------------------------------------------------------------------
(* Events: each names the event before it as its parent.  An emit that     *)
(* raises has published its event, which no later event names as parent.   *)
Chain(types, s) ==
  [i \in DOMAIN types |->
     [type |-> types[i], step |-> s,
      parent |-> IF i = 1 THEN previous ELSE Len(emitted) + i - 1]]

Emit(types, s) ==
  /\ emitted' = emitted \o Chain(types, s)
  /\ previous' = Len(emitted')
  /\ UNCHANGED faults

EmitRaising(types, s) ==
  /\ faults < MaxFaults
  /\ faults' = faults + 1
  /\ \E n \in DOMAIN types :
       /\ emitted' = emitted \o Chain(SubSeq(types, 1, n), s)
       /\ previous' = IF n = 1 THEN previous ELSE Len(emitted) + n - 1

(* Mutation of Begin: the planner decision does not become the previous event. *)
BeginForgetting ==
  /\ pc = "start"
  /\ pc' = "take"
  /\ emitted' = Chain(<<"SWARM_STARTED", "PLANNER_DECISION">>, NoStep)
  /\ previous' = 1
  /\ UNCHANGED <<plan, items, low, queue, step, attempt, have, applied, results, report,
                 faults>>

Begin ==
  /\ pc = "start"
  /\ pc' = "take"
  /\ Emit(<<"SWARM_STARTED", "PLANNER_DECISION">>, NoStep)
  /\ UNCHANGED <<plan, items, low, queue, step, attempt, have, applied, results, report>>

-----------------------------------------------------------------------------
Skipped(s) == s.agent = "normalize" /\ "raw" \in have /\ items < SkipThreshold

(* The next step of the queue is skipped, or started.                      *)
SkipStep ==
  /\ pc = "take" /\ queue # <<>> /\ Skipped(Head(queue))
  /\ step' = Head(queue)
  /\ queue' = Tail(queue)
  /\ have' = have \cup {"normalized"}
  /\ \/ Emit(<<"SKIP_STEP">>, step') /\ pc' = "take"
     \/ EmitRaising(<<"SKIP_STEP">>, step') /\ pc' = "aborted"
  /\ UNCHANGED <<plan, items, low, attempt, applied, results, report>>

StartStep ==
  /\ pc = "take" /\ queue # <<>> /\ ~Skipped(Head(queue))
  /\ step' = Head(queue)
  /\ queue' = Tail(queue)
  /\ attempt' = 0
  /\ \/ Emit(<<"AGENT_STEP_STARTED">>, step') /\ pc' = "execute"
     \/ EmitRaising(<<"AGENT_STEP_STARTED">>, step') /\ pc' = "aborted"
  /\ UNCHANGED <<plan, items, low, have, applied, results, report>>

-----------------------------------------------------------------------------
(* execute_agent: what an agent adds to the context, or that it raises.    *)
(* The input of a step was read when the step started.                     *)
Raises(s) == \/ s.agent = "unknown"
             \/ s.agent = "normalize" /\ "raw" \notin have
             \/ s.agent = "quality" /\ "normalized" \notin have

Output(s) == CASE s.agent = "fetch"     -> {"raw"}
               [] s.agent = "normalize" -> {"normalized"}
               [] s.agent = "quality"   -> {"quality", "final"}

LowQuality == low \/ items = 0

AdaptivePlan == Steps(Default, TRUE)

(* Mutation of Complete: every low quality inserts the retry path. *)
CompleteAlwaysAdapting ==
  /\ pc = "execute" /\ ~Raises(step)
  /\ have' = have \cup Output(step)
  /\ results' = Append(results, "completed")
  /\ pc' = "take"
  /\ IF step.agent = "quality" /\ LowQuality
       THEN /\ applied' = TRUE
            /\ queue' = AdaptivePlan \o queue
            /\ Emit(<<"AGENT_STEP_COMPLETED", "INSERT_RETRY_PATH">>, step)
       ELSE /\ Emit(<<"AGENT_STEP_COMPLETED">>, step)
            /\ UNCHANGED <<queue, applied>>
  /\ UNCHANGED <<plan, items, low, step, attempt, report>>

(* The agent returns: its result is recorded and published; after the      *)
(* first low quality the retry path goes in front of the queue.            *)
Complete ==
  /\ pc = "execute" /\ ~Raises(step)
  /\ have' = have \cup Output(step)
  /\ results' = Append(results, "completed")
  /\ \/ /\ EmitRaising(<<"AGENT_STEP_COMPLETED">>, step)
        /\ pc' = "except"
        /\ UNCHANGED <<queue, applied>>
     \/ /\ pc' = "take"
        /\ IF step.agent = "quality" /\ ~applied /\ LowQuality
             THEN /\ applied' = TRUE
                  /\ queue' = AdaptivePlan \o queue
                  /\ Emit(<<"AGENT_STEP_COMPLETED", "INSERT_RETRY_PATH">>, step)
             ELSE /\ Emit(<<"AGENT_STEP_COMPLETED">>, step)
                  /\ UNCHANGED <<queue, applied>>
  /\ UNCHANGED <<plan, items, low, step, attempt, report>>

(* The agent raises.                                                       *)
Fail ==
  /\ pc = "execute" /\ Raises(step)
  /\ pc' = "except"
  /\ UNCHANGED <<plan, items, low, queue, step, attempt, have, applied, results,
                 emitted, previous, report, faults>>

(* except: the step is tried once more ...                                 *)
Retry ==
  /\ pc = "except" /\ attempt + 1 <= MaxStepRetries
  /\ attempt' = attempt + 1
  /\ \/ Emit(<<"AGENT_STEP_RETRY", "RETRY">>, step) /\ pc' = "execute"
     \/ EmitRaising(<<"AGENT_STEP_RETRY", "RETRY">>, step) /\ pc' = "aborted"
  /\ UNCHANGED <<plan, items, low, queue, step, have, applied, results, report>>

Count(status) == Cardinality({i \in DOMAIN results' : results'[i] = status})

Report(status) ==
  report' = <<[status |-> status, completed |-> Count("completed"),
               failed |-> Count("failed"), degraded |-> applied]>>

(* ... and then the run fails.                                             *)
GiveUp ==
  /\ pc = "except" /\ attempt + 1 > MaxStepRetries
  /\ attempt' = attempt + 1
  /\ results' = Append(results, "failed")
  /\ \/ /\ Emit(<<"AGENT_STEP_FAILED", "SWARM_FAILED", "SWARM_RESULT">>, step)
        /\ Report("failed")
        /\ pc' = "done"
     \/ /\ EmitRaising(<<"AGENT_STEP_FAILED">>, step)
        /\ pc' = "aborted"
        /\ UNCHANGED report
  /\ UNCHANGED <<plan, items, low, queue, step, have, applied>>

Finish ==
  /\ pc = "take" /\ queue = <<>>
  /\ Emit(<<"SWARM_COMPLETED", "SWARM_RESULT">>, NoStep)
  /\ UNCHANGED results /\ Report("completed")
  /\ pc' = "done"
  /\ UNCHANGED <<plan, items, low, queue, step, attempt, have, applied>>

-----------------------------------------------------------------------------
Next == \/ Begin \/ SkipStep \/ StartStep \/ Complete \/ Fail
        \/ Retry \/ GiveUp \/ Finish

(* The event loop resumes the run when an emit returns.                    *)
Spec == Init /\ [][Next]_vars /\ WF_vars(Next)

-----------------------------------------------------------------------------
EventTypes == {"SWARM_STARTED", "PLANNER_DECISION", "SKIP_STEP", "INSERT_RETRY_PATH",
               "AGENT_STEP_STARTED", "AGENT_STEP_COMPLETED", "AGENT_STEP_RETRY",
               "RETRY", "AGENT_STEP_FAILED", "SWARM_FAILED", "SWARM_COMPLETED",
               "SWARM_RESULT"}

Step == [agent : Agents, inserted : BOOLEAN]

(* The variables hold values of their types.                               *)
TypeOK ==
  /\ plan \in Seq(Agents) /\ items \in Nat /\ low \in BOOLEAN
  /\ pc \in {"start", "take", "execute", "except", "done", "aborted"}
  /\ queue \in Seq(Step) /\ step \in Step
  /\ attempt \in 0..(MaxStepRetries + 1)
  /\ have \subseteq {"raw", "normalized", "quality", "final"}
  /\ applied \in BOOLEAN
  /\ results \in Seq({"completed", "failed"})
  /\ emitted \in Seq([type : EventTypes, step : Step, parent : Nat])
  /\ previous \in 0..Len(emitted)
  /\ report \in Seq([status : {"completed", "failed"}, completed : Nat,
                     failed : Nat, degraded : BOOLEAN])
  /\ faults \in 0..MaxFaults

Places(type) == {i \in DOMAIN emitted : emitted[i].type = type}

(* What SWARM_RESULT says of a run is what its events said, whatever was   *)
(* retried and whichever emits raised: steps completed and failed, whether *)
(* the retry path was inserted, and how the run ended.                     *)
ReportAgrees ==
  report # <<>> =>
    /\ report[1].completed = Cardinality(Places("AGENT_STEP_COMPLETED"))
    /\ report[1].failed = Cardinality(Places("AGENT_STEP_FAILED"))
    /\ report[1].degraded = (Places("INSERT_RETRY_PATH") # {})
    /\ (report[1].status = "failed") = (Places("SWARM_FAILED") # {})

(* A run ends once: SWARM_RESULT comes directly after the only             *)
(* SWARM_COMPLETED or SWARM_FAILED, and nothing comes after it.            *)
EndsOnce ==
  \A i \in Places("SWARM_COMPLETED") \cup Places("SWARM_FAILED") :
     /\ i = Len(emitted) - 1
     /\ emitted[i + 1].type = "SWARM_RESULT"

(* Following parents from any event leads back through the run to          *)
(* SWARM_STARTED: each event names an earlier one, and the only ones no    *)
(* later event names are those whose emit raised, and the last.            *)
LineageUnbroken ==
  /\ \A i \in DOMAIN emitted : emitted[i].parent \in (IF i = 1 THEN {0} ELSE 1..(i - 1))
  /\ Cardinality({i \in 1..(Len(emitted) - 1) :
        \A j \in DOMAIN emitted : emitted[j].parent # i}) <= faults

(* The events of a run tell its story: one lineage from SWARM_STARTED to   *)
(* one ending, and a result that says what they said, whichever steps were *)
(* retried and whichever emits raised.                                     *)
EventsTellRun == LineageUnbroken /\ EndsOnce /\ ReportAgrees

(* The places of the events that take a step, of the plan or of the retry  *)
(* path, and the place of one of them in their order.                      *)
Taken == Places("SKIP_STEP") \cup Places("AGENT_STEP_STARTED")
PathTaken == {i \in Taken : emitted[i].step.inserted}
PlanTaken == Taken \ PathTaken
Ordinal(i, places) == Cardinality({j \in places : j <= i})

InOrderOf(agents, places) ==
  \A i \in places : /\ Ordinal(i, places) <= Len(agents)
                    /\ emitted[i].step.agent = agents[Ordinal(i, places)]

(* The step taken before an inserted one is inserted too, but before the   *)
(* first of them, where it is a quality step of the plan.                  *)
InOnePiece ==
  \A i \in PathTaken : \E j \in Taken :
    /\ j < i
    /\ \A k \in Taken : k <= j \/ k >= i
    /\ IF \E k \in PathTaken : k < i
         THEN emitted[j].step.inserted
         ELSE emitted[j].step.agent = "quality" /\ ~emitted[j].step.inserted

(* Steps are taken in the order of the plan, the retry path once, in one   *)
(* piece, after a quality step, and a completed run has taken them all.    *)
PlanFollowed ==
  /\ InOrderOf(plan, PlanTaken)
  /\ InOrderOf(Default, PathTaken)
  /\ InOnePiece
  /\ pc = "done" /\ report[1].status = "completed" =>
        /\ Cardinality(PlanTaken) = Len(plan)
        /\ Cardinality(PathTaken) = IF applied THEN Len(Default) ELSE 0

=============================================================================
