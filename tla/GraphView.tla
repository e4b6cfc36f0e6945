----------------------------- MODULE GraphView -----------------------------
(***************************************************************************)
(* The dashboard's topology graph (apps/frontend/src/store/graphEngine.ts) *)
(* as a function of the batches it is handed.  Timestamps, positions and   *)
(* counts of annotations are left out.                                     *)
(***************************************************************************)
EXTENDS ObsStore

CONSTANT Says    \* the agents an event names: agent, from and to, or None

Agents(e) == {Says[e].agent, Says[e].from, Says[e].to} \ {None}
IsHandoff(e) == Info[e].kind = "TASK_HANDOFF"
IsStep(e) == Info[e].kind \in StepKinds

(* createGraphState.                                                       *)
EmptyGraph == [nodes |-> <<>>, edges |-> <<>>, unresolved |-> {}, last |-> <<>>]

(* upsertEdge: both ends must be nodes.                                    *)
EdgeDrawn(g, from, to, type) ==
  IF {from, to} \subseteq DOMAIN g.nodes
  THEN LET known == <<from, to, type>> \in DOMAIN g.edges
       IN [g EXCEPT !.edges = Put(@, <<from, to, type>>, 1 + IF known THEN @[<<from, to, type>>] ELSE 0)]
  ELSE g

(* upsertNode for the agents of an event: a hint overwrites the state.     *)
Upserted(g, e) ==
  LET hint(a) == CASE Info[e].kind = "STEP_FAILED" /\ a = Says[e].agent -> "FAILED"
                   [] Info[e].kind = "ANOMALY" -> "DEGRADED"
                   [] a \in DOMAIN g.nodes -> g.nodes[a]
                   [] OTHER -> "ACTIVE"
  IN [g EXCEPT !.nodes = Over(@, [a \in Agents(e) |-> hint(a)])]

(* Mutation of Applied: a handoff is drawn at once, and waits as well.     *)
AppliedTwice(g, e) ==
  LET now == Upserted(g, e)
  IN IF ~IsHandoff(e) THEN now
     ELSE [EdgeDrawn(now, Says[e].from, Says[e].to, "TASK_HANDOFF") EXCEPT !.unresolved = @ \cup {e}]

(* One turn of the loop of applyNormalizedEvents: a handoff between agents *)
(* that were known before is drawn, another waits; a step leads from the   *)
(* agent of the step before.                                               *)
Applied(g, e) ==
  LET now == Upserted(g, e)
      t == Info[e].trace
  IN IF IsHandoff(e)
     THEN IF {Says[e].from, Says[e].to} \subseteq DOMAIN g.nodes
          THEN [EdgeDrawn(now, Says[e].from, Says[e].to, "TASK_HANDOFF") EXCEPT !.unresolved = @ \ {e}]
          ELSE [now EXCEPT !.unresolved = @ \cup {e}]
     ELSE IF ~IsStep(e) \/ Says[e].agent = None THEN now
     ELSE LET before == IF t \in DOMAIN g.last THEN g.last[t] ELSE Says[e].agent
              led == IF before = Says[e].agent THEN now
                     ELSE EdgeDrawn(now, before, Says[e].agent, "FLOW_EVENT")
          IN [led EXCEPT !.last = Put(@, t, Says[e].agent)]

(* A handoff that waited before the batch is drawn once its ends are known. *)
Resolved(g, e) ==
  IF {Says[e].from, Says[e].to} \subseteq DOMAIN g.nodes
  THEN [EdgeDrawn(g, Says[e].from, Says[e].to, "TASK_HANDOFF") EXCEPT !.unresolved = @ \ {e}]
  ELSE g

(* applyNormalizedEvents.                                                  *)
GraphApply(g, batch) ==
  IF batch = <<>> THEN g
  ELSE LET after == FoldLeft(Applied, g, batch)
       IN FoldLeft(Resolved, after, SetToSeq(g.unresolved \cap after.unresolved))

(* applyAgentSnapshot: the states of the last agent snapshot.              *)
GraphSnapshot(g, agents) == [g EXCEPT !.nodes = Over(@, agents)]
=============================================================================
