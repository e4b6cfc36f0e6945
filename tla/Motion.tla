------------------------------- MODULE Motion -------------------------------
(***************************************************************************)
(* The animated picture of a run (apps/frontend/src/store/                 *)
(* eventToMotionMapper.ts over ecosystemRuntimeStore.ts): what an event    *)
(* makes of the nodes and edges of its trace.                              *)
(***************************************************************************)
EXTENDS Sequences, SequencesExt, TLC

NoNode == "none"

(* createEmptyTraceState, which any read of an unknown trace stores.       *)
EmptyMotion == [nodes |-> <<>>, retrying |-> {}, edges |-> <<>>, paths |-> <<>>, at |-> NoNode]

Node(m, n, state) ==
  [m EXCEPT !.nodes = [x \in DOMAIN @ \cup {n} |-> IF x = n THEN state ELSE @[x]]]
Edge(m, from, to, state) ==
  IF from \in {NoNode, to} THEN m
  ELSE [m EXCEPT !.edges = (<<from, to>> :> state) @@ @,
                 !.paths = IF <<from, to>> \in ToSet(@) THEN @ ELSE Append(@, <<from, to>>)]

(* AGENT_STEP_STARTED: the step the run stood at counts as completed.      *)
Started(m, n) ==
  LET left == IF m.at \in {NoNode, n} THEN m ELSE Node(m, m.at, "completed")
  IN [Edge(Node(left, n, "active"), m.at, n, "flowing")
        EXCEPT !.at = n, !.retrying = @ \ {n}]

(* AGENT_STEP_COMPLETED, with the first edge made that leads to the node.  *)
Completed(m, n) ==
  LET into == SelectSeq(m.paths, LAMBDA e : e[2] = n)
      done == [Node(m, n, "completed") EXCEPT !.retrying = @ \ {n}]
  IN IF into = <<>> THEN done ELSE Edge(done, into[1][1], n, "completed")

(* AGENT_STEP_FAILED, with the edge from the step the run stands at.       *)
Failed(m, n) == Edge(Node(m, n, "failed"), m.at, n, "failed")

(* AGENT_STEP_RETRY.                                                       *)
Retried(m, n) == [Node(m, n, "active") EXCEPT !.retrying = @ \cup {n}]

(* SWARM_FAILED: the node the run stands at.                               *)
EndedFailed(m) == IF m.at = NoNode THEN m ELSE Node(m, m.at, "failed")

AllCompleted(m) == [m EXCEPT !.nodes = [n \in DOMAIN @ |-> "completed"]]

(* Mutation of Ended: the case falls through to the next.                  *)
EndedFallsThrough(m) == EndedFailed(AllCompleted(m))

(* SWARM_COMPLETED: markAllNodesCompleted, failed ones too.                *)
Ended(m) == AllCompleted(m)

(* handleNormalizedEvent.                                                  *)
Moved(m, kind, n) ==
  CASE kind = "STEP_STARTED" -> Started(m, n)
    [] kind = "STEP_COMPLETED" -> Completed(m, n)
    [] kind = "STEP_FAILED" -> Failed(m, n)
    [] kind = "STEP_RETRY" -> Retried(m, n)
    [] kind = "SWARM_COMPLETED" -> Ended(m)
    [] kind = "SWARM_FAILED" -> EndedFailed(m)
    [] OTHER -> m
=============================================================================
