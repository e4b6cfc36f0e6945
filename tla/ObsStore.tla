------------------------------ MODULE ObsStore ------------------------------
(***************************************************************************)
(* The dashboard's store (apps/frontend/src/store/useObservabilityStore.ts *)
(* and truthRouter.ts) as functions from one state of the store to the     *)
(* next: adding events and evicting the oldest, forgetting stale ones, the *)
(* history of runs, and the lanes events are routed to by provenance.      *)
(***************************************************************************)
EXTENDS Integers, Sequences, FiniteSets, SequencesExt, Functions

CONSTANTS
  Event, Trace, None,
  Info,        \* what an event says: its trace, kind and provenance
  MaxEvents, MaxTraces, MaxIndex,
  StoreSplit,  \* VITE_STORE_SPLIT_ENABLED
  Isolation    \* VITE_SYNTHETIC_ISOLATION_ENABLED

StepKinds == {"STEP_STARTED", "STEP_COMPLETED", "STEP_FAILED", "STEP_RETRY"}
Indexed == {"DECISION", "ANOMALY", "META_INSIGHT"}
Kinds == StepKinds \cup Indexed \cup {"TASK_HANDOFF"} \cup
         {"SWARM_STARTED", "SWARM_COMPLETED", "SWARM_FAILED", "RESULT_OK", "RESULT_FAILED"}
SourceTypes == {"runtime", "persisted", "replay", "derived", "synthetic", "mock", "unknown"}

ASSUME StoreAssumption ==
  /\ None \notin Event \cup Trace
  /\ Info \in [Event -> [trace : Trace, kind : Kinds, source : SourceTypes,
                       verified : BOOLEAN, spoofed : BOOLEAN]]
  /\ MaxEvents \in Nat \ {0} /\ MaxTraces \in Nat \ {0} /\ MaxIndex \in Nat \ {0}
  /\ StoreSplit \in BOOLEAN /\ Isolation \in BOOLEAN

Lanes == {"verifiedRuntime", "replay", "derivedInsight", "syntheticDemo"}

(* baseState.                                                              *)
EmptyStore ==
  [events |-> {}, order |-> <<>>, traces |-> <<>>, traceOrder |-> <<>>,
   index |-> [k \in Indexed |-> <<>>], runs |-> <<>>,
   selectedTrace |-> None, selectedEvent |-> None, mode |-> "LIVE",
   lanes |-> [l \in Lanes |-> {}], denied |-> {}]

Keep(seq, S) == FoldLeft(LAMBDA kept, x : IF x \in S THEN Append(kept, x) ELSE kept, <<>>, seq)
Latest(seq, n) == SubSeq(seq, IF Len(seq) > n THEN Len(seq) - n + 1 ELSE 1, Len(seq))

(* What g says, and f of what g does not speak of.                         *)
Over(f, g) == [x \in DOMAIN f \cup DOMAIN g |-> IF x \in DOMAIN g THEN g[x] ELSE f[x]]
Put(f, x, v) == Over(f, [y \in {x} |-> v])

-----------------------------------------------------------------------------
(* classifyTruthLane.                                                      *)
LaneOf(e) ==
  CASE Info[e].source = "replay" -> "replay"
    [] Info[e].source = "derived" -> "derivedInsight"
    [] Info[e].source \in {"synthetic", "mock"} -> "syntheticDemo"
    [] OTHER -> "verifiedRuntime"

(* guardRuntimeLaneWrite, for an event whose provenance is never missing:  *)
(* normalizeProvenanceEvent has given it one.                              *)
GuardAllows(e) ==
  Isolation => /\ Info[e].source \in {"runtime", "persisted", "replay"}
               /\ Info[e].verified
               /\ Info[e].source = "runtime" => ~Info[e].spoofed

(* What addEvent does with the lanes once the event is in the indexes:     *)
(* a denied write is recorded, one whose source no lane takes is not.      *)
Placed(e) == StoreSplit /\ (Info[e].source # "unknown" \/ Isolation)
Denied(e) == Placed(e) /\ LaneOf(e) = "verifiedRuntime" /\ ~GuardAllows(e)

-----------------------------------------------------------------------------
(* upsertRunHistoryFromEvent: a run is made by the first event of its      *)
(* trace that says something of it.                                        *)
RunOf(runs, t) ==
  IF t \in DOMAIN runs THEN runs[t]
  ELSE [status |-> "running", ended |-> FALSE, steps |-> <<>>]

Told(run, e) ==
  LET kind == Info[e].kind
  IN CASE kind = "SWARM_STARTED" -> [run EXCEPT !.status = "running"]
       [] kind = "RESULT_OK" -> [run EXCEPT !.status = "completed", !.ended = TRUE]
       [] kind \in {"RESULT_FAILED", "SWARM_FAILED"} ->
            [run EXCEPT !.status = "failed", !.ended = TRUE]
       [] kind = "SWARM_COMPLETED" ->
            [run EXCEPT !.ended = TRUE, !.status = IF @ = "failed" THEN @ ELSE "completed"]
       [] OTHER -> [run EXCEPT !.steps = Append(@, e)]

Silent(e) == Info[e].kind \in Indexed \cup {"TASK_HANDOFF"}

(* Mutation of RunAfter: only SWARM_STARTED makes a run.                   *)
RunAfterKnown(runs, e) ==
  LET t == Info[e].trace
  IN IF Silent(e) \/ (t \notin DOMAIN runs /\ Info[e].kind # "SWARM_STARTED") THEN runs
     ELSE Put(runs, t, Told(RunOf(runs, t), e))

RunAfter(runs, e) ==
  LET t == Info[e].trace
  IN IF Silent(e) THEN runs ELSE Put(runs, t, Told(RunOf(runs, t), e))

(* upsertRunHistoryFromApiResponse: the n steps of the response replace    *)
(* those the events left, even if n is 0, unless it has no list of steps.  *)
RunFromApi(st, t, status, n) ==
  LET steps == IF n = None THEN RunOf(st.runs, t).steps ELSE [i \in 1..n |-> "api"]
  IN [st EXCEPT !.runs = Put(@, t, [status |-> status, ended |-> TRUE, steps |-> steps])]

-----------------------------------------------------------------------------
(* One turn of the loop of addBatchEvents.                                 *)
Added(st, e) ==
  LET t == Info[e].trace
  IN [st EXCEPT
       !.events = @ \cup {e},
       !.order = IF e \in ToSet(@) THEN @ ELSE Append(@, e),
       !.traceOrder = IF t \in DOMAIN st.traces THEN @ ELSE Append(@, t),
       !.traces = Put(@, t, {e} \cup IF t \in DOMAIN @ THEN @[t] ELSE {}),
       !.index = [k \in Indexed |-> IF k = Info[e].kind THEN Latest(Append(@[k], e), MaxIndex)
                                    ELSE @[k]],
       !.runs = RunAfter(@, e),
       !.lanes = [l \in Lanes |-> IF Placed(e) /\ ~Denied(e) /\ l = LaneOf(e)
                                  THEN @[l] \cup {e} ELSE @[l]],
       !.denied = IF Denied(e) THEN @ \cup {e} ELSE @]

(* A trace that has lost all its events is gone; its place in traceOrder   *)
(* is another matter.                                                      *)
TracesWithin(traces, S) ==
  Restrict([t \in DOMAIN traces |-> traces[t] \cap S], {t \in DOMAIN traces : traces[t] \cap S # {}})

(* The events of S, and what points at them, are all that is left.         *)
Within(st, S) ==
  [st EXCEPT !.events = @ \cap S, !.order = Keep(@, S),
             !.index = [k \in Indexed |-> Keep(@[k], S)],
             !.selectedEvent = IF @ \in S THEN @ ELSE None]

(* Mutation of EvictOldestEvents: the traces keep the ids of removed events. *)
EvictOldestEventsOnly(st) == Within(st, ToSet(Latest(st.order, MaxEvents)))

(* evictOldestEvents: traceOrder keeps the traces that are gone.           *)
EvictOldestEvents(st) ==
  IF Len(st.order) <= MaxEvents THEN st
  ELSE LET kept == ToSet(Latest(st.order, MaxEvents))
       IN [Within(st, kept) EXCEPT !.traces = TracesWithin(@, kept)]

(* evictOldestTraces: the first of traceOrder go, with their events.       *)
EvictOldestTraces(st) ==
  IF Len(st.traceOrder) <= MaxTraces THEN st
  ELSE LET gone == ToSet(SubSeq(st.traceOrder, 1, Len(st.traceOrder) - MaxTraces))
           traces == Restrict(st.traces, DOMAIN st.traces \ gone)
       IN [Within(st, UNION Range(traces)) EXCEPT
             !.traces = traces,
             !.traceOrder = Latest(@, MaxTraces),
             !.selectedTrace = IF @ \in gone THEN None ELSE @]

(* addBatchEvents, and addEvent for a batch of one.                        *)
AddBatch(st, batch) ==
  IF st.mode = "PAUSED" \/ batch = <<>> THEN st
  ELSE EvictOldestTraces(EvictOldestEvents(FoldLeft(Added, st, batch)))

(* cleanupStaleEventsInternal: traceOrder is made anew.                    *)
CleanupStale(st, stale) ==
  IF ToSet(st.order) \cap stale = {} THEN st
  ELSE LET kept == st.events \ stale
           traces == TracesWithin(st.traces, kept)
       IN [Within(st, kept) EXCEPT
             !.traces = traces,
             !.traceOrder = Keep(@, DOMAIN traces),
             !.selectedTrace = IF @ \in DOMAIN traces THEN @ ELSE None]

Toggled(st) == [st EXCEPT !.mode = IF @ = "LIVE" THEN "PAUSED" ELSE "LIVE"]
=============================================================================
