------------------------------ MODULE Browser ------------------------------
(***************************************************************************)
(* The dashboard's page from the events socket to its views: useWebSocket  *)
(* (WsClient), the state of App, useBufferedStream, the store (ObsStore),  *)
(* the animation (Motion) and the topology graph (GraphView).  The page is *)
(* one thread: a task is a message, a timer or a click, and React runs the *)
(* effects of a commit before the next task.  An update of the store is    *)
(* committed in the task that made it; a message waits to be rendered, and *)
(* the next one may come before.                                           *)
(***************************************************************************)
EXTENDS WsClient, GraphView, Motion

CONSTANTS
  Scripts,     \* the sequences of events the backend may publish
  StepOf,      \* the step an event names
  Snapshots,   \* what the agents channel may say: the states of some agents
  MaxBuffer,   \* MAX_BUFFER_SIZE
  MaxClaims,   \* bound of the model: clicks, answers to Run, snapshots of agents
  MaxOld,      \* bound of the model: events that outlive their time
  MaxQueue     \* bound of the model: animations waiting when events are stored

ASSUME ScriptAssumption == \A s \in Scripts : s \in Seq(Event) /\ IsInjective(s)
ASSUME BrowserAssumption == MaxBuffer \in Nat \ {0} /\ MaxClaims \in Nat /\ MaxOld \in Nat /\ MaxQueue \in Nat
ASSUME StepAssumption == \A e \in Event : StepOf[e] # NoNode

(* What the backend promises of the events of a trace: a step is started   *)
(* before anything else is said of it, a run that failed did not complete, *)
(* and after its end come its result and what is said of other things than *)
(* the run (proved of the backend: BackendProofs!RunsPublishInOrder).      *)
RunsInOrder ==
  \A s \in Scripts : \A j \in DOMAIN s :
    LET told == Info[s[j]]
        IsOf(i, kinds) == Info[s[i]].trace = told.trace /\ Info[s[i]].kind \in kinds
    IN /\ told.kind \in StepKinds => \E i \in 1..j : IsOf(i, {"STEP_STARTED"})
       /\ told.kind \in {"SWARM_FAILED", "RESULT_FAILED"} =>
            \A i \in DOMAIN s : ~IsOf(i, {"SWARM_COMPLETED"})
       /\ Silent(s[j]) \/ told.kind = "RESULT_FAILED" \/
            \A i \in 1..(j - 1) : ~IsOf(i, {"SWARM_FAILED"})
       /\ Silent(s[j]) \/ told.kind = "RESULT_OK" \/
            \A i \in 1..(j - 1) : ~IsOf(i, {"SWARM_COMPLETED"})

VARIABLES
  script,    \* the events of this behaviour
  issued,    \* how many the backend has published
  at,        \* how many were published when the socket was last served
  pending,   \* an event message that waits to be rendered, or None
  message,   \* the event message last rendered, or None
  page,      \* buffer, visual queue, store and the graph's pending events
  follow,    \* followLatest
  motion,    \* the animated picture of each trace
  graph,     \* graphRef
  drawn,     \* seenEventIds
  old,       \* how many events of the script are past their time to live
  claims,    \* clicks, answers and snapshots so far
  agents,    \* the last snapshot of agents
  got,       \* history: the messages rendered
  answered,  \* history: the traces an answer to Run was about
  straight,  \* history: each was the one published next after the one before
  lost       \* history: messages replaced before they were rendered, or dropped

backend == <<script, issued, at, old>>
views == <<motion, graph, drawn, agents>>
history == <<got, straight, answered>>
vars == <<wsVars, backend, pending, message, page, follow, claims, views, history, lost>>

Visual == StepKinds \cup {"SWARM_STARTED", "SWARM_COMPLETED", "SWARM_FAILED",
                         "RESULT_OK", "RESULT_FAILED"}
Topological == Kinds \ {"RESULT_OK", "RESULT_FAILED"}

PageInit ==
  /\ WsInit
  /\ script \in Scripts
  /\ issued = 0 /\ at = [s \in Socket |-> 0]
  /\ pending = None /\ message = None
  /\ page = [queue |-> <<>>, buffer |-> <<>>, store |-> EmptyStore,
             graphing |-> <<>>, timer |-> TRUE]
  /\ follow = TRUE
  /\ motion = [t \in Trace |-> EmptyMotion]
  /\ graph = EmptyGraph /\ drawn = {}
  /\ old = 0 /\ claims = 0
  /\ agents = <<>>
  /\ got = {} /\ answered = {} /\ straight = TRUE /\ lost = {}

-----------------------------------------------------------------------------
Selected(p, t) == [p EXCEPT !.store.selectedTrace = t]

(* The effect of useBufferedStream on an event message: the animation is   *)
(* queued, the event is buffered, a first run is selected.                 *)
EventEffect(p, e) ==
  IF e = None THEN p
  ELSE LET kind == Info[e].kind
           queued == IF kind \in Visual THEN [p EXCEPT !.queue = Append(@, e)] ELSE p
           chosen == IF kind = "SWARM_STARTED" /\ p.store.selectedTrace = None
                     THEN Selected(queued, Info[e].trace) ELSE queued
       IN IF kind = "ANOMALY" THEN queued
          ELSE [chosen EXCEPT !.buffer = Latest(Append(@, e), MaxBuffer)]

(* The effect of followLatest.                                             *)
Followed(p) ==
  IF follow' /\ p.store.order # <<>> /\ Info[Last(p.store.order)].kind = "SWARM_STARTED"
  THEN Selected(p, Info[Last(p.store.order)].trace) ELSE p

(* The effect of useGraphData: topology events neither drawn nor pending.  *)
Graphing(p) ==
  LET new == {e \in p.store.events : Info[e].kind \in Topological} \ (drawn \cup ToSet(p.graphing))
  IN [p EXCEPT !.graphing = @ \o Keep(p.store.order, new), !.timer = TRUE]

(* The commits that follow a task which made page into p: an effect runs   *)
(* again when what it depends on has changed.                              *)
Committed(p, e, before) ==
  LET chosen == IF p.store.selectedTrace # before.store.selectedTrace
                THEN EventEffect(p, e) ELSE p
      told == IF p.store.order # before.store.order \/ follow' # follow
              THEN Followed(chosen) ELSE chosen
      last == IF told.store.selectedTrace # p.store.selectedTrace
              THEN EventEffect(told, e) ELSE told
  IN IF p.store.order # before.store.order THEN Graphing(last) ELSE last

(* A task that touches the page and nothing behind it.                     *)
Task(p) ==
  /\ page' = Committed(p, message, page)
  /\ lost' = lost \cup (ToSet(p.buffer) \ ToSet(page'.buffer))
  /\ UNCHANGED wsVars

-----------------------------------------------------------------------------
(* The backend publishes to the sockets that are open.                     *)
Publish ==
  /\ issued < Len(script)
  /\ issued' = issued + 1
  /\ at' = [s \in Socket |-> IF sock[s] = "open" THEN at[s] ELSE issued']
  /\ UNCHANGED <<wsVars, script, old, pending, message, page, follow, claims, views, history, lost>>

(* onmessage: setEventMessage replaces a message not yet rendered.         *)
OnMessage(s) ==
  /\ sock[s] = "open" /\ at[s] < issued
  /\ at' = [at EXCEPT ![s] = @ + 1]
  /\ pending' = script[at'[s]]
  /\ lost' = lost \cup ({pending} \ {None})
  /\ UNCHANGED <<wsVars, script, issued, old, message, page, follow, claims, views, history>>

(* The sockets are used as WsClient says; disconnect is one of the clicks. *)
Connection ==
  /\ WsNext
  /\ at' = [s \in Socket |-> IF sock'[s] = "open" /\ sock[s] = "open" THEN at[s] ELSE issued]
  /\ IF wanted /\ ~wanted' THEN claims < MaxClaims /\ claims' = claims + 1 ELSE UNCHANGED claims
  /\ UNCHANGED <<script, issued, old, pending, message, page, follow, views, history, lost>>

(* App renders a new message.                                              *)
Render ==
  /\ pending # None
  /\ pending' = None
  /\ message' = pending
  /\ got' = got \cup {pending}
  /\ straight' = (straight /\ pending \notin got
                  /\ got' = ToSet(SubSeq(script, 1, Cardinality(got'))))
  /\ UNCHANGED <<follow, wsVars>>
  /\ page' = Committed(EventEffect(page, pending), pending, page)
  /\ lost' = lost \cup (ToSet(page.buffer) \ ToSet(page'.buffer))
  /\ UNCHANGED <<backend, claims, views, answered>>

(* The flush interval: stale events go, and the buffer is stored unless    *)
(* the stream is paused.                                                   *)
FlushTick ==
  /\ Len(page.queue) <= MaxQueue
  /\ UNCHANGED follow
  /\ LET store == CleanupStale(page.store, ToSet(SubSeq(script, 1, old)))
     IN Task(IF store.mode = "PAUSED" THEN [page EXCEPT !.store = store]
             ELSE [page EXCEPT !.store = AddBatch(store, page.buffer), !.buffer = <<>>])
  /\ UNCHANGED <<backend, pending, message, claims, views, history>>

(* The playback interval: one queued event moves the picture of its trace. *)
PlayTick ==
  /\ page.queue # <<>>
  /\ LET e == Head(page.queue)
     IN motion' = [motion EXCEPT ![Info[e].trace] = Moved(@, Info[e].kind, StepOf[e])]
  /\ page' = [page EXCEPT !.queue = Tail(@)]
  /\ UNCHANGED <<wsVars, backend, pending, message, follow, claims, graph, drawn, agents, history, lost>>

(* The debounced flush of useGraphData.                                    *)
GraphTick ==
  /\ page.timer
  /\ page' = [page EXCEPT !.graphing = <<>>, !.timer = FALSE]
  /\ graph' = IF page.graphing = <<>> /\ graph # EmptyGraph THEN graph
               ELSE GraphSnapshot(GraphApply(graph, page.graphing), agents)
  /\ drawn' = drawn \cup ToSet(page.graphing)
  /\ UNCHANGED <<wsVars, backend, pending, message, follow, claims, motion, agents, history, lost>>

-----------------------------------------------------------------------------
Toggle ==
  /\ claims < MaxClaims
  /\ claims' = claims + 1
  /\ UNCHANGED follow
  /\ Task([page EXCEPT !.store = Toggled(@)])
  /\ UNCHANGED <<backend, pending, message, views, history>>

ToggleFollow ==
  /\ claims < MaxClaims
  /\ claims' = claims + 1
  /\ follow' = ~follow
  /\ Task(page)
  /\ UNCHANGED <<backend, pending, message, views, history>>

(* A panel selects an event it shows, and its trace.                       *)
SelectEvent(e) ==
  /\ claims < MaxClaims
  /\ claims' = claims + 1
  /\ e \in page.store.events
  /\ UNCHANGED follow
  /\ Task(Selected([page EXCEPT !.store.selectedEvent = e], Info[e].trace))
  /\ UNCHANGED <<backend, pending, message, views, history>>

(* The answer to Run arrives, before or after the events of the run.       *)
Answer(t) ==
  /\ claims < MaxClaims
  /\ claims' = claims + 1
  /\ answered' = answered \cup {t}
  /\ UNCHANGED follow
  /\ \E status \in {"completed", "failed"}, n \in {None, 0, 1} :
        Task(Selected([page EXCEPT !.store = RunFromApi(@, t, status, n)], t))
  /\ UNCHANGED <<backend, pending, message, views, got, straight>>

(* A snapshot of the agents channel replaces the one before.               *)
AgentsArrive(s) ==
  /\ claims < MaxClaims
  /\ claims' = claims + 1
  /\ agents' = s
  /\ page' = [page EXCEPT !.timer = TRUE]
  /\ UNCHANGED <<wsVars, backend, pending, message, follow, motion, graph, drawn, history, lost>>

(* The oldest event passes its time to live.                               *)
Age ==
  /\ old < issued /\ old < MaxOld
  /\ old' = old + 1
  /\ UNCHANGED <<wsVars, script, issued, at, pending, message, page, follow, claims, views, history, lost>>

PageNext ==
  \/ Publish \/ Connection \/ Render \/ FlushTick \/ PlayTick \/ GraphTick
  \/ Toggle \/ ToggleFollow \/ Age
  \/ \E s \in Socket : OnMessage(s)
  \/ \E t \in Trace : Answer(t)
  \/ \E e \in Event : SelectEvent(e)
  \/ \E s \in Snapshots : AgentsArrive(s)

PageSpec == PageInit /\ [][PageNext]_vars

-----------------------------------------------------------------------------
(* The store's indices tell one story whatever was added, evicted or gone  *)
(* stale, and in which batches: the order, the traces, the kinds and the   *)
(* selection are of the events it has, every event is in one lane or was   *)
(* refused, and neither limit is passed (addBatchEvents, evictOldestEvents,*)
(* evictOldestTraces and cleanupStaleEventsInternal).                      *)
StoreConsistent ==
  LET st == page.store
  IN /\ IsInjective(st.order) /\ st.events = ToSet(st.order)
     /\ st.events = UNION Range(st.traces) /\ {} \notin Range(st.traces)
     /\ DOMAIN st.traces \subseteq ToSet(st.traceOrder)
     /\ \A k \in Indexed : ToSet(st.index[k]) \subseteq st.events
     /\ st.selectedEvent \in st.events \cup {None}
     /\ \A e \in st.events : Placed(e) =>
          Cardinality({l \in Lanes : e \in st.lanes[l]}) + (IF e \in st.denied THEN 1 ELSE 0) = 1
     /\ Len(st.order) <= MaxEvents /\ Cardinality(DOMAIN st.traces) <= MaxTraces

Quiet == pending = None /\ page.buffer = <<>> /\ page.queue = <<>>
Ends == {e \in got \ lost : Info[e].kind \in {"SWARM_COMPLETED", "SWARM_FAILED"}}

(* When nothing waits, a run whose end the page received is over in the    *)
(* history of runs, whatever was paused, evicted, replaced or stale        *)
(* meanwhile, unless the end itself was replaced or dropped.               *)
RunsSettle ==
  Quiet => \A e \in Ends : /\ Info[e].trace \in DOMAIN page.store.runs
                           /\ page.store.runs[Info[e].trace].ended

(* The animation and the history of runs are told the same events by two   *)
(* paths, and say the same of how a run ended once both are through, if    *)
(* the page received its events once, in order and without a gap.          *)
ViewsAgree ==
  Quiet /\ straight /\ lost = {} =>
    \A e \in Ends : Info[e].trace \notin answered =>
       LET states == Range(motion[Info[e].trace].nodes)
       IN IF page.store.runs[Info[e].trace].status = "completed"
          THEN states \subseteq {"completed"} ELSE states = {} \/ "failed" \in states

(* Every handoff the graph was given is drawn once or still waits for its  *)
(* ends, in whichever batches handoffs and agents came                     *)
(* (applyNormalizedEvents, and the ids useGraphData has seen).             *)
HandoffsAccounted ==
  LET edges == {x \in DOMAIN graph.edges : x[3] = "TASK_HANDOFF"}
  IN MapThenSumSet(LAMBDA x : graph.edges[x], edges) + Cardinality(graph.unresolved)
       = Cardinality({e \in drawn : IsHandoff(e)})
=============================================================================
