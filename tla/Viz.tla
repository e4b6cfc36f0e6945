-------------------------------- MODULE Viz --------------------------------
(* The operations views of the dashboard: VizBridge, which lets a mock or   *)
(* the backend's sockets speak, the store of useVizStore that listens from  *)
(* the load of the page on and forwards what it hears to the graph, and     *)
(* SimEngine, the animated canvas of PixelSim, which listens while it is    *)
(* mounted.  Positions are rooms, and a walk of several frames is one step  *)
(* that ends it; the tasks drawn in flight and the counts of processed      *)
(* tasks are left out.                                                      *)
EXTENDS Integers, Sequences, FiniteSets, SequencesExt, Functions

CONSTANTS
  Nil,
  ZONES, PIPELINE,   \* the rooms, and those downstream of each
  AGENTS,            \* the agents of the mock, the backend's pulse uses the same ids
  Orchestrator,
  Roles, RoleOf,     \* the agents that stand for rooms, and the one of each room
  DispatchAgent, IntakeAgent, HitlAgent,
  Messages,          \* what the backend may send: [kind, agent, node, step]
  MaxLive,           \* bound of the model: clicks on Live
  MaxTimers,         \* bound of the model: moves on the canvas within 2.2 seconds
  MaxCount           \* bound of the model: errors

Zone == ToSet(ZONES)
Agent == ToSet(AGENTS)

ASSUME VizAssumption ==
  /\ PIPELINE \in [Zone -> SUBSET Zone]
  /\ RoleOf \in [Zone -> Roles] /\ {DispatchAgent, IntakeAgent, HitlAgent} \subseteq Roles
  /\ Cardinality({DispatchAgent, IntakeAgent, HitlAgent}) = 3
  /\ Nil \notin Zone \cup Agent \cup Roles /\ (Roles \cup {Orchestrator}) \cap Agent = {}
  /\ ZONES \in Seq(Zone) /\ AGENTS \in Seq(Agent) /\ Len(ZONES) > 1
  /\ \A m \in Messages : m.step \in Nat \cup {Nil}
  /\ MaxLive \in Nat /\ MaxTimers \in Nat /\ MaxCount \in Nat

VARIABLES
  mocking,   \* mockInterval is set
  actors,    \* mockAgents: the room of each, as the mock has it
  sockets,   \* the sockets of events: how many open, how many timers, which is _ws
  metrics,   \* _metricsWs and the timers of its reconnections
  viz,       \* the store: the room of each agent and the count of errors
  engine,    \* the engine of the mounted canvas
  lives,     \* clicks on Live so far
  moved      \* history: the agents of the swarm that moved since the engine was ready

bridge == <<mocking, actors, sockets, metrics, lives>>
vizVars == <<bridge, viz, engine, moved>>

Seeded == [a \in Agent |-> ZONES[(((CHOOSE i \in DOMAIN AGENTS : AGENTS[i] = a) - 1) % Len(ZONES)) + 1]]

NoEngine == [phase |-> "none", agents |-> <<>>, errors |-> 0]

\* The module's load: agents are seeded and the mock starts.
VizInit ==
  /\ mocking = TRUE /\ actors = Seeded
  /\ sockets = [open |-> 0, retries |-> 0, own |-> "none"]
  /\ metrics = [open |-> FALSE, retries |-> 0]
  /\ viz = [zone |-> Seeded, errors |-> 0]
  /\ engine = NoEngine /\ lives = 0 /\ moved = {}

-----------------------------------------------------------------------------
(* From the backend's messages to the bridge's events                       *)

ZoneFromStepIndex(n) == ZONES[(n % Len(ZONES)) + 1]

\* A room the table of nodes does not know is "" and falls back; steps cycle.
MoveZone(m) == IF m.node \in Zone THEN m.node ELSE ZONES[2]
SpawnZone(m) == IF m.step = Nil THEN ZONES[1] ELSE ZoneFromStepIndex(m.step)

VizEvent(type, m, zone) == [type |-> type, agent |-> m.agent, zone |-> zone]

AdaptBackendEvent(m) ==
  CASE m.kind = "AGENT_MOVE"  -> VizEvent("agent_move", m, MoveZone(m))
    [] m.kind = "AGENT_SPAWN" -> VizEvent("agent_move", m, SpawnZone(m))
    [] m.kind \in {"TASK_START", "SWARM_STARTED", "TASK_HANDOFF"} -> VizEvent("task_spawn", m, Nil)
    [] m.kind \in {"TASK_SUCCESS", "TASK_COMPLETE", "TASK_FAIL"}  -> VizEvent("task_complete", m, Nil)
    [] m.kind = "ANOMALY"  -> VizEvent("hitl_trigger", m, Nil)
    [] m.kind = "DECISION" -> VizEvent("decision", m, Nil)
    [] OTHER -> Nil

-----------------------------------------------------------------------------
(* What the subscribers make of an event                                    *)

Larger(m, n) == IF m > n THEN m ELSE n

\* applyEvent of the store: agents it does not know stay unknown.
Stored(e) ==
  CASE e.type = "agent_move" /\ e.agent \in Agent -> [viz EXCEPT !.zone[e.agent] = e.zone]
    [] e.type = "hitl_trigger" -> [viz EXCEPT !.errors = @ + 1]
    [] e.type = "metrics_update" -> [viz EXCEPT !.errors = Larger(@, e.errors)]
    [] OTHER -> viz

Standing(zone) == [zone |-> zone, state |-> "idle", walking |-> FALSE, works |-> 0, idles |-> 0]

StartAgentWalkOnly(a, zone) == [a EXCEPT !.state = "moving", !.walking = TRUE]   \* keeps the room's label
StartAgentWalk(a, zone) == [a EXCEPT !.zone = zone, !.state = "moving", !.walking = TRUE]

\* A move sets two timers, whatever timers the agent has.
Sent(a, zone) == [StartAgentWalk(a, zone) EXCEPT !.works = @ + 1, !.idles = @ + 1]

\* applyEvent of the engine.
Animated(e) ==
  CASE e.type = "agent_move" /\ e.agent \in DOMAIN engine.agents ->
         [engine EXCEPT !.agents[e.agent] = Sent(@, e.zone)]
    [] e.type = "hitl_trigger" -> [engine EXCEPT !.errors = @ + 1]
    [] e.type = "metrics_update" -> [engine EXCEPT !.errors = Larger(@, e.errors)]
    [] OTHER -> engine

\* An engine hears events from its first frame on, but has no agents before it is ready.
Listening == engine.phase \in {"starting", "running"}

\* The first agent the store has in the room, or the room's role; a mover that
\* finds itself there is handed to dispatch.
ResolveTargetAgent(zones, zone) ==
  LET there == {i \in DOMAIN AGENTS : zones[AGENTS[i]] = zone}
  IN IF there # {} THEN AGENTS[Min(there)] ELSE RoleOf[zone]

HandedOn(agent, zone, zones) ==
  LET target == ResolveTargetAgent(zones, zone)
  IN IF target # agent THEN target ELSE DispatchAgent

\* The handoffs the graph may be told of when the store has applied an event.
Handoffs(e, zones) ==
  LET pair(from, to) == [from |-> from, to |-> to] IN
  CASE e.type = "agent_move"    -> {pair(e.agent, HandedOn(e.agent, e.zone, zones))}
    [] e.type = "task_spawn"    -> {pair(IntakeAgent, a) : a \in Agent}
    [] e.type = "task_complete" -> {pair(a, DispatchAgent) : a \in Agent}
    [] e.type = "hitl_trigger"  -> {pair(DispatchAgent, HitlAgent)}
    [] OTHER -> {}

\* Moves on the canvas whose second timer is still to fire.
Recent == MapThenSumSet(LAMBDA a : engine.agents[a].idles, DOMAIN engine.agents)

Emit(e) ==
  /\ e.type = "agent_move" => Recent < MaxTimers
  /\ e.type = "hitl_trigger" => viz.errors < MaxCount
  /\ viz' = Stored(e)
  /\ engine' = IF Listening THEN Animated(e) ELSE engine
  /\ moved' = IF e.type = "agent_move" THEN moved \cup ({e.agent} \cap Agent \cap DOMAIN engine.agents) ELSE moved

-----------------------------------------------------------------------------
(* The mock                                                                 *)

Downstream(zone) == IF PIPELINE[zone] = {} THEN Zone ELSE PIPELINE[zone]
Said(type, agent, zone) == [type |-> type, agent |-> agent, zone |-> zone]

MockSpeaks ==
  /\ mocking
  /\ \/ \E a \in Agent : \E zone \in Downstream(actors[a]) :
          actors' = [actors EXCEPT ![a] = zone] /\ Emit(Said("agent_move", a, zone))
     \/ \E type \in {"task_spawn", "task_complete", "hitl_trigger"} :
          Emit(Said(type, Nil, Nil)) /\ UNCHANGED actors
  /\ UNCHANGED <<mocking, sockets, metrics, lives>>

\* startMock does nothing while the mock runs, and seeds its agents anew otherwise.
StartMock == mocking' = TRUE /\ actors' = IF mocking THEN actors ELSE Seeded

-----------------------------------------------------------------------------
(* The backend's sockets.  _ws is the last one made: it may be open, or     *)
(* lost with its reconnection to come; others may be open beside it.        *)

SocketOpened(s) == [s EXCEPT !.open = @ + 1, !.own = "open"]

\* A click on Live: whatever sockets there are stay.
ConnectLive ==
  /\ lives < MaxLive /\ lives' = lives + 1
  /\ mocking' = FALSE /\ UNCHANGED actors
  /\ sockets' = SocketOpened(sockets)
  /\ metrics' = [metrics EXCEPT !.open = TRUE]
  /\ UNCHANGED <<viz, engine, moved>>

\* A click on Mock: only _ws is closed, no timer is cleared.
UseMock ==
  /\ StartMock
  /\ sockets' = [sockets EXCEPT !.open = IF sockets.own = "open" THEN @ - 1 ELSE @, !.own = "none"]
  /\ metrics' = [metrics EXCEPT !.open = FALSE]
  /\ UNCHANGED <<lives, viz, engine, moved>>

SocketCloses ==
  /\ sockets.open > 0
  /\ \E own \in {sockets.own} \cup (IF sockets.own = "open" THEN {"lost"} ELSE {}) :
       /\ own = "open" => sockets.open > 1
       /\ sockets' = [open |-> sockets.open - 1, retries |-> sockets.retries + 1, own |-> own]
  /\ UNCHANGED <<mocking, actors, metrics, lives, viz, engine, moved>>

RetryFires ==
  /\ sockets.retries > 0
  /\ sockets' = SocketOpened([sockets EXCEPT !.retries = @ - 1])
  /\ UNCHANGED <<mocking, actors, metrics, lives, viz, engine, moved>>

MetricsCloses ==
  /\ metrics.open
  /\ metrics' = [open |-> FALSE, retries |-> metrics.retries + 1]
  /\ UNCHANGED <<mocking, actors, sockets, lives, viz, engine, moved>>

\* connectMetricsWS closes the socket it replaces without a reconnection.
MetricsRetryFires ==
  /\ metrics.retries > 0
  /\ metrics' = [open |-> TRUE, retries |-> metrics.retries - 1]
  /\ UNCHANGED <<mocking, actors, sockets, lives, viz, engine, moved>>

BackendSpeaks ==
  /\ sockets.open > 0
  /\ \E m \in Messages : AdaptBackendEvent(m) # Nil /\ Emit(AdaptBackendEvent(m))
  /\ UNCHANGED bridge

\* A snapshot of metrics that names an agent.
MetricsArrive ==
  /\ metrics.open
  /\ \E errors \in 1..MaxCount : Emit([type |-> "metrics_update", errors |-> errors])
  /\ UNCHANGED bridge

-----------------------------------------------------------------------------
(* The canvas                                                               *)

Unheard == UNCHANGED <<bridge, viz>>

\* PixelSim is shown: its engine starts with the next frame.
Mount == engine.phase = "none" /\ engine' = [NoEngine EXCEPT !.phase = "framed"] /\ UNCHANGED moved /\ Unheard
Frame == engine.phase = "framed" /\ engine' = [engine EXCEPT !.phase = "starting"] /\ UNCHANGED moved /\ Unheard

\* init is through: the agents are seeded, where their store may not have them.
Ready ==
  /\ engine.phase = "starting"
  /\ engine' = [engine EXCEPT !.phase = "running",
                  !.agents = [a \in Agent \cup {Orchestrator} |-> Standing(IF a = Orchestrator THEN ZONES[1] ELSE Seeded[a])]]
  /\ moved' = {} /\ Unheard

\* The view is left. (An engine left before init has its app draws on unseen.)
Unmount == engine.phase # "none" /\ engine' = NoEngine /\ moved' = {} /\ Unheard

Turn(a, agent) ==
  /\ engine' = [engine EXCEPT !.agents[a] = agent]
  /\ UNCHANGED moved /\ Unheard

\* The last frame of a walk.
Arrive(a) == engine.agents[a].walking /\ Turn(a, [engine.agents[a] EXCEPT !.walking = FALSE, !.state = "idle"])

\* The timer of 900 ms after a move, and that of 2.2 seconds after the same move.
WorkTimerAlways(a) ==
  LET agent == engine.agents[a] IN
  agent.works > 0 /\ Turn(a, [agent EXCEPT !.works = @ - 1, !.state = "working"])
WorkTimer(a) ==
  LET agent == engine.agents[a] IN
  agent.works > 0 /\ Turn(a, [agent EXCEPT !.works = @ - 1, !.state = IF @ = "moving" THEN @ ELSE "working"])
IdleTimer(a) ==
  LET agent == engine.agents[a] IN
  agent.idles > agent.works /\ Turn(a, [agent EXCEPT !.idles = @ - 1, !.state = IF @ = "working" THEN "idle" ELSE @])

\* Every 300 frames the orchestrator sets out, unless it walks.
Patrol ==
  /\ Orchestrator \in DOMAIN engine.agents /\ ~engine.agents[Orchestrator].walking
  /\ \E zone \in Zone : Turn(Orchestrator, StartAgentWalk(engine.agents[Orchestrator], zone))

VizNext ==
  \/ MockSpeaks \/ ConnectLive \/ UseMock \/ SocketCloses \/ RetryFires
  \/ MetricsCloses \/ MetricsRetryFires \/ BackendSpeaks \/ MetricsArrive
  \/ Mount \/ Frame \/ Ready \/ Unmount \/ Patrol
  \/ \E a \in DOMAIN engine.agents : Arrive(a) \/ WorkTimer(a) \/ IdleTimer(a)

-----------------------------------------------------------------------------
(* Properties                                                               *)

\* Three pictures of one swarm: the canvas and the panels beside it, which hear
\* of moves on their own, have an agent in the same room as soon as it has moved
\* once before both; the graph is told that it handed its work to another, in that
\* room if it is an agent of the swarm; the mock has it there too until the
\* backend first speaks; and the canvas never shows more errors than the panels.
PicturesAgree ==
  /\ \A a \in moved : engine.agents[a].zone = viz.zone[a]
  /\ \A a \in Agent : \A h \in Handoffs(Said("agent_move", a, viz.zone[a]), viz.zone) :
       h.to # a /\ (h.to \in Agent => viz.zone[h.to] = viz.zone[a])
  /\ lives = 0 => actors = viz.zone
  /\ engine.errors <= viz.errors

\* Whatever timers of earlier moves fire during later ones, an agent shown
\* moving is on its way, and one shown working has a timer that will end it.
WorkEnds ==
  \A a \in DOMAIN engine.agents :
    LET agent == engine.agents[a] IN
    /\ agent.state = "moving" <=> agent.walking
    /\ agent.state = "working" => agent.idles > agent.works

\* Every socket, and every reconnection to come, stands for a click on Live,
\* through closes, reconnections and changes to the mock and back.
SourcesBounded == sockets.open + sockets.retries <= lives
=============================================================================
