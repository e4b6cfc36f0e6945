# SwarmVision: TLA+ models, checks and proofs

SwarmVision records what a swarm of agents does, stores it in a graph, streams
it to browsers and to a UE5 client, has it analysed by two services, and
replays it.  This directory holds TLA+ modules of the parts of the repository
whose correctness depends on the order of events and on what fails in between,
the TLC configurations that check them on small instances, and TLAPS proofs of
the results that hold for every size of the system.

- `<Component>.tla` is the specification of a component.
- `MC<Component>.tla` and `MC*.cfg` instantiate it for TLC.
- `<Component>Proofs.tla` holds its theorems.
- `PROJECT.json` lists the components, the runs, the source lines behind every
  definition, the hazards, the findings and the theorems.

Inside a specification, an operator whose comment starts with "Mutation of" is
a plausible bug in the operator below it.  Nothing of the specification uses
it; it is there to show that a property notices that bug.

## 1. The system

### 1.1 Components

| component | source | state it keeps | operations | talks to |
|---|---|---|---|---|
| publish pipeline | `apps/backend/app/main.py:100-267`, `app/observability/` | trace context per task; rollups and agent states in memory; availability of the graph | `publish_event`, `publish_decision`, `publish_event_passthrough`, `publish_anomaly_event` | Neo4j, Redis, WebSocket manager, meta client |
| WebSocket manager | `app/websocket/manager.py`, endpoints of `main.py` | list of sockets per channel, metadata per socket, a counter | connect, disconnect, broadcast | publish pipeline, browsers, event relay |
| swarm runner | `app/services/swarm_runner.py`, `app/agents/` | locals of one run: queue, context, results, lineage | plan, skip, execute, retry, adapt, finish | publish pipeline |
| meta client | `app/clients/meta_client.py`, `main.py:_handle_meta_insights` | sliding window of dispatches, time per trace, a semaphore | dispatch, debounce, show insights | meta-agent, publish pipeline |
| meta-agent sidecar | `services/meta-agent/app/` | rate-limiter buckets, `MetaInsight` rows | analyse, upsert, prune, health | Neo4j |
| Neo4j repository | `app/neo4j/repository.py`, `replay.py` | `available`, the graph | persist event/decision/state, read queries, topology snapshot | |
| pulse emitter | `app/core/pulse.py` | `is_running` | emit demo events in a loop | publish pipeline |
| agent registry | `app/routers/agent_registry.py` | sessions, registered agents | connect, register, deregister | external apps |
| diagnostics, ledger, analytics, control plane, security | `app/diagnostics`, `ledger`, `analytics`, `control_plane`, `core/security.py` | a counter per trace (ledger); otherwise none | score, number, query, permit | |
| event relay, UE5 side | `services/event-relay/src/ue5Client.ts`, `relay.ts` | socket, bounded buffer, purge and reconnect timers | start, send, flush, purge, reconnect, stop | UE5 |
| event relay, backend side | `services/event-relay/src/backendClient.ts`, `translator.ts` | a socket and a timer per channel | connect, reconnect, destroy, translate | WebSocket manager |
| replay service, playback | `services/replay-service/src/replay.ts` | `replay_sessions` rows, `activeReplays`, interval timers | play, pause, seek, rate, bookmark, tick | browsers |
| replay service, ingestion | `services/replay-service/src/ingest.ts`, `db/` | sessions, events, bookmarks in SQLite | ingest a batch | event relay |
| intelligence service, human oversight | `services/intelligence-service/src/governance`, `oversight` routes of `server.ts` | SQLite tables of approvals, reviews, operators, constraints, violations, policies, interventions, lineage | request, review, check, amend, enact, intervene, explain | operators |
| intelligence service, governors | `governance-engine.ts`, `ecosystem-governor.ts` | time of the last order per action and swarm, in memory; learnings in SQLite | consider, withhold, order | |
| intelligence service, memory | `memory/` | sessions, lessons, edges, transfers, history of runs in SQLite | ingest, transfer, recall, trend | |
| intelligence service, civilization and federation | `civilization/`, `planetary/` | philosophy, structure, treaties, councils, pools in memory; eras and patterns in SQLite | ingest a reading, open and end eras, adopt, negotiate, resolve | |
| intelligence service, analysis and evolution | `analysis/`, `simulation/`, `evolution/`, `emergence/` | none between requests | detect, score, branch, breed, plan | |
| browser store and engines | `apps/frontend/src/store` | events, traces, runs and lanes; nodes, edges, waiting handoffs; animated state per trace | ingest, evict, route, pause, replace | connections, views |
| browser connections | `apps/frontend/src/hooks` | sockets, timers, buffer | connect, reconnect, ping, flush | WebSocket manager |
| operations views | `apps/frontend/src/viz` | bridge sources, store of rooms, canvas agents and timers | mock, go live, move, fail, unmount | backend |
| panels | `apps/frontend/src/components/observability` | what their effects keep of the store | narrate, request, select | store, backend |
| SDK | `packages/sdk/src` | connector, client, emitter | connect, disconnect, subscribe, filter | WebSocket manager |
| UE5 client | `ue5/SwarmVisionCinematic` | scene | render | event relay |
| deployment | `docker`, `infra` | none | configuration, back-up scripts | |

An event goes through the system like this: a swarm run, the pulse emitter or a
request calls `publish_event`; it is judged by the control plane, stored in
Neo4j by a worker thread, broadcast over the channel `events`, counted into
rollups and agent states, and searched for anomalies, which are published in
turn and dispatched to the sidecar.  The event relay is a WebSocket client of
the backend, passes translated events on to UE5 and posts batches of them to
the replay service.  Browsers are WebSocket clients of the backend and of the
replay service; in a page, one hook per channel hands messages to a buffer, the
buffer hands them to the store, and the store's views follow by effects.

### 1.2 What is hard

- **Suspension points.** The backend is one asyncio loop.  `broadcast`
  iterates a live list while suspended in `send_text`; `publish_event`
  suspends up to a dozen times, in worker threads, in sends and in Redis,
  between reading state and writing it.
- **Close events that come late.** The relay, the replay service, the page's
  hook and the SDK replace sockets whose close events are still to come, and
  start timers that nothing names any longer.
- **Partial failure.** Emits raise after their effect; one of several upserts
  fails; a write to Neo4j or Redis fails with or without effect; a batch is
  stored, counted, finalised and bookmarked in statements of their own.
- **Restarts.** Backend, sidecar, replay and intelligence service restart in
  the middle of all this and keep only what a database holds.
- **Bounds.** Message buffer with TTL, semaphore of 16, two sliding windows,
  one retry per step and one retry path per run, stores of events and traces
  that drop the oldest.
- **Late effects.** React runs the effects of a panel after the store has moved
  on, over a list that forgets.
- **Two copies of a state.** Lists and metadata of connections; the session of
  a replay and its row; an agent's state in memory, in Redis and in the graph;
  counters and rows of a swarm; the history of runs and the store's traces.

### 1.3 What makes each component correct

Each property a run checks, with the parts it is the conjunction of.

| component | correct when | stated as |
|---|---|---|
| WebSocket manager | lists and metadata agree; a message arrives at most once, at nobody of another tenant, and is missed only by a client that a removal moved under the loop; broadcasts return | `RegistryAgrees`, `DeliveredOnce` (`AtMostOnce`, `MissedOnlyByShift`), `TenantIsolation`, `BroadcastReturns` |
| UE5 relay | one UE5 at a time, nothing waits behind an open socket, order is kept; every message is accounted for; nothing stale is written; a buffer drains | `OneOrderedStream` (`OneInstance`, `WaitsOnlyWhileDown`, `InOrder`), `Accounted`, `NothingStale`, `BufferDrains` |
| replay playback | a viewer is sent a run of events without gap or repeat, skips only what it sought past, and, unless its connection crossed another, its timer follows the session; it misses nothing over all its connections; playback stops; asking to play starts it (violated) | `PlaybackExact` (`Contiguous`, `SkipsOnlyPast`, `TimerOnlyWhilePlaying`), `NothingSkipped`, `PlaybackStops`, `PlayStarts` |
| replay ingestion | what was acknowledged is stored, counted and bookmarked; nothing more often than posted, and exactly when posted once; a swarm's end is one stored event's | `CountersTrue` (`CountedPerAttempt`, `ExactWhenPostedOnce`), `EndIsAnEvents` |
| swarm runner | events form one lineage with one ending and a result that agrees; the plan and the retry path are followed | `EventsTellRun` (`LineageUnbroken`, `EndsOnce`, `ReportAgrees`), `PlanFollowed` |
| meta pipeline | slots never leak, rates and gaps are kept; counts are what was analysed and shown insights are stored; slots return | `DispatchesLimited` (`SlotsAccounted`, `TraceSpaced`, `RateBounded`), `InsightsAccounted` (`RowsCountUpserts`, `ShownWasStored`), `SlotsReturn` |
| publish pipeline | what is shown can be replayed; lineage is that of the task; the copies of an agent's state settle | `ImplementsJournal`, `LineageIntact`, `SoleWriterSettles` |
| browser page | the store's indices agree; a finished run is in the history once; store, graph and animation tell the same story; handoffs are drawn or wait or were dropped for a reason | `StoreConsistent`, `RunsSettle`, `ViewsAgree`, `HandoffsAccounted` |
| browser clients | connections are no more than somebody asked for, a wanted one is regained; bridge, store and canvas agree and work shown ends; panels miss only what a burst pushed out, and the detail shown is the selection's | `OnlyClicksMultiply` (`ConnectionsBounded`, `LinksBounded`, `ToldPerConnection`, `SourcesBounded`), `Recovers`, `PicturesAgree`, `WorkEnds`, `NothingMissedOutsideBursts`, `DetailFits` |
| human oversight | tables agree but for what crashes cut short; what was refused stays refused and a request is as its last ballot left it | `RecordsAgree` (`RecordsKeepUp`, `PoliciesInForce`, `DecisionsCounted`), `VerdictsStand` (`RefusedStaysRefused`, `LastBallotStands`) |
| governors | an action is withheld exactly within its cooldown since the service started | `WithheldWasOrdered` |
| memory | sessions are stored whole or not, transfers leave a record; patterns and trends count swarms | `GraphWhole` (`SessionsWhole`, `ClonesRecorded`), `MemoryFollowsSwarms` (`PatternsCountSwarms`, `TrendsFollowTime`) |
| civilization, federation | one open era of a swarm in a life, patterns count eras, one institution of a kind; unanimity carries, treaties do not harm, pools are never short | `HistoryAgrees` (`OneOpenEraPerLife`, `PatternsCountEras`, `OneInstitutionPerKind`), `FederationServes` (`UnanimityCarries`, `TreatiesHelp`, `PoolsNeverShort`) |
| analysis, evolution | detectors and links report what is there, suppressing a retry never harms; the best genome is the best ever seen and only the fittest breed | `AnalysisExact` (`DetectorsExact`, `LinksExact`, `SuppressionNeverHarms`), `SelectionWorks` (`BestIsBest`, `OnlyTheFittestBreed`) |

## 2. The modules

In every module a step is the code between two points where another actor can
run: two suspensions of the asyncio loop, one callback of a Node process or a
page, or one statement of a handler a crash can cut short.  Variables marked
*history* in a module are not in the program; they record what properties
speak of and no guard reads them, except where noted.

### WsManager (manager.py)

`active` is `active_connections`, `metadata` is `connection_metadata`, `total`
is `total_events_broadcast`.  `Connect`, `Welcomed` and `Leave` are the
endpoint coroutine; `Start`, `Sent` and `SendFailed` are the three ways into
the loop of `broadcast`, which goes on (`Advance`) to the next client that may
receive the message and suspends in `send_text`, or ends and disconnects the
clients whose sends failed.  The loop iterates by index over the live list, as
Python does.  `PeerDrops` is the client's end going away; a send to it may
still succeed, or raise.

### Ue5Relay (ue5Client.ts, relay.ts)

Both modes: in client mode the relay dials (`Dial`, `Open`, `Redial`), in
server mode UE5 connects and replaces the socket before (`Connection`).
`Break` and `OnClose` are two steps, because a socket's close event comes
after it left the open state, perhaps after its successor was installed.
`Send` writes or buffers; `Purge` is the timer armed by the first message that
waited; `Stop` clears both timers and terminates the socket.  Time is kept
relative, as what is left of a timer and the age of a message, so that the
state space is finite.  Whether the relay is `serverMode` is chosen in `Init`.

### ReplayPlayer (replay.ts)

`row` is the row of `replay_sessions`, `session[c]` the copy `active.session`
of a connection, `current` the connection whose object `activeReplays` holds.
Controls come over REST (they act on the row) or over a socket (they act on
its copy, which is then replaced by the row).  `Tick` is `tickReplay` for any
elapsed time; `Leave` and `OnClose` are separate; `Restart` loses everything
but the row and the events.  Nothing keeps a second connection from a replay:
`Connect` replaces what the map holds, and a late `OnClose` empties it, so a
connection can lose its entry while its timer runs.  `crossed` is history: the
connections that were ever attached (open, or not yet known to be closed)
together with another.  What a connection is sent is exact for them too; that
its timer stops with its session is not, and `TimerOnlyWhilePlaying` and the
second half of `PlaybackStops` say so by leaving them out.

### ReplayIngest (ingest.ts, db/repository.ts, timeline.ts)

One request at a time (SQLite's calls are synchronous): `Post` opens `job`, the
locals of the handler; `Ensure`, `Store`, `Count`, `Finalise` and `Bookmark`
are its statements for one swarm of the batch, in the order of the `Map` the
batch is grouped into; `Answer` is the 201.  `Fail` is a statement that throws
or a process that dies, and leaves the loops of `Finalise` and `Bookmark` at any
of their iterations.  What the handler does with a batch it does at places of
the batch, as one event may be in it twice.  `sent` and `acked` are history:
the copies posted and the events answered 201.  `QueryTimeline` and
`MetricsSummary` are what readers are shown.

### SwarmRunner (swarm_runner.py, swarm_agents.py)

One run, as runs share no state.  `Init` chooses the plan the planner makes
from a custom list or from hints in the task; the actions are the skip, start,
completion, failure, retry and end of a step, and the end of the run.  An emit
either returns or raises *after* its event was published (`EmitRaising`),
which is what `publish_event` does when Redis fails.  An emit inside the `try`
that raises leads to the `except` clause; one outside it aborts the run.

### MetaPipeline (meta_client.py, services/meta-agent)

Backend: `Dispatch` is `dispatch_to_meta` up to its first await (debounce,
rate window, semaphore), `Receive`/`Handle`/`CallFails` the rest.  Sidecar:
`Arrive` (body limit, token, rate limiter), `Analyzed`, `Upsert` or
`UpsertFails` per insight, `Reply`, `Restart`.  A request outlives the
dispatch that gave up on it.  The upserts are synchronous in the sidecar's
event loop, so no other request moves while one is storing (`LoopFree`).

### PublishPipeline and EventJournal (main.py:100-267, observability/)

`publish_event` of each task as a program counter over its suspensions: the
gate decision, the event, the broadcast, rollup and state, Redis, the state in
the graph, the anomalies, the trace registration, the retry_logic decision.
Each write to the graph succeeds, fails without effect or fails with effect,
and a failure makes the repository unavailable until a restart
(`repository.py:161`).  `EventJournal` is what this promises to viewers, in
three actions: a record is kept after the decision behind it, shown at most
once and after the event it is about, and shown only if it is kept when the
connected database takes records of its type.  `PublishPipeline!Journal`
instantiates it with `open <- available`.

### The page: WsClient, ObsStore, Motion, GraphView, Browser

`WsClient` is the hook `useWebSocket` for one channel: all sockets it has
opened, of which the ref names the last, and its reconnection timers and ping
intervals, of which a ref names the last of each.  `ObsStore` is the store
(`useObservabilityStore.ts`, `truthRouter.ts`) as functions from one state to
the next: adding events, evicting the oldest traces and events, forgetting
stale ones, the history of runs, the lanes by provenance.  `Motion`
(`eventToMotionMapper.ts`) and `GraphView` (`graphEngine.ts`) are what events
make of the animation of a trace and of the graph.  `Browser` composes them: a
task is a message, a timer or a click, React runs the effects of a commit
before the next task, and a message waits to be rendered, so the next one may
come before.  Batches are folds (`FoldLeft`), as in the code.

### The other clients in a browser: Sdk, Viz, Panels

`Sdk` is `SwarmVisionClient`, its emitter and its connector, whose
reconnection timers nothing names.  `Viz` is the bridge between a mock and live
sockets, the store of rooms that listens from the load of the page on, and the
canvas that listens while it is mounted.  `Panels` are the agents' narration
and the diagnostics requests, whose effects run later than the store's changes
and see what is left.  `MCFrontend` runs `WsClient`, `Sdk`, `Viz` and the two
panels one at a time.

### The intelligence service

Its handlers are synchronous, so a step is one handler, but a crash may come
between two of its statements where they are not one transaction.
`Intelligence` composes the parts; each handler touches one, and a restart
empties what was in memory.

- `Swarms`: what requests name, and the operations on lists the handlers share.
- `Oversight`: approvals, reviews, operators, constraints, violations,
  policies, interventions, lineage; scores are percentages and an action kind is
  known by the key words its name includes.  The process may die between any
  two statements that are no transaction: a request, an amendment or an
  intervention and what goes with it, a review and the operator's totals, the
  violations of one evaluation, the rows a first start seeds, and the end of a
  policy and the insertion of its successor (`constitutional-memory.ts:76` and
  `:92`), which leaves a policy out of force that no other replaced and that
  nothing restores.
- `Governor`: `GovernanceEngine` and `decideEcosystem` with their cooldowns;
  time passes in units of 15 seconds.
- `CollectiveMemory`: sessions, lessons, edges and transfers; a session is
  ingested in one transaction, a transfer is not.
- `Civilization`: philosophy, structure and institutions in memory; eras and
  patterns in SQLite with the open era of each swarm remembered in memory.
- `Planetary`: treaties, councils, negotiations, resolutions, pools, threats.
- `Analysis`, `Insight`: detectors, scores, the summary, the graph, the digital
  twin over windows of events that grow.  `AnalyzeSchema` (`server.ts:116`)
  takes any order of events and any integer offset, nothing sorts them, and the
  client of the repository posts its recent events in the order of a priority
  queue (`SwarmIntelligenceSubsystem.cpp:58`): so a course may send events late,
  before the swarm began or of negative duration, and one of the run does.
  What holds of such windows is half of what holds of sorted ones (`Entails`):
  the detectors of cascades, late handoffs and stalls miss nothing, that of
  loops and the graph's pairs invent nothing.  The other halves, and that the
  twin without retries is accused of nothing new, need `InOrder`; the run's
  disordered course breaks each of them without it.
- `Emergence`, `LongHorizon`, `Learning`: who works with whom, coherence, the
  history of runs, trends, patterns and the plan made of them.
- `Evolution`: the loop that breeds genomes, with what it draws at random.

## 3. The runs

`PROJECT.json` has a sentence on each; the bounds are these.

| run | expectation | bounds | why they are enough |
|---|---|---|---|
| `ws_concurrent` | holds | 2 clients, 2 tenants, 1 channel, 2 broadcasts, authentication on; either all clients may see everything and both broadcasts run, or clients are of any tenant and only the first does | two broadcasts and an endpoint can each remove the same client, and one client stands in front of the other; tenant, other tenant, none and super admin all occur |
| `ws_reach` | violated | 3 clients, 1 broadcast, authentication off | one to suspend on, one to leave before it, one to be skipped |
| `ue5_relay` | holds | 2 sockets, buffer 2, TTL 2, retry 1, 4 messages, both modes | a replaced socket and its successor; the buffer overflows, is flushed and purged with messages of different age |
| `replay_service` | holds | player: 2 connections, in turn or overlapping, 4 events whose times are out of order, one of them stored during the run, rates 1 and 2, 3 controls or restarts, 2 time units a tick; ingestion: 2 swarms, 5 events, 5 batches, 3 posts | a reconnection before and after the old close event, seeks before and behind, a restart, an event stored before, during and after a connection; batches of one and of both swarms, with two ends in one batch, overlapping and equal batches; a retry after a failure and another post |
| `replay_reconnect` | violated | the same, rate 1, 1 control | one connection to leave, one to reconnect |
| `swarm_run` | holds | default, hinted and custom plans, 1 or 3 items, 2 store failures | skip, unknown agent, missing input, two quality steps, a failure in any emit, twice |
| `meta_pipeline` | holds | 2 dispatches, 1 trace, 2 keys, 1 slot, rate 1, limiter 1, gap 3, window 1, times 0..3 | each limit is reached and a second analysis repeats a key |
| `publish_pipeline` | holds | 2 tasks, 1 agent, 2 posts, with Redis | both posts may be one task's or one of each; with and without an agent; every failure anywhere |
| `browser` | holds | 1 socket, retry limit 1, scripts of 3 events over 2 traces, room for 2 events, 1 trace, 1 index and 2 buffered, 1 snapshot of an old run, 1 message waiting, 1 click after the mount (disconnect is one), answer or snapshot | every store overflows, a run's failure and its end, a trace that replaces another, handoffs with and without an index |
| `frontend` | holds | 3 sockets and links, retry limits 2, 3 clicks and calls that connect and any number that disconnect, 2 clicks on Live and 2 timers of the views, 2 requests, 4 events of which 3 are kept, 2 and 3 narrated at once; the last click on Live only without a canvas, and the diagnostics panel sees only the latest of the events it looks at | a socket, its successor and theirs; a burst longer than what is narrated and than what is kept |
| `intelligence` | holds | one part at a time, 3 rows of a table, 1 death, 2 civilizations of 3 profiles, 3 eras, 2 lives, times 0..4, 3 decisions, 3 sessions, 1 transfer, 1 crash, 6 analyses of which 1 is repeated, 2 readings; 3 generations of 4 genomes, 2 of them elite, patience 2 | a record before, in and after a crash; a cooldown that passes and one that does not; an era that stays open over a restart; a swarm analysed again; a course of events out of order |
| `coherence` | violated | the same constants, the part `Learning` alone | a bad run and then a good one |

`CHECK_DEADLOCK FALSE` stands where the system may come to rest: all clients
left, all connections used, the run over, the relay stopped or the bound on
messages, clicks or controls reached.

### What the violated runs show

- `ws_reach`: `broadcast` removes nothing itself while it loops, but other
  coroutines do; the client behind a removed one is skipped
  (`manager.py:156`) although `manager.py:133` says the message goes "to all
  connected clients".  `MissedOnlyByShift`, proved for any number of clients,
  shows that this is the only way to be missed.
- `replay_reconnect`: the close handler of a socket clears the timer and the
  entry of whatever connection `activeReplays` holds (`replay.ts:183`), the
  successor of its own included; the viewer that reconnected then sends `play`
  and nothing starts, although `infra/deployment-topology.md:92` describes just
  that exchange.  `PlayStartsAlone`, proved for any number of connections,
  shows that this takes two connections attached at the same time.
- `coherence`: `computeCoherence` expects the history of health "newest last"
  (`coherence-modeler.ts:17`) and weighs the last most, "recency-weighted"
  (`:183`); both routes hand over `memory.getHistory(20)` (`server.ts:473`),
  which is newest first (`operational-memory.ts:71`), so the newest run weighs
  least.

### Fairness

- WsManager: a coroutine that can run, runs; a hanging send is ended by the
  server's ping deadline, and `receive_text` raises once the peer is gone.
  Nobody has to connect, leave or publish.
- Ue5Relay: time passes, timers fire, close events arrive.  UE5 need not ever
  connect and `Stop` need not ever come.
- ReplayPlayer: interval timers fire while they exist and close events arrive.
- MetaPipeline: httpx ends each wait with an answer or its timeout, and the
  callback's broadcasts return.  Nothing is assumed of the sidecar.
- WsClient: timers fire, a connecting socket opens or closes, a closing one
  closes.  The other end may refuse for ever.
- SwarmRunner: an emit returns or raises.  PublishPipeline: worker threads
  return and both databases answer or time out.

All of it is weak fairness of actions that nothing else in the system can hold
off.  ReplayIngest, Browser and Intelligence state none: their runs check
safety, and requests and messages need not come.

## 4. The proofs

TLAPS checks these for every value of the constants allowed by the named
assumptions of the modules (`NoneAssumption`, `BoundsAssumption`, ...), which
TLC evaluates in every run.

| module | theorem | states |
|---|---|---|
| BackendProofs, of WsManager | `ManagerTypeCorrect`, `RegistryConsistent`, `NoDuplicateDelivery`, `TenantsIsolated`, `DeliveryExact` | `ManagerTypeOK`, `RegistryAgrees`, `AtMostOnce`, `TenantIsolation`, `DeliveredOnce` |
| Ue5RelayProofs | `TypeCorrect`, `OneUe5`, `NothingStuck`, `NoStaleReplay`, `OrderKept`, `StreamOrdered`, `Stopped`, `AllAccounted` | `TypeOK`, `OneInstance`, `WaitsOnlyWhileDown`, `NothingStale`, `InOrder`, `OneOrderedStream`, `StopIsFinal`, `Accounted` |
| ReplayServiceProofs, of ReplayPlayer | `TypeCorrect`, `NoGapNoRepeat`, `OnlyPastSkipped`, `NoneMissed`, `TimerWhilePlaying`, `PlaybackIsExact`, `PlayStartsPlayback` | `TypeOK`, `Contiguous`, `SkipsOnlyPast`, `NothingSkipped`, `TimerOnlyWhilePlaying`, `PlaybackExact`, `PlayStartsAlone` |
| ReplayServiceProofs, of ReplayIngest | `IngestTypeCorrect`, `CountersAlwaysTrue`, `EndAlwaysAnEvents` | `IngestTypeOK`, `CountersTrue`, `EndIsAnEvents` |
| BackendProofs, of SwarmRunner | `TypeCorrect`, `ReportMatchesEvents`, `OneEnding`, `EventsTell`, `PlanHolds`, `RunsPublishInOrder` | `TypeOK`, `ReportAgrees`, `EndsOnce`, `EventsTellRun`, `PlanFollowed`, `PublishedInOrder` |
| BackendProofs, of MetaPipeline | `MetaTypeCorrect`, `SlotsNeverLeak`, `DispatchRate`, `UntrustedRate`, `TraceGapKept`, `LimitsHold`, `RowsAccounted` | `MetaTypeOK`, `SlotsAccounted`, `RateBounded`, `LimiterBounded`, `TraceSpaced`, `DispatchesLimited`, `InsightsAccounted` |
| PublishPipelineProofs | `TypeCorrect`, `JournalImplemented`, `LineageKept`, `StatesSettle` | `TypeOK`, `ImplementsJournal`, `LineageIntact`, `SoleWriterSettles` |
| IntelligenceProofs | `RecordsAlwaysAgree`, `VerdictsAlwaysStand`, `HistoryAlwaysAgrees`, `WithheldAlwaysOrdered`, `GraphAlwaysWhole`, `SelectionAlwaysWorks`, `MemoryAlwaysFollows`; with at most 500 names a request also `FederationAlwaysServes` | `RecordsAgree`, `VerdictsStand`, `HistoryAgrees`, `WithheldWasOrdered`, `GraphWhole`, `SelectionWorks`, `MemoryFollowsSwarms`; `FederationServes` |
| AnalysisProofs | `AnalysisAlwaysExact` | `AnalysisExact` |
| FrontendProofs, of Browser | `StoreAlwaysConsistent`, `RunsAlwaysSettle`, `HandoffsAlwaysAccounted`; of scripts with `RunsInOrder` also `ViewsAlwaysAgree` | `StoreConsistent`, `RunsSettle`, `HandoffsAccounted`; `ViewsAgree` |
| FrontendProofs, of MCFrontend | `OnlyClicksMultiplyAlways`, `PicturesAlwaysAgree`, `WorkAlwaysEnds`, `NothingEverMissed`, `DetailAlwaysFits` | `OnlyClicksMultiply`, `PicturesAgree`, `WorkEnds`, `NothingMissedOutsideBursts`, `DetailFits` |

Type correctness is proved and not among the properties of the runs.  None of
the properties is inductive alone.  What is added, and why:

- **WsManager**, `IInv`: a client is registered exactly while its endpoint is
  welcoming or serving (`SessionInv`), so `Append` never duplicates an entry;
  metadata carry the tenant the client authenticated with (`IdentityInv`), so
  the filter of the loop decides tenant isolation; no client at or behind the
  iterator has been sent this message (`CursorInv`), which removal preserves
  because it moves clients forward, never back.  That last fact rests on
  `WithoutFacts`, about what `list.remove` leaves.  For what is missed,
  `DInv`: while nobody was removed in front of its iterator, a broadcast has
  reached everyone it owes the message, or they are ahead of it (`CoverInv`).
- **Ue5Relay**, `IInv`: before start and after stop nothing is live or armed
  (`LifeInv`); client mode has at most one socket in use and redials only when
  all are closed (`DialInv`), which is why a late close event cannot forget a
  successor; a buffered message's age plus what is left of the purge timer is
  at most the TTL (`AgeInv`).  `AccInv` adds where every message went: what
  waits was not dropped before, so that a drop is a new one.
- **ReplayPlayer**, `IInv`: what an open connection was sent is the run of
  events ending at its index, and only events before its last offset lie in
  front of that run (`SentInv`); `current` is a connection that has not closed
  (`CurrentInv`); a connection that never crossed another is, while attached,
  the only one and the one in the map (`AloneInv`), so that no close event but
  its own can take its entry.  Connections overlap freely in these proofs.
  `ViewerInv` carries what a viewer has seen over its connections: neither the
  row nor an open session is at a position from which a reconnection would skip
  an event unseen.
- **ReplayIngest**, `CountInv`: there are two sets of posted copies, one that
  was counted and one that was bookmarked, which the rows and the bookmarks
  tally (`Tallied`), and which of the batch in hand belong to them follows from
  how far the handler is (`Handled`).  The counters alone are not inductive:
  that an event counted once in excess of `stored` is a repeated copy, and not
  another event's, needs the sets.  The upper bounds follow as the sets are of
  copies posted, the lower bounds as every acknowledged event has a copy in
  them, and exactness as posted once makes events and copies one to one.
- **SwarmRunner**, `TypeInv` and `RunInv`: at each program point the counts of
  results and of published events differ by what that point still owes.
  `LineageInv`: the next parent is the last event or one that has a successor,
  and the other events without one are those whose emit raised.  `PlanInv`: the
  queue is what is left of the retry path and then of the plan.  `OrderInv`:
  nothing is said of a step before one was started, and a run that failed has
  not completed, from which `RunsPublishInOrder` follows.
- **MetaPipeline**, `RatesInv`: the window holds the last passes, in order and
  not later than now, and `last` holds the latest pass of every trace.
  `AccountInv`: how far a request has come says how much of what it found may
  be stored, also after its dispatch gave up on it.
- **PublishPipeline**, `TypeInv` and `JournalInv`: what each task has kept and
  shown at each of its suspensions (`TaskInv`), and that the numbers of posts
  tell the records of different publications apart.  `JournalInit` and
  `StepMaps` are the two halves of the refinement.  `LineageInv`: a task's
  context holds at most the last event it registered, one step back.
  `SettleInv`: as long as one task alone publishes for an agent, what it is
  about to write is what the memory holds.
- **Intelligence**: one invariant per part, as a handler touches one.
  `OversightInv` ties every record to the row it was made from and allows a
  crash one unfinished record: an intervention without its policy, a request or
  an amendment without its explanation, or a policy that was ended without a
  successor (`EndedByEnacting`: enacting another never adds one,
  `EndedByEnding`: a crash adds at most one).  `CivilizationInv`: the era remembered open is
  the latest of its swarm, and no pattern has recurred more often than eras
  with it have ended (`LessonsLearnt`).  `GovernorInv`: each memory holds
  exactly when its governor last considered what is in it.  `CollectiveInv`:
  no lesson is of a session to come, so an original of the next is new; an edge
  to a lesson that was only reinforced violates a foreign key and undoes the
  whole session.  `PlanetaryInv`: the weights of a sound council add up to its
  quorum (`CouncilsCarry`), which is fixed on founding and holds since a weight
  loses at most half a thousandth by rounding (`Founding`); what treaties do to
  the reports is no matter of steps, each report being monotone in the treaties
  in force.  `EvolutionInv`: of the genomes evaluated so far and the population
  at work, each stems from one of the generation before that was among its
  fittest (`Descends`), and none is fitter than the fittest of the population, which is the first to
  go on (`KeepsTheBest`; `RankPlaces` says what sorting returns).  `LearningInv`: the rows of the
  history are those of the last analyses of the swarms, in the order of these
  analyses (`Remembered`); the rows alone do not say how often and in which order
  the swarms were analysed.  That a trend agrees with time compares sums over two
  halves of the rows, which the proofs bound (`SumBounds`).
- **Analysis**, `InsightInv`: the window is a list of events, in any order, and
  an answer is told of the window as it is.  That is all a step needs
  (`EventsGoOn`, for a burst); the work is to say of a report, for any window,
  what is in it, and in the lemmas that need it (`OrderIs`) what else is when
  its events are in the order of their times.  Lists first: what is taken from a list at some places (`AtIs`),
  put in a row (`JoinedIs`), ranked (`RankedIs`) or listed once (`ListedIs`).
  Then each detector: the search for loops, whose window slides on after a find,
  reports an agent exactly if three of its retries are near each other
  (`LoopsAre`, along the states the search passes through, `LoopsSearched`);
  silence, late handoffs and cascades likewise (`StallsAre`, `DelaysAre`,
  `CascadeIs`), each in two halves of which one needs the order; and the others only add reports of other kinds, of which those
  left by `Deduplicated` stand for all (`BottlenecksAre`, `IncidentsAre`).  The
  search of the knowledge graph stops at the first anomaly too far, and in the
  order of time those behind it are farther still (`ReachesIs`, `LinksAre`).
  For the twin, an accusation is a condition on the places of an agent's events
  (`AccusesIs`), and taking some retries away leaves fewer of each: fewer retries,
  at a share that is not higher, and no streak of retries that was not one before
  (`FewerFlips`: to a streak goes the one it was part of, and to different
  streaks different ones).
- **Frontend**, `FrontInv`, one part per client as a step is of one.  The bounds
  on connections are inductive with the types alone (`WsInv`).  How often a
  subscriber is called is not (`TellingInv`): what an event may still be told
  of, once per socket that has it and once for the answer, fits into what is
  left of its bound, and an event that was not sent is in no inbox.  `VizInv`:
  before anything live the mock and the store have everyone in the same room,
  and a figure has at least as many timers left that end its work as such that
  begin it, one more while it works (`Fits`).  The panels: ids in the store's
  list grow with their places (`OrderInv`), so that what is newer than the
  cursor stands at the end; while bursts are small, the map covers every event
  up to its cursor and the others are among those that came since its effect
  ran (`SeenInv`); unless the detail is to be set again, what loads is of the
  selection (`DetailInv`).
- **Browser**, `PageInv`: `Whole` says what the indices of the store are to each
  other, `Sized` that the limits hold.  `StoreConsistent` follows from both and is
  not inductive: `evictOldestEvents` and the cleanup keep what the order keeps, so
  the order must hold exactly the events, and every event its trace and its lane,
  before the cut (`Enlisted`, `TracesOf`, `Laned`).  Each function of the store
  has its lemma (`AddedWhole`, `EventsEvicted`, `TracesEvicted`, `CleanedUp`,
  `ApiRunIs`, `SelectedWhole`, `ToggledWhole`), and a batch and what is kept of a
  list are followed event by event (`AddedPasses`, `KeepPasses`).  `EndsKept`: an
  end that was received is lost, buffered, or told to the history of runs, where
  it stays (`ToldEnded`).  `DrawnInv`: the events that wait for the graph are
  neither drawn nor twice among them (`Fresh`, as the effect takes them from an
  order without repetitions), so that each turn of the loop is given a handoff
  for the first time and draws it or lets it wait (`AccountedStep`); one that
  waited is taken up by the resolution once (`ResolvedStep`).  `StraightInv`: as
  long as nothing was lost and messages came one by one, buffer and queue hold
  the messages in the order of the script, the animation of a trace shows every
  end that went through the queue, and the history every end that went through
  the buffer, unless an answer of the API told it first.  It rests on the order
  in which a run's events are published (`RunsInOrder`): an animation takes no
  notice of an end before its first step, and would take up a step after its
  end.  `RunsPublishInOrder` proves that order of the backend.

**FoldFacts** is what several of these rest on and knows nothing of the program:
the set of numbers, or of parts of a finite set, for which a fact holds is
everything when it has the least and is closed under one more (`NumbersByStep`,
`SetInduction`, from the well-foundedness of the numbers).  From these follow
what a sum over a set is (`SumPlus`) and that a fold over a sequence passes
through one value per element (`PassesThrough`, `Foldable`), which is how
batches are reasoned about without induction over operators.

The assumptions are what the code guarantees or the theorems are conditional
on, as said here: `None` is no number or id, limits
are positive, batches and plans are sequences and no batch is empty
(`BatchAssumption`: the route's schema requires an event), lists that handlers
read have each member once where the code makes them so (`ListsAssumption`,
`LessonsAssumption`: both use `IsList`), and the bounds of the models are
numbers, the operations views have at least two rooms, and requests, traces
and agents have different names.  Scores of civilizations are hundredths between
0 and 1 and their tiers are four (`ProfilesAssumption`: the schema of the
federation's route requires both).  An event names a node for its step
(`StepAssumption`); the scripts of the `browser` run are in the order runs
publish in (`InOrderAssumption`); an evolution has at least one elite genome and
no more than its population, and two to eight generations
(`EvolutionAssumption`: the limits of `orchestration-evolver.ts`).  The events of
a swarm are records with an integer offset, in any order
(`InsightAssumption`: no more than `AnalyzeSchema` requires).

Each proof of an invariant has one lemma per action; the safety theorems follow
from the invariant by temporal logic, and the action properties `StopIsFinal`
and `PlayStarts` from the invariant and the step.

Model-checked only is liveness (`BroadcastReturns`, `BufferDrains`,
`PlaybackStops`, `SlotsReturn`, `Recovers`): the prover does not handle `ENABLED`
and fairness.  Every safety property of a passing run is a theorem, some on the
conditions the table names, which hold in that run.

The prover expands neither `@@` nor `SelectSeq` nor `SortSeq`, and the library's
induction theorems take an operator, which it cannot instantiate.  Where a proof
needs a part of a list or a sorted one, the specification says which list that is
(`At` and `Ranked` of `Swarms`, every place of the latter found by `PlaceByRank`).

## 5. What is not modelled

- **Data without control**: heuristics of the sidecar, layouts, translation of
  fields, formatting, schemas, texts and labels.
- **Parts without ordering hazards**: pulse emitter, ledger, diagnostics and
  enforcement, analytics, control plane, scrape API, deployment; commands,
  copilot, trust, enterprise twin and streams of the intelligence service;
  planetary twin, global simulation, civilization twin, consciousness,
  discovery and meta-strategy, all functions of one request.
- **Agent registry**: two dictionaries changed in single turns of the event
  loop.  One registry serves all sessions, so a registration replaces another
  session's agent of the same id (`agent_registry.py:77`).
- **Panels** that only render what stores hold.  `useAnalytics` and
  `SwarmSimPanel` are mounted nowhere.
- **Retention pruning** in the sidecar runs on a scale of days; `Restart` and
  the requests run on seconds.  **Latencies** are not measured in
  PublishPipeline: any event may show a latency spike.
- **The relay's `/intervention` endpoint**, which the intelligence service
  dials, does not exist in the source.
- **TRIGGERED relationships**: the decision of the control plane is stored
  before its event, so its related event is not found (`repository.py:241`).
- **Traces over several requests**: two requests with the same `x-trace-id`
  number their steps independently (`trace.py:36`); LineageIntact speaks of one
  task.

Facts about the code met on the way, which no property here is about: weights
of a council are rounded to thousandths, so that 2001 equal members weigh
nothing together and a unanimous resolution fails
(`federated-governance.ts:161`); a
command is reported not accepted after 5 s although the relay may have taken it
(`intervention-handler.ts:59`); the time of a trace's last dispatch is never
forgotten (`meta_client.py:75`); an exception ends the loop of the metrics
stream (`main.py:267`); a replay holds the first 50 000 events of a swarm
(`replay.ts:140`); `CommanderPanel` takes the oldest five events for the newest
(`CommanderPanel.tsx:239`); a collapse of throughput is never detected, as the
halves of a window are compared by their number of events
(`incident-detector.ts:194`); a plan's expected fitness may be below the current
one (`long-horizon-advisor.ts:171`).

## 6. Plan

Done: every module above with its runs, and the proofs of section 4.

Left, specification: what ReplayIngest promises, as a batch applied once per attempt, for it to
implement; the panels that read the timelines of the services.
