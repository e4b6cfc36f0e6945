---------------------------- MODULE ReplayPlayer ----------------------------
(***************************************************************************)
(* Playback of one replay in the replay service (services/replay-service/  *)
(* src/replay.ts): its row in the database, an object per WebSocket        *)
(* connection, the map activeReplays that holds the object of the last     *)
(* connection, controls over REST and WebSocket, and the playback tick.    *)
(* A position is an offset from the start of the swarm.                    *)
(***************************************************************************)
EXTENDS Integers, Sequences, FiniteSetsExt

CONSTANTS
  Conn,         \* connections to /replay/ws/:replay_id, each used once
  None,         \* no connection
  At,           \* offsets of the swarm's events, in order of sequence
  AtConnect,    \* events stored before the first connection
  Rates,        \* playback rates a viewer asks for
  Targets,      \* positions a viewer seeks
  MaxElapsed,   \* bound of the model: time between two ticks
  MaxControls   \* bound of the model: controls and restarts

ASSUME NoneAssumption == None \notin Conn
ASSUME AtAssumption == At \in Seq(Nat) /\ AtConnect \in 0..Len(At)
ASSUME RateAssumption == Rates \subseteq Nat \ {0} /\ Targets \subseteq Nat
ASSUME BoundsAssumption == MaxElapsed \in Nat \ {0} /\ MaxControls \in Nat

VARIABLES
  row,       \* the replay_sessions row: position, rate and is_paused
  stored,    \* events of the swarm stored so far
  conn,      \* the socket of every connection
  session,   \* active.session of every connection
  events,    \* number of events preloaded by the connection
  index,     \* active.eventIndex, from 1
  ticking,   \* the connection's interval timer runs
  current,   \* the connection whose object activeReplays holds
  controls,  \* controls and restarts so far
  got,       \* history: events sent on the connection since its last seek
  from,      \* history: the offset the connection was last positioned at
  seen,      \* history: events sent on any connection
  sought,    \* history: the furthest offset ever sought
  crossed    \* history: connections that were attached while another was

vars == <<row, stored, conn, session, events, index, ticking, current,
          controls, got, from, seen, sought, crossed>>

Session == [position : Nat, rate : Nat, paused : BOOLEAN]

(* Mutation of SeekIndex: the event at the offset itself is skipped. *)
SeekIndexStrict(n, offset) == Min({k \in 1..n : At[k] > offset} \cup {n + 1})

(* seekToOffset: the first of n events at or after an offset, or past all. *)
SeekIndex(n, offset) == Min({k \in 1..n : At[k] >= offset} \cup {n + 1})

(* Mutation of DrainIndex: the position alone decides where playback stands. *)
DrainIndexRestarting(n, i, position) == Min({k \in 1..n : At[k] > position} \cup {n + 1})

(* The first event from i on, of n, that is not due at a position.         *)
DrainIndex(n, i, position) == Min({k \in i..n : At[k] > position} \cup {n + 1})

Init ==
  /\ row = [position |-> 0, rate |-> 1, paused |-> TRUE]
  /\ stored = AtConnect
  /\ conn = [c \in Conn |-> "new"]
  /\ session = [c \in Conn |-> row]
  /\ events = [c \in Conn |-> 0]
  /\ index = [c \in Conn |-> 1]
  /\ ticking = [c \in Conn |-> FALSE]
  /\ current = None
  /\ controls = 0
  /\ got = [c \in Conn |-> <<>>]
  /\ from = [c \in Conn |-> 0]
  /\ seen = {}
  /\ sought = 0
  /\ crossed = {}

-----------------------------------------------------------------------------
(* The service counts a connection until it learns that the peer left.     *)
Attached == {"open", "closing"}

(* A connection takes the row, preloads the events, seeks the persisted    *)
(* position and replaces whatever object the map holds, that of another    *)
(* viewer or of the socket this viewer had before included.                *)
Connect(c) ==
  /\ conn[c] = "new"
  /\ conn' = [conn EXCEPT ![c] = "open"]
  /\ session' = [session EXCEPT ![c] = row]
  /\ events' = [events EXCEPT ![c] = stored]
  /\ index' = [index EXCEPT ![c] = IF row.position > 0
                                     THEN SeekIndex(stored, row.position) ELSE 1]
  /\ current' = c
  /\ from' = [from EXCEPT ![c] = row.position]
  /\ LET others == {d \in Conn : conn[d] \in Attached}
     IN crossed' = IF others = {} THEN crossed ELSE crossed \cup others \cup {c}
  /\ UNCHANGED <<row, stored, ticking, controls, got, seen, sought>>

-----------------------------------------------------------------------------
(* applyControl(s, ...): each control writes the row from the session s of *)
(* its caller and acts on the object in the map, if there is one.          *)
Persist(position, rate, paused) ==
  row' = [position |-> position, rate |-> rate, paused |-> paused]

Playing(s) ==
  /\ Persist(s.position, s.rate, FALSE)
  /\ ticking' = [c \in Conn |-> ticking[c] \/ c = current]
  /\ UNCHANGED <<index, got, from, sought>>

Paused(s) ==
  /\ Persist(s.position, s.rate, TRUE)
  /\ ticking' = [c \in Conn |-> ticking[c] /\ c # current]
  /\ UNCHANGED <<index, got, from, sought>>

Sought(s, target) ==
  /\ Persist(target, s.rate, TRUE)
  /\ ticking' = [c \in Conn |-> ticking[c] /\ c # current]
  /\ index' = [c \in Conn |-> IF c = current THEN SeekIndex(events[c], target)
                                             ELSE index[c]]
  /\ got' = [c \in Conn |-> IF c = current THEN <<>> ELSE got[c]]
  /\ from' = [c \in Conn |-> IF c = current THEN target ELSE from[c]]
  /\ sought' = Max({sought, target})

Rated(s, rate) ==
  /\ Persist(s.position, rate, s.paused)
  /\ UNCHANGED <<ticking, index, got, from, sought>>

(* A bookmark is a row of another table.                                   *)
Bookmarked == UNCHANGED <<row, ticking, index, got, from, sought>>

(* What a control does to the session of the object in the map.            *)
Control == [action : {"play", "pause", "bookmark"}]
             \cup [action : {"seek"}, target : Targets]
             \cup [action : {"set_rate"}, rate : Rates]

Held(ctrl, s) ==
  CASE ctrl.action = "play"     -> [s EXCEPT !.paused = FALSE]
    [] ctrl.action = "pause"    -> [s EXCEPT !.paused = TRUE]
    [] ctrl.action = "seek"     -> [s EXCEPT !.paused = TRUE, !.position = ctrl.target]
    [] ctrl.action = "set_rate" -> [s EXCEPT !.rate = ctrl.rate]
    [] OTHER                    -> s

Apply(ctrl, s) ==
  \/ ctrl.action = "play" /\ Playing(s)
  \/ ctrl.action = "pause" /\ Paused(s)
  \/ ctrl.action = "seek" /\ Sought(s, ctrl.target)
  \/ ctrl.action = "set_rate" /\ Rated(s, ctrl.rate)
  \/ ctrl.action = "bookmark" /\ Bookmarked

Counted == controls < MaxControls /\ controls' = controls + 1

(* A control over REST reads the session from the row.                     *)
RestControl(ctrl) ==
  /\ Counted
  /\ Apply(ctrl, row)
  /\ session' = [c \in Conn |-> IF c = current THEN Held(ctrl, session[c])
                                               ELSE session[c]]
  /\ UNCHANGED <<stored, conn, events, current, seen, crossed>>

(* A control over a socket passes the session of its own object, then      *)
(* replaces it with the row.                                               *)
WsControl(c, ctrl) ==
  /\ conn[c] = "open"
  /\ Counted
  /\ Apply(ctrl, session[c])
  /\ session' = [d \in Conn |-> IF d = c THEN row'
                                ELSE IF d = current THEN Held(ctrl, session[d])
                                ELSE session[d]]
  /\ UNCHANGED <<stored, conn, events, current, seen, crossed>>

-----------------------------------------------------------------------------
(* Mutation of Tick: the position is the time since the last tick. *)
TickNotAccumulating(c) ==
  /\ ticking[c] /\ ~session[c].paused
  /\ \E elapsed \in 1..MaxElapsed :
       LET position == elapsed * session[c].rate
           next == DrainIndex(events[c], index[c], position)
           ended == next > events[c]
       IN  /\ session' = [session EXCEPT ![c].position = position,
                                         ![c].paused = ended]
           /\ index' = [index EXCEPT ![c] = next]
           /\ ticking' = [ticking EXCEPT ![c] = ~ended]
  /\ UNCHANGED <<row, stored, conn, events, current, controls, got, from,
                 seen, sought, crossed>>

(* tickReplay: the position moves on, the events that became due are sent  *)
(* if the socket is open, and the replay ends with its last event.         *)
Tick(c) ==
  /\ ticking[c] /\ ~session[c].paused
  /\ \E elapsed \in 1..MaxElapsed :
       LET position == session[c].position + elapsed * session[c].rate
           next == DrainIndex(events[c], index[c], position)
           batch == index[c]..(next - 1)
           ended == next > events[c]
       IN  /\ session' = [session EXCEPT ![c].position = position,
                                         ![c].paused = ended]
           /\ index' = [index EXCEPT ![c] = next]
           /\ ticking' = [ticking EXCEPT ![c] = ~ended]
           /\ IF conn[c] = "open"
                THEN /\ got' = [got EXCEPT ![c] =
                                  @ \o [k \in 1..(next - index[c]) |-> index[c] + k - 1]]
                     /\ seen' = seen \cup batch
                ELSE UNCHANGED <<got, seen>>
  /\ UNCHANGED <<row, stored, conn, events, current, controls, from,
                 sought, crossed>>

(* The peer leaves; the service learns of it with the close event.         *)
Leave(c) ==
  /\ conn[c] = "open"
  /\ conn' = [conn EXCEPT ![c] = "closing"]
  /\ UNCHANGED <<row, stored, session, events, index, ticking, current,
                 controls, got, from, seen, sought, crossed>>

(* The close handler clears the timer of the object in the map, whichever  *)
(* connection's it is, and empties the map.                                *)
OnClose(c) ==
  /\ conn[c] = "closing"
  /\ conn' = [conn EXCEPT ![c] = "closed"]
  /\ ticking' = [d \in Conn |-> ticking[d] /\ d # current]
  /\ current' = None
  /\ UNCHANGED <<row, stored, session, events, index, controls, got, from,
                 seen, sought, crossed>>

(* The service restarts: sockets, timers and the map are gone.             *)
Restart ==
  /\ Counted
  /\ conn' = [c \in Conn |-> IF conn[c] = "new" THEN "new" ELSE "closed"]
  /\ ticking' = [c \in Conn |-> FALSE]
  /\ current' = None
  /\ UNCHANGED <<row, stored, session, events, index, got, from, seen,
                 sought, crossed>>

(* The swarm still runs: its next event is stored.                         *)
Ingest ==
  /\ stored < Len(At)
  /\ stored' = stored + 1
  /\ UNCHANGED <<row, conn, session, events, index, ticking, current,
                 controls, got, from, seen, sought, crossed>>

-----------------------------------------------------------------------------
Next ==
  \/ Ingest \/ Restart
  \/ \E ctrl \in Control : RestControl(ctrl)
  \/ \E c \in Conn : \/ Connect(c) \/ Tick(c) \/ Leave(c) \/ OnClose(c)
                     \/ \E ctrl \in Control : WsControl(c, ctrl)

(* Interval timers fire and close events arrive.                           *)
Fairness == \A c \in Conn : WF_vars(Tick(c)) /\ WF_vars(OnClose(c))

Spec == Init /\ [][Next]_vars /\ Fairness

-----------------------------------------------------------------------------
(* The variables hold values of their types; indices stay in range.        *)
TypeOK ==
  /\ row \in Session
  /\ stored \in 0..Len(At)
  /\ conn \in [Conn -> {"new", "open", "closing", "closed"}]
  /\ session \in [Conn -> Session]
  /\ events \in [Conn -> 0..Len(At)]
  /\ index \in [Conn -> 1..(Len(At) + 1)]
  /\ \A c \in Conn : index[c] <= events[c] + 1
  /\ ticking \in [Conn -> BOOLEAN]
  /\ current \in Conn \cup {None}
  /\ controls \in 0..MaxControls
  /\ got \in [Conn -> Seq(1..Len(At))]
  /\ from \in [Conn -> Nat]
  /\ seen \subseteq 1..Len(At)
  /\ sought \in Nat
  /\ crossed \subseteq Conn

(* Since its last seek a connection was sent a run of events without gaps  *)
(* or repeats, up to where its playback stands.                            *)
Contiguous ==
  \A c \in Conn : \A k \in DOMAIN got[c] :
     /\ k < Len(got[c]) => got[c][k + 1] = got[c][k] + 1
     /\ k = Len(got[c]) /\ conn[c] = "open" => got[c][k] = index[c] - 1

(* Playback skips nothing but events before the offset it was positioned   *)
(* at.                                                                     *)
SkipsOnlyPast ==
  \A c \in Conn : conn[c] = "open" =>
     \A k \in 1..(index[c] - 1) :
        At[k] < from[c] \/ \E j \in DOMAIN got[c] : got[c][j] = k

(* Across reconnections and restarts the viewer misses no event that was   *)
(* stored when it first connected except those it sought past; an event    *)
(* stored later may lie before the position it reconnects at.              *)
NothingSkipped ==
  \A c \in Conn : conn[c] = "open" =>
     \A k \in 1..(index[c] - 1) : k <= AtConnect => k \in seen \/ At[k] < sought

(* A timer runs only while the session of its connection and the row are   *)
(* playing, for a connection that was never attached together with another. *)
(* A crossed one may lose its entry in the map while its timer runs: nothing *)
(* it is told reaches that timer any longer.                               *)
TimerOnlyWhilePlaying ==
  \A c \in Conn \ crossed : ticking[c] => c = current /\ ~session[c].paused /\ ~row.paused

(* A connection is sent every event from where it was positioned to where  *)
(* it stands, in order and once each, whatever other connections there are, *)
(* and, when there are none, only while its session plays.                 *)
PlaybackExact == Contiguous /\ SkipsOnlyPast /\ TimerOnlyWhilePlaying

Play == [action |-> "play"]

(* infra/deployment-topology.md:92: "Send { action: "play" }, Receive      *)
(* { type: "events" }": a viewer that asks to play, when it is the only one *)
(* connected, has its playback running.                                    *)
PlayStarts ==
  [][\A c \in Conn :
       WsControl(c, Play) /\ (\A d \in Conn \ {c} : conn[d] \notin Attached) => ticking'[c]]_vars

(* The same of a viewer whose connection never crossed another.            *)
PlayStartsAlone == [][\A c \in Conn \ crossed : WsControl(c, Play) => ticking'[c]]_vars

(* Every session that plays comes to a stop, at the end or before, also on *)
(* a timer that nothing names any longer; and but for crossed connections  *)
(* every timer is cleared.                                                 *)
PlaybackStops ==
  \A c \in Conn :
    /\ (ticking[c] /\ ~session[c].paused) ~> (~ticking[c] \/ session[c].paused)
    /\ ticking[c] ~> (~ticking[c] \/ c \in crossed)
=============================================================================
