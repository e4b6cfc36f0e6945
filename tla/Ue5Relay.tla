------------------------------ MODULE Ue5Relay ------------------------------
(***************************************************************************)
(* The UE5 side of the event relay (services/event-relay/src/ue5Client.ts):*)
(* the socket to UE5, dialled or accepted, the buffer of messages that     *)
(* wait for it and the two timers.  Time is relative: a timer holds what   *)
(* is left of it, a buffered message its age, both in ticks.               *)
(***************************************************************************)
EXTENDS Integers, Sequences, FiniteSets

CONSTANTS
  Conn,        \* socket objects; a closed one is reused for a later socket
  None,        \* no socket, no timer
  MaxBuffer,   \* MAX_BUFFER
  Ttl,         \* config.ue5BufferTtlMs
  Retry,       \* config.reconnectIntervalMs
  MaxMsg       \* bound of the model: messages sent

ASSUME NoneAssumption == None \notin Conn /\ None \notin Nat
ASSUME BoundsAssumption == /\ MaxBuffer \in Nat \ {0} /\ Ttl \in Nat \ {0}
                           /\ Retry \in Nat \ {0} /\ MaxMsg \in Nat

VARIABLES
  serverMode, \* UE5_MODE = "server": UE5 connects to the relay
  started,    \* start() was called
  destroyed,  \* stop() was called
  socket,     \* this.socket
  state,      \* readyState of every socket object
  buffer,     \* this.buffer: messages with their age
  purge,      \* bufferPurgeTimer: ticks left
  reconnect,  \* reconnectTimer: ticks left
  sent,       \* messages handed to send() so far; a message is its number
  written,    \* history: messages handed to a socket, with their age then
  lost        \* history: messages dropped, with their age and the reason

vars == <<serverMode, started, destroyed, socket, state, buffer, purge, reconnect,
          sent, written, lost>>

Msg == [id : Nat, age : Nat]
Timer(max) == (0..max) \cup {None}
Unused == {c \in Conn : state[c] \in {"new", "closed"}}
IsOpen == socket # None /\ state[socket] = "open"

Init ==
  /\ serverMode \in BOOLEAN
  /\ started = FALSE
  /\ destroyed = FALSE
  /\ socket = None
  /\ state = [c \in Conn |-> "new"]
  /\ buffer = <<>>
  /\ purge = None
  /\ reconnect = None
  /\ sent = 0
  /\ written = <<>>
  /\ lost = {}

-----------------------------------------------------------------------------
(* terminate(): the socket is closing until its close event. *)
Terminated(s) ==
  IF s # None /\ state[s] \in {"connecting", "open"}
    THEN [state EXCEPT ![s] = "closing"] ELSE state

(* Mutation of FlushBuffer: the buffer is sent newest first. *)
FlushBufferBackwards ==
  /\ written' = written \o [k \in 1..Len(buffer) |-> buffer[Len(buffer) + 1 - k]]
  /\ buffer' = <<>>
  /\ purge' = None

(* Mutation of FlushBuffer: the messages are sent and kept. *)
FlushBufferCopying ==
  /\ written' = written \o buffer
  /\ purge' = None
  /\ UNCHANGED buffer

(* flushBuffer: the purge timer is cleared and the whole buffer is sent. *)
FlushBuffer ==
  /\ written' = written \o buffer
  /\ buffer' = <<>>
  /\ purge' = None

(* connectClient: the new socket replaces this.socket before it is open. *)
Dial(c) ==
  /\ c \in Unused
  /\ state' = [state EXCEPT ![c] = "connecting"]
  /\ socket' = c

Start ==
  /\ ~started
  /\ started' = TRUE
  /\ IF serverMode THEN UNCHANGED <<socket, state>> ELSE \E c \in Conn : Dial(c)
  /\ UNCHANGED <<serverMode, destroyed, buffer, purge, reconnect, sent, written, lost>>

(* Server mode: UE5 connects; the socket it replaces is terminated.  *)
Connection(c) ==
  /\ serverMode /\ started /\ ~destroyed
  /\ c \in Unused
  /\ state' = [Terminated(socket) EXCEPT ![c] = "open"]
  /\ socket' = c
  /\ FlushBuffer
  /\ UNCHANGED <<serverMode, started, destroyed, reconnect, sent, lost>>

(* Client mode: the handshake succeeded. *)
Open(c) ==
  /\ ~serverMode
  /\ state[c] = "connecting"
  /\ state' = [state EXCEPT ![c] = "open"]
  /\ FlushBuffer
  /\ UNCHANGED <<serverMode, started, destroyed, socket, reconnect, sent, lost>>

(* The peer closes, crashes or refuses: the socket is closing. *)
Break(c) ==
  /\ state[c] \in {"connecting", "open"}
  /\ state' = [state EXCEPT ![c] = "closing"]
  /\ UNCHANGED <<serverMode, started, destroyed, socket, buffer, purge, reconnect,
                 sent, written, lost>>

(* The close event: only the current socket is forgotten, and in client    *)
(* mode scheduleReconnect arms the timer unless stopped or armed.          *)
OnClose(c) ==
  /\ state[c] = "closing"
  /\ state' = [state EXCEPT ![c] = "closed"]
  /\ socket' = IF socket = c THEN None ELSE socket
  /\ reconnect' = IF serverMode \/ destroyed \/ reconnect # None THEN reconnect
                                                                ELSE Retry
  /\ UNCHANGED <<serverMode, started, destroyed, buffer, purge, sent, written, lost>>

Redial ==
  /\ reconnect = 0
  /\ reconnect' = None
  /\ \E c \in Conn : Dial(c)
  /\ UNCHANGED <<serverMode, started, destroyed, buffer, purge, sent, written, lost>>

-----------------------------------------------------------------------------
(* send while the socket is open. *)
SendNow ==
  /\ IsOpen
  /\ written' = Append(written, [id |-> sent + 1, age |-> 0])
  /\ UNCHANGED <<buffer, purge, lost>>

(* The buffer takes a message, at capacity in place of the oldest one. *)
Enqueue ==
  LET full == Len(buffer) >= MaxBuffer
  IN  /\ lost' = IF full THEN lost \cup {[msg |-> buffer[1], why |-> "full"]} ELSE lost
      /\ buffer' = Append(IF full THEN Tail(buffer) ELSE buffer,
                          [id |-> sent + 1, age |-> 0])

(* Mutation of SendLater: every message arms the timer anew. *)
SendLaterRearming ==
  /\ ~IsOpen
  /\ Enqueue
  /\ purge' = Ttl
  /\ UNCHANGED written

(* send while it is not: the first message to wait arms the purge timer. *)
SendLater ==
  /\ ~IsOpen
  /\ Enqueue
  /\ purge' = IF purge = None THEN Ttl ELSE purge
  /\ UNCHANGED written

(* The backend channels deliver messages between start() and stop(). *)
Send ==
  /\ started /\ ~destroyed
  /\ sent < MaxMsg
  /\ sent' = sent + 1
  /\ SendNow \/ SendLater
  /\ UNCHANGED <<serverMode, started, destroyed, socket, state, reconnect>>

(* Mutation of Purge: only the oldest message is dropped. *)
PurgeOldest ==
  /\ purge = 0
  /\ purge' = None
  /\ lost' = lost \cup {[msg |-> buffer[1], why |-> "ttl"]}
  /\ buffer' = Tail(buffer)
  /\ UNCHANGED <<serverMode, started, destroyed, socket, state, reconnect, sent, written>>

(* The purge timer fires: whatever is buffered is dropped. *)
Purge ==
  /\ purge = 0
  /\ purge' = None
  /\ lost' = lost \cup {[msg |-> buffer[k], why |-> "ttl"] : k \in DOMAIN buffer}
  /\ buffer' = <<>>
  /\ UNCHANGED <<serverMode, started, destroyed, socket, state, reconnect, sent, written>>

(* stop(): both timers are cleared and the socket is terminated. *)
Stop ==
  /\ started /\ ~destroyed
  /\ destroyed' = TRUE
  /\ state' = Terminated(socket)
  /\ purge' = None
  /\ reconnect' = None
  /\ UNCHANGED <<serverMode, started, socket, buffer, sent, written, lost>>

(* Time passes; a timer that is due fires first. *)
Less(t) == IF t = None THEN None ELSE t - 1
Tick ==
  /\ purge # 0 /\ reconnect # 0
  /\ purge # None \/ reconnect # None
  /\ purge' = Less(purge)
  /\ reconnect' = Less(reconnect)
  /\ buffer' = [k \in DOMAIN buffer |-> [buffer[k] EXCEPT !.age = @ + 1]]
  /\ UNCHANGED <<serverMode, started, destroyed, socket, state, sent, written, lost>>

-----------------------------------------------------------------------------
Next ==
  \/ Start \/ Stop \/ Send \/ Purge \/ Redial \/ Tick
  \/ \E c \in Conn : Connection(c) \/ Open(c) \/ Break(c) \/ OnClose(c)

(* Timers fire, close events arrive and stop() is the operator's choice.   *)
Fairness ==
  /\ WF_vars(Tick) /\ WF_vars(Purge) /\ WF_vars(Redial)
  /\ \A c \in Conn : WF_vars(OnClose(c))

Spec == Init /\ [][Next]_vars /\ Fairness

-----------------------------------------------------------------------------
(* The variables hold values of their types; the buffer keeps its bound. *)
TypeOK ==
  /\ serverMode \in BOOLEAN
  /\ started \in BOOLEAN /\ destroyed \in BOOLEAN
  /\ socket \in Conn \cup {None}
  /\ state \in [Conn -> {"new", "connecting", "open", "closing", "closed"}]
  /\ buffer \in Seq(Msg)
  /\ Len(buffer) <= MaxBuffer
  /\ purge \in Timer(Ttl)
  /\ reconnect \in Timer(Retry)
  /\ sent \in Nat
  /\ written \in Seq(Msg)
  /\ lost \subseteq [msg : Msg, why : {"full", "ttl"}]

(* "Only one UE5 instance at a time": a socket that is open is the current *)
(* one, whatever close events of replaced sockets are still to come.       *)
OneInstance == \A c \in Conn : state[c] \in {"connecting", "open"} => socket = c

(* Nothing waits behind an open socket, and what waits has a purge coming. *)
WaitsOnlyWhileDown ==
  buffer # <<>> => ~IsOpen /\ (purge # None \/ destroyed)

(* Messages reach UE5 in the order they were relayed, those still buffered *)
(* after all those written.                                                *)
InOrder ==
  LET all == written \o buffer
  IN  \A j, k \in DOMAIN all : j < k => all[j].id < all[k].id

(* UE5 sees one ordered stream: one instance is served, and while it is,   *)
(* nothing waits behind it; what waited was relayed before what follows.   *)
OneOrderedStream == OneInstance /\ WaitsOnlyWhileDown /\ InOrder

(* Every relayed message is written, waiting or dropped, and only one of   *)
(* the three.                                                              *)
Accounted ==
  LET Ids(s) == {s[k].id : k \in DOMAIN s}
      gone == {x.msg.id : x \in lost}
  IN  /\ Ids(written) \cup Ids(buffer) \cup gone = 1..sent
      /\ Len(written) + Len(buffer) + Cardinality(lost) = sent

(* "so stale events don't replay": UE5 gets no message older than the TTL. *)
NothingStale == \A k \in DOMAIN written : written[k].age <= Ttl

StopIsFinal ==
  [][destroyed => \A c \in Conn : state'[c] \in {"connecting", "open"}
                                    => state'[c] = state[c]]_vars

(* Nothing waits forever: it is sent, dropped or the relay stops. *)
BufferDrains == (buffer # <<>>) ~> (buffer = <<>> \/ destroyed)
=============================================================================
