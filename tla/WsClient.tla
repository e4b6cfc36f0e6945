------------------------------ MODULE WsClient ------------------------------
(***************************************************************************)
(* The useWebSocket hook of the dashboard (apps/frontend/src/hooks/        *)
(* useWebSocket.ts) for one channel: the sockets it has opened, of which   *)
(* the ref ws.current names the last, reconnection timers and ping         *)
(* intervals, of which a ref names the last of each, and the state the     *)
(* page is shown.  The other end accepts, refuses or closes a socket at    *)
(* any time.                                                               *)
(***************************************************************************)
EXTENDS Integers, FiniteSets

CONSTANTS
  Socket,     \* sockets; one that has closed may be opened anew
  NoSocket,
  Limit,      \* reconnectAttempts
  MaxClicks   \* bound of the model: mounts and clicks of connect

ASSUME SocketAssumption == NoSocket \notin Socket
ASSUME LimitAssumption == Limit \in Nat \ {0} /\ MaxClicks \in Nat
ASSUME PoolAssumption == IsFiniteSet(Socket) /\ MaxClicks <= Cardinality(Socket)

VARIABLES
  sock,       \* readyState of every socket
  current,    \* ws.current
  attempts,   \* reconnectAttemptsRef
  timer,      \* reconnectTimeoutRef names a timer that is pending
  loose,      \* pending reconnection timers the ref no longer names
  ping,       \* pingIntervalRef names an interval that runs
  leaked,     \* some ping interval runs that the ref does not name
  connected,  \* state.connected
  shown,      \* state.reconnectAttempts
  failed,     \* state.error says the attempts are used up
  clicks,     \* mounts and clicks of connect so far
  wanted      \* history: the page last asked to connect, not to disconnect

wsVars == <<sock, current, attempts, timer, loose, ping, leaked, connected,
            shown, failed, clicks, wanted>>

States == {"closed", "connecting", "open", "closing"}
Timers == loose + (IF timer THEN 1 ELSE 0)

WsInit ==
  /\ sock = [s \in Socket |-> "closed"]
  /\ current = NoSocket
  /\ attempts = 0
  /\ timer = FALSE /\ loose = 0
  /\ ping = FALSE /\ leaked = FALSE
  /\ connected = FALSE /\ shown = 0 /\ failed = FALSE
  /\ clicks = 0
  /\ wanted = FALSE

(* Mutation of Opened: whatever the state of the current socket.           *)
OpenedIfNone ==
  IF current # NoSocket THEN UNCHANGED <<sock, current>>
  ELSE LET s == CHOOSE x \in Socket : sock[x] = "closed"
       IN /\ sock[s] = "closed"
          /\ sock' = [sock EXCEPT ![s] = "connecting"]
          /\ current' = s

(* connect: nothing if the current socket is open; one that is connecting  *)
(* is replaced, not closed.                                                *)
Opened ==
  IF current # NoSocket /\ sock[current] = "open" THEN UNCHANGED <<sock, current>>
  ELSE LET s == CHOOSE x \in Socket : sock[x] = "closed"
       IN /\ sock[s] = "closed"
          /\ sock' = [sock EXCEPT ![s] = "connecting"]
          /\ current' = s

(* The page mounts, or the user clicks connect.                            *)
Connect ==
  /\ clicks < MaxClicks
  /\ clicks' = clicks + 1
  /\ Opened
  /\ wanted' = TRUE
  /\ UNCHANGED <<attempts, timer, loose, ping, leaked, connected, shown, failed>>

(* The page unmounts, or the user clicks disconnect: the timers the refs   *)
(* name are cleared and the current socket starts closing; its close       *)
(* handler stays.                                                          *)
Disconnect ==
  /\ timer' = FALSE /\ ping' = FALSE
  /\ sock' = IF current = NoSocket \/ sock[current] = "closed" THEN sock
             ELSE [sock EXCEPT ![current] = "closing"]
  /\ current' = NoSocket
  /\ connected' = FALSE /\ shown' = 0 /\ failed' = FALSE
  /\ wanted' = FALSE
  /\ UNCHANGED <<attempts, loose, leaked, clicks>>

(* onopen: the new ping interval takes the ref whatever it named.          *)
OnOpen(s) ==
  /\ sock[s] = "connecting"
  /\ sock' = [sock EXCEPT ![s] = "open"]
  /\ attempts' = 0
  /\ connected' = TRUE /\ shown' = 0 /\ failed' = FALSE
  /\ ping' = TRUE
  /\ leaked' = (leaked \/ ping)
  /\ UNCHANGED <<current, timer, loose, clicks, wanted>>

(* onclose of any socket, refused, closed or cut: the interval the ref     *)
(* names is cleared, whoever's it is, and a timer takes the other ref.     *)
OnClose(s) ==
  /\ sock[s] # "closed"
  /\ sock' = [sock EXCEPT ![s] = "closed"]
  /\ ping' = FALSE
  /\ connected' = FALSE
  /\ \/ /\ attempts < Limit
        /\ attempts' = attempts + 1 /\ shown' = attempts + 1 /\ timer' = TRUE
        /\ loose' = loose + (IF timer THEN 1 ELSE 0)
        /\ UNCHANGED failed
     \/ /\ attempts >= Limit
        /\ failed' = TRUE
        /\ UNCHANGED <<attempts, shown, timer, loose>>
  /\ UNCHANGED <<current, leaked, clicks, wanted>>

(* A reconnection timer fires, one the ref names or not.                   *)
TimerFires ==
  /\ \/ timer /\ timer' = FALSE /\ UNCHANGED loose
     \/ loose > 0 /\ loose' = loose - 1 /\ UNCHANGED timer
  /\ Opened
  /\ UNCHANGED <<attempts, ping, leaked, connected, shown, failed, clicks, wanted>>

WsNext ==
  \/ Connect \/ Disconnect \/ TimerFires
  \/ \E s \in Socket : OnOpen(s) \/ OnClose(s)

(* Timers fire; a socket that connects is accepted or refused, one that is *)
(* closing closes.                                                         *)
WsFairness ==
  /\ WF_wsVars(TimerFires)
  /\ \A s \in Socket : /\ WF_wsVars(sock[s] = "connecting" /\ (OnOpen(s) \/ OnClose(s)))
                       /\ WF_wsVars(sock[s] = "closing" /\ OnClose(s))

-----------------------------------------------------------------------------

(* Only mounts and clicks multiply connections: sockets that live or close *)
(* and timers that will open one are no more than the times the page asked *)
(* to connect, though timers escape the ref, sockets are replaced and the  *)
(* page disconnects as often as it likes.                                  *)
ConnectionsBounded ==
  Cardinality({s \in Socket : sock[s] # "closed"}) + Timers <= clicks

(* A page that wants a connection keeps getting one, or says that its      *)
(* attempts are used up: it never waits for a timer that nobody set, or    *)
(* that the hook has cleared (connect, onclose and disconnect).            *)
Recovers == []<>(wanted => failed \/ \E s \in Socket : sock[s] = "open")

=============================================================================
