------------------------------ MODULE WsManager ------------------------------
(***************************************************************************)
(* The backend's WebSocketManager (apps/backend/app/websocket/manager.py)  *)
(* and the endpoint coroutines of main.py that use it.                     *)
(*                                                                         *)
(* Everything runs on one asyncio loop: a step of this module is the code  *)
(* between two suspension points.  broadcast iterates the LIVE list of the *)
(* channel and suspends in send_text, so other coroutines append to and    *)
(* remove from that list under the iterator.                               *)
(***************************************************************************)
EXTENDS Naturals, Sequences, FiniteSets, Functions

CONSTANTS
  Client,        \* WebSocket objects; an endpoint coroutine serves each
  Channel,       \* the keys of active_connections
  Tenant,        \* tenant ids
  None,          \* an absent tenant_id
  Task,          \* broadcast calls, each carrying a message of its own
  AuthDisabled   \* auth_disabled()

ASSUME NoneAssumption == None \notin Tenant
ASSUME AuthAssumption == AuthDisabled \in BOOLEAN
\* The welcome message is none of the broadcast ones.
ASSUME WelcomeAssumption == "welcome" \notin Task

VARIABLES
  active,     \* active_connections: a list of clients per channel
  metadata,   \* connection_metadata: a partial function on clients
  total,      \* total_events_broadcast
  session,    \* where the endpoint coroutine of a client stands
  up,         \* the peer of a client still reads its socket
  inbox,      \* history: what was written to the socket of a client
  context,       \* history: the AuthContext a client connected with
  bc          \* broadcast calls: local variables of each

managerVars == <<active, metadata, total, session, up, inbox, context, bc>>

(* authenticate_websocket gives no context while authentication is off. *)
Auth == IF AuthDisabled THEN [tenant : {None}, super : {FALSE}]
                        ELSE [tenant : Tenant \cup {None}, super : BOOLEAN]
Entry == [channel : Channel, tenant : Tenant \cup {None}, super : BOOLEAN,
          received : Nat]
Broadcast == [pc : {"idle", "sending", "done"}, channel : Channel,
              tenant : Tenant \cup {None}, i : Nat \ {0}, to : Client \cup {None},
              failed : SUBSET Client, audience : SUBSET Client,
              shifted : BOOLEAN]

Registered == DOMAIN metadata

-----------------------------------------------------------------------------
(* list.remove for every member of S, the rest keeping its order. *)
Remaining(l, S) == {k \in DOMAIN l : l[k] \notin S}
Rank(K, k) == Cardinality(K \cap 1..k)
Without(l, S) ==
  LET K == Remaining(l, S)
  IN  [n \in 1..Cardinality(K) |-> l[CHOOSE k \in K : Rank(K, k) = n]]

(* disconnect() of every member of S: out of the lists and the metadata. *)
ListsWithout(S) == [ch \in Channel |-> Without(active[ch], S)]

MetadataWithout(md, S) == [c \in DOMAIN md \ S |-> md[c]]

(* A removal in front of an iterator moves the clients behind it forward. *)
MarkShift(B, S) ==
  [b \in Task |->
     [B[b] EXCEPT !.shifted =
        @ \/ /\ B[b].pc = "sending"
             /\ \E k \in DOMAIN active[B[b].channel] :
                  k < B[b].i /\ active[B[b].channel][k] \in S]]

(* Mutation of MayReceive: messages without a tenant are not dropped. *)
MayReceiveUntenanted(md, c, t) ==
  \/ AuthDisabled
  \/ c \in DOMAIN md /\ md[c].super
  \/ c \in DOMAIN md /\ md[c].tenant = t

(* The filter of the loop of broadcast: who may get a message of tenant t. *)
MayReceive(md, c, t) ==
  \/ AuthDisabled
  \/ c \in DOMAIN md /\ md[c].super
  \/ t # None /\ c \in DOMAIN md /\ md[c].tenant = t

Write(c, m) ==
  inbox' = IF up[c] THEN [inbox EXCEPT ![c] = Append(@, m)] ELSE inbox

-----------------------------------------------------------------------------
ManagerInit ==
  /\ active = [ch \in Channel |-> <<>>]
  /\ metadata = [c \in {} |-> {}]
  /\ total = 0
  /\ session = [c \in Client |-> "new"]
  /\ up = [c \in Client |-> TRUE]
  /\ inbox = [c \in Client |-> <<>>]
  /\ context \in [Client -> Auth]
  /\ bc \in [Task -> [pc : {"idle"}, channel : Channel,
                      tenant : Tenant \cup {None}, i : {1}, to : {None},
                      failed : {{}}, audience : {{}}, shifted : {FALSE}]]

(* connect appends the client to the list of the channel and stores its    *)
(* metadata.                                                               *)
Register(c, ch, tenant) ==
  /\ session[c] = "new"
  /\ session' = [session EXCEPT ![c] = "welcoming"]
  /\ active' = [active EXCEPT ![ch] = Append(@, c)]
  /\ metadata' = [d \in DOMAIN metadata \cup {c} |->
                    IF d = c THEN [channel |-> ch, tenant |-> tenant,
                                   super |-> context[c].super, received |-> 0]
                             ELSE metadata[d]]
  /\ UNCHANGED <<total, up, context, bc>>

(* The request is authenticated and accept() returned: connect registers   *)
(* the client and starts to send the welcome message, all before it        *)
(* suspends again.  A request that fails either leaves no trace.           *)
Connect(c, ch) == Register(c, ch, context[c].tenant) /\ Write(c, "welcome")

(* send_text(welcome) returned or raised; connect swallows the exception. *)
Welcomed(c) ==
  /\ session[c] = "welcoming"
  /\ session' = [session EXCEPT ![c] = "serving"]
  /\ UNCHANGED <<active, metadata, total, up, inbox, context, bc>>

(* receive_text raised, because the peer is gone or sent a frame that is   *)
(* not text: the except clause of the endpoint disconnects.                *)
Leave(c) ==
  /\ session[c] = "serving"
  /\ session' = [session EXCEPT ![c] = "closed"]
  /\ active' = ListsWithout({c})
  /\ metadata' = MetadataWithout(metadata, {c})
  /\ bc' = MarkShift(bc, {c})
  /\ UNCHANGED <<total, up, inbox, context>>

(* The peer closes, crashes or misses the server's ping deadline. *)
PeerDrops(c) ==
  /\ session[c] \in {"welcoming", "serving"}
  /\ up[c]
  /\ up' = [up EXCEPT ![c] = FALSE]
  /\ UNCHANGED <<active, metadata, total, session, inbox, context, bc>>

-----------------------------------------------------------------------------
(* The for loop of broadcast from index i on: it skips to the next client  *)
(* of the list that may receive the message and suspends in send_text, or  *)
(* it is exhausted, disconnects the clients whose send failed and counts.  *)
Eligible(l, md, i, t) == {k \in i..Len(l) : MayReceive(md, l[k], t)}

SendTo(b, B, md, k) ==
  LET c == active[B.channel][k]
  IN  /\ bc' = [bc EXCEPT ![b] = [B EXCEPT !.pc = "sending", !.i = k + 1,
                                           !.to = c]]
      /\ Write(c, b)
      /\ metadata' = md
      /\ UNCHANGED <<active, total>>

(* Mutation of FinishBroadcast: failed clients lose only their metadata. *)
FinishKeepingLists(b, B, md) ==
  /\ bc' = [bc EXCEPT ![b] = [B EXCEPT !.pc = "done"]]
  /\ metadata' = MetadataWithout(md, B.failed)
  /\ total' = total + 1
  /\ UNCHANGED <<inbox, active>>

FinishBroadcast(b, B, md) ==
  /\ bc' = MarkShift([bc EXCEPT ![b] = [B EXCEPT !.pc = "done"]], B.failed)
  /\ active' = ListsWithout(B.failed)
  /\ metadata' = MetadataWithout(md, B.failed)
  /\ total' = total + 1
  /\ UNCHANGED inbox

(* Mutation of Advance: the end is tested by equality. *)
AdvanceToExactEnd(b, B, md) ==
  LET next == Eligible(active[B.channel], md, B.i, B.tenant)
  IN  \/ \E k \in next : /\ \A j \in next : k <= j
                         /\ SendTo(b, B, md, k)
      \/ B.i = Len(active[B.channel]) + 1 /\ FinishBroadcast(b, B, md)

Advance(b, B, md) ==
  LET next == Eligible(active[B.channel], md, B.i, B.tenant)
  IN  \/ \E k \in next : /\ \A j \in next : k <= j
                         /\ SendTo(b, B, md, k)
      \/ next = {} /\ FinishBroadcast(b, B, md)

Start(b) ==
  /\ bc[b].pc = "idle"
  /\ active[bc[b].channel] # <<>>
  /\ Advance(b, [bc[b] EXCEPT !.audience = Range(active[bc[b].channel])],
             metadata)
  /\ UNCHANGED <<session, up, context>>

(* No connection on the channel: broadcast returns and counts nothing. *)
StartEmpty(b) ==
  /\ bc[b].pc = "idle"
  /\ active[bc[b].channel] = <<>>
  /\ bc' = [bc EXCEPT ![b].pc = "done"]
  /\ UNCHANGED <<active, metadata, total, session, up, inbox, context>>

(* send_text returned: the entry is counted if it is still there. *)
Sent(b) ==
  /\ bc[b].pc = "sending"
  /\ LET c == bc[b].to
     IN  Advance(b, bc[b],
                 [d \in DOMAIN metadata |->
                    IF d = c THEN [metadata[d] EXCEPT !.received = @ + 1]
                             ELSE metadata[d]])
  /\ UNCHANGED <<session, up, context>>

(* Mutation of SendFailed: a failed send ends the loop. *)
SendFailedEndsLoop(b) ==
  /\ bc[b].pc = "sending"
  /\ ~up[bc[b].to] \/ session[bc[b].to] = "closed"
  /\ FinishBroadcast(b, [bc[b] EXCEPT !.failed = @ \cup {bc[b].to}], metadata)
  /\ UNCHANGED <<session, up, context>>

(* send_text raised: the peer is gone or the endpoint closed the socket. *)
SendFailed(b) ==
  /\ bc[b].pc = "sending"
  /\ ~up[bc[b].to] \/ session[bc[b].to] = "closed"
  /\ Advance(b, [bc[b] EXCEPT !.failed = @ \cup {bc[b].to}], metadata)
  /\ UNCHANGED <<session, up, context>>

-----------------------------------------------------------------------------
ManagerNext ==
  \/ \E c \in Client : \/ Welcomed(c) \/ Leave(c) \/ PeerDrops(c)
                       \/ \E ch \in Channel : Connect(c, ch)
  \/ \E b \in Task : Start(b) \/ StartEmpty(b) \/ Sent(b) \/ SendFailed(b)

(* The loop runs every ready coroutine; a send that hangs is ended by the  *)
(* ping deadline of the server, and receive_text raises once the peer is   *)
(* gone.  Nobody has to connect, to leave or to publish.                   *)
ManagerFairness ==
  /\ \A c \in Client : WF_managerVars(Welcomed(c)) /\ WF_managerVars(~up[c] /\ Leave(c))
  /\ \A b \in Task : WF_managerVars(Sent(b) \/ SendFailed(b))

ManagerSpec == ManagerInit /\ [][ManagerNext]_managerVars /\ ManagerFairness

-----------------------------------------------------------------------------
(* The variables hold values of their types. *)
ManagerTypeOK ==
  /\ active \in [Channel -> Seq(Client)]
  /\ Registered \subseteq Client
  /\ metadata \in [Registered -> Entry]
  /\ total \in Nat
  /\ session \in [Client -> {"new", "welcoming", "serving", "closed"}]
  /\ up \in [Client -> BOOLEAN]
  /\ inbox \in [Client -> Seq(Task \cup {"welcome"})]
  /\ context \in [Client -> Auth]
  /\ bc \in [Task -> Broadcast]

(* The channel lists and connection_metadata describe the same clients: a  *)
(* client sits at one place of one list exactly while it has an entry for  *)
(* that channel, whatever order broadcast's clean-up and the endpoint's    *)
(* own disconnect remove it in.                                            *)
RegistryAgrees ==
  /\ \A ch \in Channel : \A k \in DOMAIN active[ch] :
       /\ active[ch][k] \in Registered
       /\ metadata[active[ch][k]].channel = ch
       /\ \A j \in DOMAIN active[ch] : active[ch][j] = active[ch][k] => j = k
  /\ \A c \in Registered : c \in Range(active[metadata[c].channel])

(* No client receives the message of one broadcast twice, although the     *)
(* list changes under the iterator.                                        *)
AtMostOnce ==
  \A c \in Client : \A j, k \in DOMAIN inbox[c] :
     inbox[c][j] = inbox[c][k] => j = k

(* With authentication on, a client that is not a super admin is sent      *)
(* only messages of the tenant it authenticated for.                       *)
TenantIsolation ==
  \A c \in Client : \A k \in DOMAIN inbox[c] :
     LET m == inbox[c][k]
     IN  m \in Task /\ ~AuthDisabled /\ ~context[c].super
           => bc[m].tenant # None /\ bc[m].tenant = context[c].tenant

Owed(b) == {c \in bc[b].audience : /\ c \in Registered /\ up[c]
                                   /\ MayReceive(metadata, c, bc[b].tenant)}
Reached(b) == {c \in Client : b \in Range(inbox[c])}

(* A finished broadcast misses a client that was connected all along only  *)
(* if somebody before the iterator was removed while it was suspended.     *)
MissedOnlyByShift ==
  \A b \in Task : bc[b].pc = "done" /\ ~bc[b].shifted => Owed(b) \subseteq Reached(b)

(* A broadcast reaches every client it should exactly once, although the   *)
(* list changes under the iterator, but for those it shifted past.         *)
DeliveredOnce == AtMostOnce /\ MissedOnlyByShift

(* "Broadcast a message to all connected clients for a channel."           *)
ReachesAllConnected ==
  \A b \in Task : bc[b].pc = "done" => Owed(b) \subseteq Reached(b)

(* Every broadcast that suspended in a send eventually returns. *)
BroadcastReturns ==
  \A b \in Task : bc[b].pc = "sending" ~> bc[b].pc = "done"
=============================================================================
