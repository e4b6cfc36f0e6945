-------------------------------- MODULE Sdk ---------------------------------
(* The client of packages/sdk in an application: SwarmVisionClient with its *)
(* emitter, and the WebSocketConnector with the sockets it has opened, of   *)
(* which this.ws names the last, its reconnection timers, which nothing     *)
(* names, and its ping interval. The backend accepts, refuses or closes a   *)
(* socket at any time, and sends what is published to those that are open.  *)
EXTENDS Integers, FiniteSets

CONSTANTS
  Link,       \* the WebSockets; one that has closed may be opened anew
  NoLink,
  MaxRetries, \* config.reconnectAttempts
  SdkEvent,      \* what may be published, once each
  Tenant,
  NoTenant,
  MaxCalls    \* bound on calls of connect and disconnect

ASSUME SdkAssumption ==
  /\ NoLink \notin Link /\ NoTenant \notin Tenant /\ IsFiniteSet(Link)
  /\ MaxRetries \in Nat /\ MaxCalls \in Nat

VARIABLES
  link,       \* readyState of every socket
  ws,         \* this.ws
  retries,    \* this.reconnectAttempts
  waiting,    \* reconnection timers that are pending
  manual,     \* isManuallyDisconnected
  pings,      \* this.pingInterval is set
  tenant,     \* tenantId of the client
  filter,     \* the tenant of the one subscription: any for NoTenant, "none" without a subscription
  published,  \* the tenant of every event that was published, by anyone
  asking,     \* events whose publishEvent awaits the answer
  sent,       \* events that the backend has sent to all
  inbox,      \* messages that are on their way to each socket
  told,       \* history: how often a subscriber was called for each event
  calls       \* history: calls of connect, and of disconnect

sdkVars == <<link, ws, retries, waiting, manual, pings, tenant, filter, published, asking, sent, inbox, told, calls>>
socketVars == <<link, ws, retries, waiting, manual, pings>>
eventVars == <<tenant, filter, published, asking, sent, inbox, told>>

SdkInit ==
  /\ link = [l \in Link |-> "closed"] /\ ws = NoLink
  /\ retries = 0 /\ waiting = 0 /\ manual = FALSE /\ pings = FALSE
  /\ tenant = NoTenant /\ filter = "none"
  /\ published = <<>> /\ asking = {} /\ sent = {} /\ inbox = [l \in Link |-> {}]
  /\ told = [e \in SdkEvent |-> 0]
  /\ calls = [connect |-> 0, disconnect |-> 0]

-----------------------------------------------------------------------------
(* WebSocketConnector *)

\* A new socket takes the place of another, which is not closed.
NewSocket ==
  \E l \in Link :
    /\ link[l] = "closed" /\ \A k \in Link : link[k] = "closed" => l <= k
    /\ link' = [link EXCEPT ![l] = "connecting"] /\ ws' = l

SdkConnect ==
  /\ calls.connect + calls.disconnect < MaxCalls /\ calls' = [calls EXCEPT !.connect = @ + 1]
  /\ NewSocket
  /\ UNCHANGED <<retries, waiting, manual, pings, eventVars>>

SdkReconnect ==
  /\ waiting > 0 /\ waiting' = waiting - 1
  /\ NewSocket
  /\ UNCHANGED <<retries, manual, pings, eventVars, calls>>

SdkOnOpen(l) ==
  /\ link[l] = "connecting" /\ link' = [link EXCEPT ![l] = "open"]
  /\ manual' = FALSE /\ retries' = 0 /\ pings' = TRUE
  /\ UNCHANGED <<ws, waiting, eventVars, calls>>

\* A socket that fails has a timer for the error and one for its end.
SdkOnCloseAndError(l) ==
  /\ link[l] # "closed" /\ link' = [link EXCEPT ![l] = "closed"]
  /\ inbox' = [inbox EXCEPT ![l] = {}]
  /\ pings' = FALSE
  /\ IF ~manual /\ retries < MaxRetries
     THEN retries' = retries + 1 /\ waiting' = waiting + (IF link[l] = "connecting" THEN 2 ELSE 1)
     ELSE UNCHANGED <<retries, waiting>>
  /\ UNCHANGED <<ws, manual, tenant, filter, published, asking, sent, told, calls>>

\* The end of any socket, refused, closed or cut, stops the interval that is named.
SdkOnClose(l) ==
  /\ link[l] # "closed" /\ link' = [link EXCEPT ![l] = "closed"]
  /\ inbox' = [inbox EXCEPT ![l] = {}]
  /\ pings' = FALSE
  /\ IF ~manual /\ retries < MaxRetries
     THEN retries' = retries + 1 /\ waiting' = waiting + 1
     ELSE UNCHANGED <<retries, waiting>>
  /\ UNCHANGED <<ws, manual, tenant, filter, published, asking, sent, told, calls>>

\* Listeners go, timers stay. A socket that was closed before is closed again, to no effect.
SdkDisconnect ==
  /\ calls.connect + calls.disconnect < MaxCalls /\ calls' = [calls EXCEPT !.disconnect = @ + 1]
  /\ manual' = TRUE /\ pings' = FALSE /\ filter' = "none" /\ ws' = NoLink
  /\ link' = [l \in Link |-> IF l = ws /\ link[l] # "closed" THEN "closing" ELSE link[l]]
  /\ UNCHANGED <<retries, waiting, tenant, published, asking, sent, inbox, told>>

-----------------------------------------------------------------------------
(* SwarmVisionClient *)

SdkSubscribe(t) == filter = "none" /\ filter' = t /\ UNCHANGED <<socketVars, tenant, published, asking, sent, inbox, told, calls>>
SdkUnsubscribe == filter # "none" /\ filter' = "none" /\ UNCHANGED <<socketVars, tenant, published, asking, sent, inbox, told, calls>>
SdkSetTenant(t) == tenant # t /\ tenant' = t /\ UNCHANGED <<socketVars, filter, published, asking, sent, inbox, told, calls>>

Emitted(e) ==
  told' = IF filter \in {NoTenant, published[e]} THEN [told EXCEPT ![e] = @ + 1] ELSE told

SdkOnMessage(l, e) ==
  /\ link[l] = "open" /\ e \in inbox[l]
  /\ inbox' = [inbox EXCEPT ![l] = @ \ {e}] /\ Emitted(e)
  /\ UNCHANGED <<socketVars, tenant, filter, published, asking, sent, calls>>

\* The event is sent with the tenant of the moment, unless it names one.
PublishEvent(e) ==
  /\ e \notin DOMAIN published
  /\ published' = [x \in DOMAIN published \cup {e} |-> IF x = e THEN tenant ELSE published[x]]
  /\ asking' = asking \cup {e}
  /\ UNCHANGED <<socketVars, tenant, filter, sent, inbox, told, calls>>

\* The backend sends the event before it answers, to this client as well.
Broadcast(e) ==
  /\ e \in asking \ sent /\ sent' = sent \cup {e}
  /\ inbox' = [l \in Link |-> IF link[l] = "open" THEN inbox[l] \cup {e} ELSE inbox[l]]
  /\ UNCHANGED <<socketVars, tenant, filter, published, asking, told, calls>>

\* The answer has the event, which is emitted here as well; or it is an error.
PublishAnswered(e) ==
  /\ e \in asking /\ asking' = asking \ {e}
  /\ (e \in sent /\ Emitted(e)) \/ UNCHANGED told
  /\ UNCHANGED <<socketVars, tenant, filter, published, sent, inbox, calls>>

\* Somebody else publishes an event, of any tenant.
SdkReceives(e, t) ==
  /\ e \notin DOMAIN published /\ sent' = sent \cup {e}
  /\ published' = [x \in DOMAIN published \cup {e} |-> IF x = e THEN t ELSE published[x]]
  /\ inbox' = [l \in Link |-> IF link[l] = "open" THEN inbox[l] \cup {e} ELSE inbox[l]]
  /\ UNCHANGED <<socketVars, tenant, filter, asking, told, calls>>

Tenants == Tenant \cup {NoTenant}

SdkNext ==
  \/ SdkConnect \/ SdkReconnect \/ SdkDisconnect \/ SdkUnsubscribe
  \/ \E l \in Link : SdkOnOpen(l) \/ SdkOnClose(l) \/ \E e \in SdkEvent : SdkOnMessage(l, e)
  \/ \E t \in Tenants : SdkSubscribe(t) \/ SdkSetTenant(t)
  \/ \E e \in SdkEvent : PublishEvent(e) \/ Broadcast(e) \/ PublishAnswered(e) \/ \E t \in Tenants : SdkReceives(e, t)

-----------------------------------------------------------------------------
(* Properties *)

\* Only the application multiplies connections: sockets that live or close and
\* timers that will open one are no more than its calls of connect, though the
\* timers outlive a disconnect and a socket that opens forgets that there was one.
LinksBounded ==
  Cardinality({l \in Link : link[l] # "closed"}) + waiting <= calls.connect

\* A subscriber is called for an event once for the answer to publishEvent and
\* once for each connection the application has asked for, never more often:
\* reconnections do not add listeners, nor do sockets that were replaced.
ToldPerConnection == \A e \in SdkEvent : told[e] <= calls.connect + 1

=============================================================================
