--------------------------- MODULE FrontendProofs ---------------------------
(***************************************************************************)
(* Proofs about the clients of MCFrontend and about the page of Browser,   *)
(* for any sockets, events, agents, rooms, messages, requests and bounds:  *)
(* how many connections the three clients that reconnect can have, and how *)
(* often a subscriber is called; that the pictures of the operations views *)
(* agree and that work shown ends; what the map of agents misses, and      *)
(* whose detail is shown; that the store's indices tell one story, that a  *)
(* run whose end arrived is shown to be over, that the animation and the   *)
(* history agree on how it ended, and that the graph draws every handoff   *)
(* once or waits for its agents.                                           *)
(***************************************************************************)
EXTENDS MCFrontend, Browser, FoldFacts

-----------------------------------------------------------------------------
(* The page's sockets                                                      *)

Alive == {s \in Socket : sock[s] # "closed"}

WsInv ==
  /\ sock \in [Socket -> States]
  /\ loose \in Nat /\ clicks \in Nat
  /\ ConnectionsBounded

(* connect makes at most one socket live (connect of useWebSocket).        *)
LEMMA OpenedOne ==
  ASSUME sock \in [Socket -> States], Opened
  PROVE  /\ sock' \in [Socket -> States]
         /\ IsFiniteSet(Alive') /\ Cardinality(Alive') \in Nat
         /\ Cardinality(Alive') <= Cardinality(Alive) + 1
<1>1. PICK s : sock' = sock \/ sock' = [sock EXCEPT ![s] = "connecting"]
  BY DEF Opened
<1>2. sock' \in [Socket -> States] /\ Alive' \in SUBSET (Alive \cup {s})
  BY <1>1 DEF Alive, States
<1>3. IsFiniteSet(Alive)
  BY PoolAssumption, FS_Subset DEF Alive
<1>4. IsFiniteSet(Alive') /\ Cardinality(Alive') <= Cardinality(Alive) + 1
  BY <1>2, <1>3, OneMore
<1> QED
  BY <1>2, <1>4, FS_CardinalityType

(* The pending reconnection timers, with the one the ref names or without. *)
LEMMA TimersNamed ==
  ASSUME loose \in Nat
  PROVE  (timer /\ Timers = loose + 1) \/ (~timer /\ Timers = loose)
<1>1. timer => Timers = loose + 1
  BY Zenon DEF Timers
<1>2. ~timer => Timers = loose + 0
  BY Zenon DEF Timers
<1>3. loose + 0 = loose
  OBVIOUS
<1> QED
  BY <1>1, <1>2, <1>3, Zenon

LEMMA WsInitInv == WsInit => WsInv
<1> SUFFICES ASSUME WsInit PROVE WsInv
  OBVIOUS
<1>1. Alive = {} /\ Cardinality(Alive) = 0
  BY FS_EmptySet DEF WsInit, Alive
<1>2. loose = 0 /\ timer = FALSE /\ clicks = 0 /\ sock \in [Socket -> States]
  BY DEF WsInit, States
<1>3. ~timer
  BY <1>2, Zenon
<1>4. Timers = 0
  BY <1>2, <1>3, TimersNamed, Zenon
<1>5. Cardinality(Alive) + Timers <= clicks
  BY <1>1, <1>2, <1>4
<1> QED
  BY <1>2, <1>3, <1>5 DEF WsInv, ConnectionsBounded, Alive

LEMMA WsNextInv ==
  ASSUME WsInv, WsNext
  PROVE  WsInv'
<1>0. /\ sock \in [Socket -> States] /\ loose \in Nat /\ clicks \in Nat
      /\ Cardinality(Alive) + Timers <= clicks
  BY DEF WsInv, ConnectionsBounded, Alive
<1>1. IsFiniteSet(Alive) /\ Cardinality(Alive) \in Nat
  BY PoolAssumption, FS_Subset, FS_CardinalityType DEF Alive
<1> SUFFICES /\ sock' \in [Socket -> States] /\ loose' \in Nat /\ clicks' \in Nat
             /\ Cardinality(Alive') + Timers' <= clicks'
  BY DEF WsInv, ConnectionsBounded, Alive
<1>2. (timer /\ Timers = loose + 1) \/ (~timer /\ Timers = loose)
  BY <1>0, TimersNamed
<1>2b. loose' \in Nat => (timer' /\ Timers' = loose' + 1) \/ (~timer' /\ Timers' = loose')
  <2> SUFFICES ASSUME loose' \in Nat PROVE (timer' /\ Timers' = loose' + 1) \/ (~timer' /\ Timers' = loose')
    OBVIOUS
  <2>1. timer' => Timers' = loose' + 1
    BY Zenon DEF Timers
  <2>2. ~timer' => Timers' = loose' + 0
    BY Zenon DEF Timers
  <2>3. loose' + 0 = loose'
    BY PlusZero
  <2> QED
    BY <2>1, <2>2, <2>3, Zenon
<1>3. Timers \in Nat
  BY <1>0, <1>2
<1>4. CASE Connect
  <2>1. Opened /\ clicks' = clicks + 1 /\ timer' = timer /\ loose' = loose
    BY <1>4 DEF Connect
  <2>2. Timers' = Timers
    BY <2>1, Zenon DEF Timers
  <2> QED
    BY <1>0, <1>1, <1>3, <2>1, <2>2, OpenedOne
<1>5. CASE Disconnect
  <2>1. /\ clicks' = clicks /\ timer' = FALSE /\ loose' = loose
        /\ sock' \in [Socket -> States] /\ Alive' \subseteq Alive
    BY <1>0, <1>5 DEF Disconnect, Alive, States
  <2>2. Cardinality(Alive') <= Cardinality(Alive) /\ Cardinality(Alive') \in Nat
    BY <1>1, <2>1, FS_Subset, FS_CardinalityType
  <2>3. Timers' = loose
    BY <1>0, <1>2b, <2>1
  <2>4. Timers' <= Timers
    BY <1>0, <1>2, <2>3
  <2> QED
    BY <1>0, <1>1, <1>3, <2>1, <2>2, <2>3, <2>4
<1>6. CASE TimerFires
  <2>1. /\ Opened /\ clicks' = clicks
        /\ \/ timer /\ timer' = FALSE /\ loose' = loose
           \/ loose > 0 /\ loose' = loose - 1 /\ timer' = timer
    BY <1>6 DEF TimerFires
  <2>2. loose' \in Nat
    BY <1>0, <2>1
  <2>3. Timers' = Timers - 1
    BY <1>0, <1>2, <1>2b, <2>1, <2>2
  <2> QED
    BY <1>0, <1>1, <1>3, <2>1, <2>2, <2>3, OpenedOne
<1>7. ASSUME NEW s \in Socket, OnOpen(s)
      PROVE  /\ sock' \in [Socket -> States] /\ loose' \in Nat /\ clicks' \in Nat
             /\ Cardinality(Alive') + Timers' <= clicks'
  <2>1. Alive' = Alive /\ sock' \in [Socket -> States] /\ timer' = timer /\ loose' = loose /\ clicks' = clicks
    BY <1>0, <1>7 DEF OnOpen, Alive, States
  <2>2. Timers' = Timers
    BY <2>1, Zenon DEF Timers
  <2> QED
    BY <1>0, <2>1, <2>2
<1>8. ASSUME NEW s \in Socket, OnClose(s)
      PROVE  /\ sock' \in [Socket -> States] /\ loose' \in Nat /\ clicks' \in Nat
             /\ Cardinality(Alive') + Timers' <= clicks'
  <2>1. s \in Alive /\ Alive' = Alive \ {s} /\ sock' \in [Socket -> States] /\ clicks' = clicks
    BY <1>0, <1>8 DEF OnClose, Alive, States
  <2>2. \/ timer' = TRUE /\ loose' = loose + (IF timer THEN 1 ELSE 0)
        \/ timer' = timer /\ loose' = loose
    BY <1>8 DEF OnClose
  <2>3. CASE timer' = timer /\ loose' = loose
    <3>1. Timers' = Timers
      BY <2>3, Zenon DEF Timers
    <3>2. Cardinality(Alive) = Cardinality(Alive') + 1 /\ Cardinality(Alive') \in Nat
      BY <1>1, <2>1, OneLess
    <3> QED
      BY <1>0, <1>1, <1>3, <2>1, <2>3, <3>1, <3>2
  <2>4. CASE timer' = TRUE /\ loose' = loose + (IF timer THEN 1 ELSE 0)
    <3>1. loose' = Timers
      BY <2>4 DEF Timers
    <3>2. loose' \in Nat /\ Timers' = loose' + 1
      BY <1>3, <1>2b, <2>4, <3>1
    <3>3. Timers' = Timers + 1
      BY <1>3, <3>1, <3>2
    <3>4. Cardinality(Alive) = Cardinality(Alive') + 1 /\ Cardinality(Alive') \in Nat
      BY <1>1, <2>1, OneLess
    <3>5. Cardinality(Alive') + Timers' = Cardinality(Alive) + Timers
      BY <1>3, <3>3, <3>4
    <3> QED
      BY <1>0, <2>1, <3>2, <3>5
  <2> QED
    BY <2>2, <2>3, <2>4
<1> QED
  BY <1>4, <1>5, <1>6, <1>7, <1>8 DEF WsNext

-----------------------------------------------------------------------------
(* The client of the SDK                                                   *)

AliveLinks == {l \in Link : link[l] # "closed"}
Holding(e) == {l \in Link : e \in inbox[l]}
Asked(e) == IF e \in asking THEN 1 ELSE 0

SdkTypes ==
  /\ link \in [Link -> States] /\ waiting \in Nat
  /\ calls \in [connect : Nat, disconnect : Nat]
  /\ inbox \in [Link -> SUBSET SdkEvent] /\ told \in [SdkEvent -> Nat]

(* What an event may still be told of, once for each socket that has it and *)
(* once for the answer, fits into what is left of its bound.  An event that *)
(* was not published is nowhere.                                           *)
TellingInv ==
  /\ sent \subseteq DOMAIN published /\ asking \subseteq DOMAIN published
  /\ \A e \in SdkEvent :
       IF e \in sent THEN told[e] + Cardinality(Holding(e)) + Asked(e) <= calls.connect + 1
       ELSE told[e] = 0 /\ Holding(e) = {}

SdkInv == SdkTypes /\ LinksBounded /\ TellingInv

LEMMA LinksFinite ==
  /\ IsFiniteSet(AliveLinks) /\ Cardinality(AliveLinks) \in Nat
  /\ \A e \in SdkEvent : IsFiniteSet(Holding(e)) /\ Cardinality(Holding(e)) \in Nat
<1>1. \A S \in SUBSET Link : IsFiniteSet(S) /\ Cardinality(S) \in Nat
  BY SdkAssumption, FS_Subset, FS_CardinalityType
<1>2. AliveLinks \in SUBSET Link /\ \A e \in SdkEvent : Holding(e) \in SUBSET Link
  BY DEF AliveLinks, Holding
<1> QED
  BY <1>1, <1>2

LEMMA SdkInitInv == SdkInit => SdkInv
<1> SUFFICES ASSUME SdkInit PROVE SdkInv
  OBVIOUS
<1>1. SdkTypes
  BY DEF SdkInit, SdkTypes, States
<1>2. AliveLinks = {} /\ Cardinality(AliveLinks) = 0
  BY FS_EmptySet DEF SdkInit, AliveLinks
<1>3. LinksBounded
  BY <1>2 DEF SdkInit, LinksBounded, AliveLinks
<1>4. sent = {} /\ asking = {} /\ \A e \in SdkEvent : told[e] = 0 /\ Holding(e) = {}
  BY DEF SdkInit, Holding
<1>5. TellingInv
  BY <1>4 DEF TellingInv
<1> QED
  BY <1>1, <1>3, <1>5 DEF SdkInv

(* A new socket makes one live, and nothing else of a link changes.        *)
LEMMA NewSocketOne ==
  ASSUME link \in [Link -> States], NewSocket
  PROVE  /\ link' \in [Link -> States] /\ Cardinality(AliveLinks') \in Nat
         /\ Cardinality(AliveLinks') <= Cardinality(AliveLinks) + 1
<1>1. PICK l \in Link : link' = [link EXCEPT ![l] = "connecting"]
  BY DEF NewSocket
<1>2. link' \in [Link -> States] /\ AliveLinks' \in SUBSET (AliveLinks \cup {l})
  BY <1>1 DEF AliveLinks, States
<1>3. IsFiniteSet(AliveLinks') /\ Cardinality(AliveLinks') <= Cardinality(AliveLinks) + 1
  BY <1>2, LinksFinite, OneMore
<1> QED
  BY <1>2, <1>3, FS_CardinalityType

(* The socket's side: what connections there are (WebSocketConnector).      *)
LEMMA LinksStep ==
  ASSUME SdkTypes, LinksBounded, SdkNext
  PROVE  /\ link' \in [Link -> States] /\ waiting' \in Nat
         /\ calls' \in [connect : Nat, disconnect : Nat] /\ calls'.connect >= calls.connect
         /\ LinksBounded'
<1>0. /\ link \in [Link -> States] /\ waiting \in Nat
      /\ calls \in [connect : Nat, disconnect : Nat]
      /\ Cardinality(AliveLinks) + waiting <= calls.connect
      /\ Cardinality(AliveLinks) \in Nat /\ IsFiniteSet(AliveLinks)
  BY LinksFinite DEF SdkTypes, LinksBounded, AliveLinks
<1> DEFINE Goal == /\ link' \in [Link -> States] /\ waiting' \in Nat
                   /\ calls' \in [connect : Nat, disconnect : Nat] /\ calls'.connect >= calls.connect
                   /\ Cardinality(AliveLinks') + waiting' <= calls'.connect
<1> SUFFICES Goal
  BY DEF LinksBounded, AliveLinks
<1>1. ASSUME UNCHANGED <<link, waiting, calls>> PROVE Goal
  <2>1. AliveLinks' = AliveLinks
    BY <1>1 DEF AliveLinks
  <2> QED
    BY <1>0, <1>1, <2>1
<1>2. CASE SdkConnect
  <2>1. NewSocket /\ waiting' = waiting /\ calls' = [calls EXCEPT !.connect = @ + 1]
    BY <1>2 DEF SdkConnect
  <2>2. calls' \in [connect : Nat, disconnect : Nat] /\ calls'.connect = calls.connect + 1
    BY <1>0, <2>1
  <2> QED
    BY <1>0, <2>1, <2>2, NewSocketOne
<1>3. CASE SdkReconnect
  <2>1. NewSocket /\ waiting > 0 /\ waiting' = waiting - 1 /\ calls' = calls
    BY <1>3 DEF SdkReconnect
  <2> QED
    BY <1>0, <2>1, NewSocketOne
<1>4. CASE SdkDisconnect
  <2>1. /\ waiting' = waiting /\ calls' = [calls EXCEPT !.disconnect = @ + 1]
        /\ link' = [l \in Link |-> IF l = ws /\ link[l] # "closed" THEN "closing" ELSE link[l]]
    BY <1>4 DEF SdkDisconnect
  <2>2. calls' \in [connect : Nat, disconnect : Nat] /\ calls'.connect = calls.connect
    BY <1>0, <2>1
  <2>3. link' \in [Link -> States] /\ AliveLinks' = AliveLinks
    BY <1>0, <2>1 DEF AliveLinks, States
  <2> QED
    BY <1>0, <2>1, <2>2, <2>3
<1>5. ASSUME NEW l \in Link, SdkOnOpen(l) PROVE Goal
  <2>1. link' \in [Link -> States] /\ AliveLinks' = AliveLinks /\ waiting' = waiting /\ calls' = calls
    BY <1>0, <1>5 DEF SdkOnOpen, AliveLinks, States
  <2> QED
    BY <1>0, <2>1
<1>6. ASSUME NEW l \in Link, SdkOnClose(l) PROVE Goal
  <2>1. /\ link' \in [Link -> States] /\ l \in AliveLinks /\ AliveLinks' = AliveLinks \ {l} /\ calls' = calls
    BY <1>0, <1>6 DEF SdkOnClose, AliveLinks, States
  <2>2. waiting' = waiting \/ waiting' = waiting + 1
    BY <1>6 DEF SdkOnClose
  <2>3. Cardinality(AliveLinks) = Cardinality(AliveLinks') + 1 /\ Cardinality(AliveLinks') \in Nat
    BY <1>0, <2>1, OneLess
  <2> QED
    BY <1>0, <2>1, <2>2, <2>3
<1>7. ASSUME NEW l \in Link, NEW e \in SdkEvent, SdkOnMessage(l, e) PROVE Goal
  BY <1>1, <1>7 DEF SdkOnMessage, socketVars
<1>8. ASSUME NEW t \in Tenants, SdkSubscribe(t) \/ SdkSetTenant(t) PROVE Goal
  BY <1>1, <1>8 DEF SdkSubscribe, SdkSetTenant, socketVars
<1>9. CASE SdkUnsubscribe
  BY <1>1, <1>9 DEF SdkUnsubscribe, socketVars
<1>10. ASSUME NEW e \in SdkEvent, PublishEvent(e) \/ Broadcast(e) \/ PublishAnswered(e) PROVE Goal
  BY <1>1, <1>10 DEF PublishEvent, Broadcast, PublishAnswered, socketVars
<1>11. ASSUME NEW e \in SdkEvent, NEW t \in Tenants, SdkReceives(e, t) PROVE Goal
  BY <1>1, <1>11 DEF SdkReceives, socketVars
<1> HIDE DEF Goal
<1> QED
  BY <1>2, <1>3, <1>4, <1>5, <1>6, <1>7, <1>8, <1>9, <1>10, <1>11 DEF SdkNext

(* An event is sent to sockets that are open, of which there are no more    *)
(* than calls of connect, and for the first time.                          *)
LEMMA SentOnce ==
  ASSUME SdkInv, NEW e \in SdkEvent, e \notin sent,
         inbox' = [l \in Link |-> IF link[l] = "open" THEN inbox[l] \cup {e} ELSE inbox[l]]
  PROVE  /\ inbox' \in [Link -> SUBSET SdkEvent]
         /\ told[e] + Cardinality(Holding(e)') <= calls.connect /\ Cardinality(Holding(e)') \in Nat
         /\ \A x \in SdkEvent \ {e} : Holding(x)' = Holding(x)
<1>1. /\ link \in [Link -> States] /\ waiting \in Nat /\ inbox \in [Link -> SUBSET SdkEvent]
      /\ Cardinality(AliveLinks) + waiting <= calls.connect /\ calls.connect \in Nat
      /\ Cardinality(AliveLinks) \in Nat /\ IsFiniteSet(AliveLinks)
  BY LinksFinite DEF SdkInv, SdkTypes, LinksBounded, AliveLinks
<1>2. told[e] = 0 /\ Holding(e) = {}
  BY DEF SdkInv, TellingInv
<1>3. inbox' \in [Link -> SUBSET SdkEvent] /\ \A x \in SdkEvent \ {e} : Holding(x)' = Holding(x)
  BY <1>1 DEF Holding
<1>4. Holding(e)' \in SUBSET AliveLinks
  BY <1>1, <1>2 DEF Holding, AliveLinks
<1>5. Cardinality(Holding(e)') <= Cardinality(AliveLinks) /\ Cardinality(Holding(e)') \in Nat
  BY <1>1, <1>4, FS_Subset, FS_CardinalityType
<1> QED
  BY <1>1, <1>2, <1>3, <1>5

(* The event's side: how often a subscriber is told of an event.           *)
LEMMA TellingStep ==
  ASSUME SdkInv, SdkNext, calls'.connect \in Nat, calls'.connect >= calls.connect
  PROVE  inbox' \in [Link -> SUBSET SdkEvent] /\ told' \in [SdkEvent -> Nat] /\ TellingInv'
<1>0. /\ inbox \in [Link -> SUBSET SdkEvent] /\ told \in [SdkEvent -> Nat] /\ calls.connect \in Nat
      /\ sent \subseteq DOMAIN published /\ asking \subseteq DOMAIN published
  BY DEF SdkInv, SdkTypes, TellingInv
<1>1. \A e \in SdkEvent : IsFiniteSet(Holding(e)) /\ Cardinality(Holding(e)) \in Nat
  BY LinksFinite
<1>2. \A e \in SdkEvent : /\ e \in sent => told[e] + Cardinality(Holding(e)) + Asked(e) <= calls.connect + 1
                          /\ e \notin sent => told[e] = 0 /\ Holding(e) = {}
  BY DEF SdkInv, TellingInv
<1>3. \A e \in SdkEvent : Asked(e) = (IF e \in asking THEN 1 ELSE 0) /\ Asked(e)' = (IF e \in asking' THEN 1 ELSE 0)
  BY DEF Asked
<1> DEFINE Fits(e) == /\ e \in sent' => told'[e] + Cardinality(Holding(e)') + Asked(e)' <= calls'.connect + 1
                      /\ e \notin sent' => told'[e] = 0 /\ Holding(e)' = {}
           Goal == /\ inbox' \in [Link -> SUBSET SdkEvent] /\ told' \in [SdkEvent -> Nat]
                   /\ sent' \subseteq DOMAIN published' /\ asking' \subseteq DOMAIN published'
                   /\ \A e \in SdkEvent : Fits(e)
<1> SUFFICES Goal
  BY DEF TellingInv
<1>4. ASSUME UNCHANGED <<inbox, told, sent, asking, published>> PROVE Goal
  <2>1. \A e \in SdkEvent : Holding(e)' = Holding(e)
    BY <1>4 DEF Holding
  <2>2. \A e \in SdkEvent : Fits(e)
    BY <1>0, <1>1, <1>2, <1>3, <1>4, <2>1
  <2> QED
    BY <1>0, <1>4, <2>2
<1>5. CASE SdkConnect \/ SdkReconnect \/ SdkDisconnect \/ SdkUnsubscribe
  BY <1>4, <1>5 DEF SdkConnect, SdkReconnect, SdkDisconnect, SdkUnsubscribe, eventVars
<1>6. ASSUME NEW l \in Link, SdkOnOpen(l) PROVE Goal
  BY <1>4, <1>6 DEF SdkOnOpen, eventVars
<1>7. ASSUME NEW t \in Tenants, SdkSubscribe(t) \/ SdkSetTenant(t) PROVE Goal
  BY <1>4, <1>7 DEF SdkSubscribe, SdkSetTenant
<1>8. ASSUME NEW l \in Link, SdkOnClose(l) PROVE Goal
  <2>1. inbox' = [inbox EXCEPT ![l] = {}] /\ UNCHANGED <<told, sent, asking, published>>
    BY <1>8 DEF SdkOnClose
  <2>2. \A e \in SdkEvent : Holding(e)' \in SUBSET Holding(e)
    BY <1>0, <2>1 DEF Holding
  <2>3. \A e \in SdkEvent : Cardinality(Holding(e)') <= Cardinality(Holding(e)) /\ Cardinality(Holding(e)') \in Nat
    BY <1>1, <2>2, FS_Subset, FS_CardinalityType
  <2>4. \A e \in SdkEvent : Fits(e)
    BY <1>0, <1>1, <1>2, <1>3, <2>1, <2>2, <2>3
  <2> QED
    BY <1>0, <2>1, <2>4
<1>9. ASSUME NEW l \in Link, NEW e \in SdkEvent, SdkOnMessage(l, e) PROVE Goal
  <2>1. /\ inbox' = [inbox EXCEPT ![l] = @ \ {e}] /\ e \in inbox[l] /\ UNCHANGED <<sent, asking, published>>
        /\ told' = told \/ told' = [told EXCEPT ![e] = @ + 1]
    BY <1>9 DEF SdkOnMessage, Emitted
  <2>2. /\ l \in Holding(e) /\ Holding(e)' = Holding(e) \ {l}
        /\ \A x \in SdkEvent \ {e} : Holding(x)' = Holding(x)
    BY <1>0, <2>1 DEF Holding
  <2>3. Cardinality(Holding(e)) = Cardinality(Holding(e)') + 1 /\ Cardinality(Holding(e)') \in Nat
    BY <1>1, <2>2, OneLess
  <2>4. e \in sent
    BY <1>2, <2>2
  <2>5. Fits(e)
    BY <1>0, <1>1, <1>2, <1>3, <2>1, <2>3, <2>4
  <2>6. \A x \in SdkEvent \ {e} : Fits(x)
    BY <1>0, <1>1, <1>2, <1>3, <2>1, <2>2
  <2>7. inbox' \in [Link -> SUBSET SdkEvent] /\ told' \in [SdkEvent -> Nat]
    BY <1>0, <2>1
  <2> QED
    BY <1>0, <2>1, <2>5, <2>6, <2>7
<1>10. ASSUME NEW e \in SdkEvent, PublishEvent(e) PROVE Goal
  <2>1. /\ e \notin DOMAIN published /\ DOMAIN published' = DOMAIN published \cup {e}
        /\ asking' = asking \cup {e} /\ UNCHANGED <<inbox, told, sent>>
    BY <1>10 DEF PublishEvent
  <2>2. e \notin sent' /\ \A x \in SdkEvent : Holding(x)' = Holding(x)
    BY <1>0, <2>1 DEF Holding
  <2>3. \A x \in SdkEvent : Fits(x)
    BY <1>0, <1>1, <1>2, <1>3, <2>1, <2>2
  <2> QED
    BY <1>0, <2>1, <2>3
<1>11. ASSUME NEW e \in SdkEvent, Broadcast(e) PROVE Goal
  <2>1. /\ e \in asking \ sent /\ sent' = sent \cup {e} /\ UNCHANGED <<told, asking, published>>
        /\ inbox' = [l \in Link |-> IF link[l] = "open" THEN inbox[l] \cup {e} ELSE inbox[l]]
    BY <1>11 DEF Broadcast
  <2>2. /\ inbox' \in [Link -> SUBSET SdkEvent]
        /\ told[e] + Cardinality(Holding(e)') <= calls.connect /\ Cardinality(Holding(e)') \in Nat
        /\ \A x \in SdkEvent \ {e} : Holding(x)' = Holding(x)
    BY <2>1, SentOnce
  <2>3. Fits(e)
    BY <1>0, <1>3, <2>1, <2>2
  <2>4. \A x \in SdkEvent \ {e} : Fits(x)
    BY <1>0, <1>1, <1>2, <1>3, <2>1, <2>2
  <2> QED
    BY <1>0, <2>1, <2>2, <2>3, <2>4
<1>12. ASSUME NEW e \in SdkEvent, PublishAnswered(e) PROVE Goal
  <2>1. /\ e \in asking /\ asking' = asking \ {e} /\ UNCHANGED <<inbox, sent, published>>
        /\ told' = told \/ (e \in sent /\ told' = [told EXCEPT ![e] = @ + 1])
    BY <1>12 DEF PublishAnswered, Emitted
  <2>2. \A x \in SdkEvent : Holding(x)' = Holding(x)
    BY <2>1 DEF Holding
  <2>3. \A x \in SdkEvent : Fits(x)
    BY <1>0, <1>1, <1>2, <1>3, <2>1, <2>2
  <2>4. told' \in [SdkEvent -> Nat]
    BY <1>0, <2>1
  <2> QED
    BY <1>0, <2>1, <2>3, <2>4
<1>13. ASSUME NEW e \in SdkEvent, NEW t \in Tenants, SdkReceives(e, t) PROVE Goal
  <2>1. /\ e \notin DOMAIN published /\ DOMAIN published' = DOMAIN published \cup {e}
        /\ sent' = sent \cup {e} /\ UNCHANGED <<told, asking>>
        /\ inbox' = [l \in Link |-> IF link[l] = "open" THEN inbox[l] \cup {e} ELSE inbox[l]]
    BY <1>13 DEF SdkReceives
  <2>2. e \notin sent /\ e \notin asking
    BY <1>0, <2>1
  <2>3. /\ inbox' \in [Link -> SUBSET SdkEvent]
        /\ told[e] + Cardinality(Holding(e)') <= calls.connect /\ Cardinality(Holding(e)') \in Nat
        /\ \A x \in SdkEvent \ {e} : Holding(x)' = Holding(x)
    BY <2>1, <2>2, SentOnce
  <2>4. Fits(e)
    BY <1>0, <1>3, <2>1, <2>2, <2>3
  <2>5. \A x \in SdkEvent \ {e} : Fits(x)
    BY <1>0, <1>1, <1>2, <1>3, <2>1, <2>3
  <2> QED
    BY <1>0, <2>1, <2>3, <2>4, <2>5
<1> HIDE DEF Goal
<1> QED
  BY <1>5, <1>6, <1>7, <1>8, <1>9, <1>10, <1>11, <1>12, <1>13 DEF SdkNext

LEMMA SdkNextInv ==
  ASSUME SdkInv, SdkNext
  PROVE  SdkInv'
<1>1. SdkTypes /\ LinksBounded
  BY DEF SdkInv
<1>2. /\ link' \in [Link -> States] /\ waiting' \in Nat
      /\ calls' \in [connect : Nat, disconnect : Nat] /\ calls'.connect >= calls.connect
      /\ LinksBounded'
  BY <1>1, LinksStep
<1>3. inbox' \in [Link -> SUBSET SdkEvent] /\ told' \in [SdkEvent -> Nat] /\ TellingInv'
  BY <1>2, TellingStep
<1> QED
  BY <1>2, <1>3 DEF SdkInv, SdkTypes

LEMMA SdkTells ==
  ASSUME SdkInv
  PROVE  ToldPerConnection
<1> SUFFICES ASSUME NEW e \in SdkEvent PROVE told[e] <= calls.connect + 1
  BY DEF ToldPerConnection
<1>1. told[e] \in Nat /\ calls.connect \in Nat /\ Asked(e) \in Nat
  BY DEF SdkInv, SdkTypes, Asked
<1>2. Cardinality(Holding(e)) \in Nat
  BY LinksFinite
<1>3. told[e] = 0 \/ told[e] + Cardinality(Holding(e)) + Asked(e) <= calls.connect + 1
  BY DEF SdkInv, TellingInv
<1> QED
  BY <1>1, <1>2, <1>3

-----------------------------------------------------------------------------
(* The operations views                                                    *)

Figures == Agent \cup {Orchestrator}
Drawn == [zone : Zone, state : {"idle", "moving", "working"}, walking : BOOLEAN, works : Nat, idles : Nat]

(* The timers of a figure: that of a move which ends its work fires after  *)
(* the one which starts it.                                                *)
Fits(r) ==
  /\ r.state = "moving" <=> r.walking
  /\ r.state = "working" => r.idles > r.works
  /\ r.works <= r.idles

BridgeInv ==
  /\ sockets \in [open : Nat, retries : Nat, own : {"none", "open", "lost"}]
  /\ sockets.own = "open" => sockets.open > 0
  /\ lives \in Nat /\ SourcesBounded
  /\ lives = 0 => mocking

StoreInv ==
  /\ actors \in [Agent -> Zone]
  /\ viz \in [zone : [Agent -> Zone], errors : Nat]
  /\ lives = 0 => actors = viz.zone

EngineInv ==
  /\ engine \in [phase : {"none", "framed", "starting", "running"},
                 agents : {<<>>} \cup [Figures -> Drawn], errors : Nat]
  /\ IF engine.phase = "running" THEN engine.agents \in [Figures -> Drawn] ELSE engine.agents = <<>>
  /\ \A a \in DOMAIN engine.agents : Fits(engine.agents[a])
  /\ moved \subseteq Agent \cap DOMAIN engine.agents
  /\ \A a \in moved : engine.agents[a].zone = viz.zone[a]
  /\ engine.errors <= viz.errors

VizInv == BridgeInv /\ StoreInv /\ EngineInv

LEMMA RoomsKnown ==
  /\ DOMAIN ZONES = 1..Len(ZONES) /\ Len(ZONES) \in Nat /\ Len(ZONES) > 1
  /\ \A i \in 1..Len(ZONES) : ZONES[i] \in Zone
  /\ \A n \in Nat : ZONES[(n % Len(ZONES)) + 1] \in Zone
<1>1. DOMAIN ZONES = 1..Len(ZONES) /\ Len(ZONES) \in Nat /\ Len(ZONES) > 1
  BY VizAssumption
<1>2. \A i \in 1..Len(ZONES) : ZONES[i] \in Zone
  BY VizAssumption
<1>3. \A n \in Nat : (n % Len(ZONES)) + 1 \in 1..Len(ZONES)
  BY <1>1
<1> QED
  BY <1>1, <1>2, <1>3

LEMMA SeededRooms == Seeded \in [Agent -> Zone]
<1> SUFFICES ASSUME NEW a \in Agent
             PROVE  ZONES[(((CHOOSE i \in DOMAIN AGENTS : AGENTS[i] = a) - 1) % Len(ZONES)) + 1] \in Zone
  BY DEF Seeded
<1>1. \E i \in DOMAIN AGENTS : AGENTS[i] = a
  BY DEF Agent, ToSet
<1>2. PICK i : i = CHOOSE j \in DOMAIN AGENTS : AGENTS[j] = a
  OBVIOUS
<1>3. i \in DOMAIN AGENTS
  BY <1>1, <1>2
<1>4. i - 1 \in Nat
  BY <1>3, VizAssumption
<1> QED
  BY <1>2, <1>4, RoomsKnown

LEMMA DrawnFields ==
  ASSUME NEW z, NEW s, NEW b, NEW n, NEW k,
         NEW m, m = [zone |-> z, state |-> s, walking |-> b, works |-> n, idles |-> k]
  PROVE  m.zone = z /\ m.state = s /\ m.walking = b /\ m.works = n /\ m.idles = k
OBVIOUS

(* What happens to one figure: a move, the end of a walk, and two timers    *)
(* (startAgentWalk, updateAgentWalk and applyEvent of SimEngine).           *)
LEMMA WalkFits ==
  ASSUME NEW r \in Drawn, Fits(r), NEW zone \in Zone, NEW m, m = StartAgentWalk(r, zone)
  PROVE  m \in Drawn /\ Fits(m) /\ m.zone = zone /\ m.state = "moving"
<1>1. m = [zone |-> zone, state |-> "moving", walking |-> TRUE, works |-> r.works, idles |-> r.idles]
  BY DEF StartAgentWalk, Drawn
<1>2. m.state = "moving" /\ m.walking = TRUE /\ m.works = r.works /\ m.idles = r.idles /\ m.zone = zone
  BY <1>1
<1>3. m \in Drawn
  BY <1>1 DEF Drawn
<1>4. m.walking /\ m.state # "working"
  BY <1>2
<1>5. m.works <= m.idles
  BY <1>2 DEF Fits
<1> QED
  BY <1>2, <1>3, <1>4, <1>5 DEF Fits

LEMMA MoveFits ==
  ASSUME NEW r \in Drawn, Fits(r), NEW zone \in Zone,
         NEW m, m = Sent(r, zone)
  PROVE  m \in Drawn /\ Fits(m) /\ m.zone = zone
<1>1. PICK w : w = StartAgentWalk(r, zone)
  OBVIOUS
<1>2. w \in Drawn /\ Fits(w) /\ w.zone = zone /\ w.state = "moving"
  BY <1>1, WalkFits
<1>3. m = [zone |-> w.zone, state |-> w.state, walking |-> w.walking, works |-> w.works + 1, idles |-> w.idles + 1]
  BY <1>1, <1>2 DEF Sent, Drawn
<1>4. /\ m.zone = w.zone /\ m.state = w.state /\ m.walking = w.walking
      /\ m.works = w.works + 1 /\ m.idles = w.idles + 1
  BY ONLY <1>3, DrawnFields, Zenon
<1>5. m \in Drawn
  BY <1>2, <1>3 DEF Drawn
<1>6. w.state = "moving" <=> w.walking
  BY <1>2 DEF Fits
<1>7. m.state = "moving" <=> m.walking
  BY <1>4, <1>6, Zenon
<1>8. m.works <= m.idles /\ m.state # "working"
  BY <1>2, <1>4 DEF Fits, Drawn
<1> QED
  BY <1>2, <1>4, <1>5, <1>7, <1>8 DEF Fits

LEMMA ArriveFits ==
  ASSUME NEW r \in Drawn, Fits(r), NEW m, m = [r EXCEPT !.walking = FALSE, !.state = "idle"]
  PROVE  m \in Drawn /\ Fits(m) /\ m.zone = r.zone
<1>1. m = [zone |-> r.zone, state |-> "idle", walking |-> FALSE, works |-> r.works, idles |-> r.idles]
  BY DEF Drawn
<1>2. /\ m.zone = r.zone /\ m.state = "idle" /\ m.walking = FALSE /\ m.works = r.works /\ m.idles = r.idles
  BY <1>1
<1>3. m \in Drawn
  BY <1>1 DEF Drawn
<1>4. ~m.walking /\ m.state # "moving" /\ m.state # "working"
  BY <1>2
<1>5. m.works <= m.idles
  BY <1>2 DEF Fits
<1> QED
  BY <1>2, <1>3, <1>4, <1>5 DEF Fits

LEMMA WorkTimerFits ==
  ASSUME NEW r \in Drawn, Fits(r), r.works > 0,
         NEW m, m = [r EXCEPT !.works = @ - 1, !.state = IF @ = "moving" THEN @ ELSE "working"]
  PROVE  m \in Drawn /\ Fits(m) /\ m.zone = r.zone
<1> DEFINE s == IF r.state = "moving" THEN r.state ELSE "working"
<1>1. m = [zone |-> r.zone, state |-> s, walking |-> r.walking, works |-> r.works - 1, idles |-> r.idles]
  BY DEF Drawn
<1>2. s \in {"moving", "working"} /\ (s = "moving" <=> r.state = "moving")
  OBVIOUS
<1> HIDE DEF s
<1>3. m.zone = r.zone /\ m.state = s /\ m.walking = r.walking /\ m.works = r.works - 1 /\ m.idles = r.idles
  BY ONLY <1>1, DrawnFields, Zenon
<1>4. r.works \in Nat /\ r.idles \in Nat /\ r.works <= r.idles
  BY DEF Fits, Drawn
<1>5. m \in Drawn
  BY <1>1, <1>2, <1>4 DEF Drawn
<1>6. r.state = "moving" <=> r.walking
  BY DEF Fits
<1>7. m.state = "moving" <=> m.walking
  BY <1>2, <1>3, <1>6, Zenon
<1>8. m.works <= m.idles /\ m.idles > m.works
  BY <1>3, <1>4
<1> QED
  BY <1>3, <1>5, <1>7, <1>8 DEF Fits

LEMMA IdleTimerFits ==
  ASSUME NEW r \in Drawn, Fits(r), r.idles > r.works,
         NEW m, m = [r EXCEPT !.idles = @ - 1, !.state = IF @ = "working" THEN "idle" ELSE @]
  PROVE  m \in Drawn /\ Fits(m) /\ m.zone = r.zone
<1> DEFINE s == IF r.state = "working" THEN "idle" ELSE r.state
<1>1. m = [zone |-> r.zone, state |-> s, walking |-> r.walking, works |-> r.works, idles |-> r.idles - 1]
  BY DEF Drawn
<1>2. s \in {"moving", "idle"} /\ (s = "moving" <=> r.state = "moving")
  BY DEF Drawn
<1> HIDE DEF s
<1>3. m.zone = r.zone /\ m.state = s /\ m.walking = r.walking /\ m.works = r.works /\ m.idles = r.idles - 1
  BY ONLY <1>1, DrawnFields, Zenon
<1>4. r.works \in Nat /\ r.idles \in Nat
  BY DEF Drawn
<1>5. m \in Drawn
  BY <1>1, <1>2, <1>4 DEF Drawn
<1>6. r.state = "moving" <=> r.walking
  BY DEF Fits
<1>7. m.state = "moving" <=> m.walking
  BY <1>2, <1>3, <1>6, Zenon
<1>8. m.works <= m.idles /\ m.state # "working"
  BY <1>2, <1>3, <1>4
<1> QED
  BY <1>3, <1>5, <1>7, <1>8 DEF Fits

LEMMA VizInitInv == VizInit => VizInv
<1> SUFFICES ASSUME VizInit PROVE VizInv
  OBVIOUS
<1>1. BridgeInv
  BY DEF VizInit, BridgeInv, SourcesBounded
<1>2. StoreInv
  BY SeededRooms DEF VizInit, StoreInv
<1>3. engine = [phase |-> "none", agents |-> <<>>, errors |-> 0] /\ viz.errors = 0 /\ moved = {}
  BY DEF VizInit, NoEngine
<1>4. DOMAIN <<>> = {}
  OBVIOUS
<1>5. EngineInv
  BY <1>3, <1>4 DEF EngineInv
<1> QED
  BY <1>1, <1>2, <1>5 DEF VizInv

(* Sockets and the mock: no action but a click makes more of them.         *)
LEMMA BridgeStep ==
  ASSUME BridgeInv, VizNext
  PROVE  BridgeInv'
<1>0. /\ sockets \in [open : Nat, retries : Nat, own : {"none", "open", "lost"}]
      /\ sockets.own = "open" => sockets.open > 0
      /\ lives \in Nat /\ sockets.open + sockets.retries <= lives
      /\ lives = 0 => mocking
      /\ sockets = [open |-> sockets.open, retries |-> sockets.retries, own |-> sockets.own]
  BY DEF BridgeInv, SourcesBounded
<1>1. ASSUME UNCHANGED <<sockets, lives>>, mocking => mocking' PROVE BridgeInv'
  BY <1>0, <1>1 DEF BridgeInv, SourcesBounded
<1>2. CASE MockSpeaks
  BY <1>1, <1>2 DEF MockSpeaks
<1>3. CASE ConnectLive
  <2>1. lives' = lives + 1 /\ sockets' = [sockets EXCEPT !.open = @ + 1, !.own = "open"]
    BY <1>3 DEF ConnectLive, SocketOpened
  <2>2. sockets' = [open |-> sockets.open + 1, retries |-> sockets.retries, own |-> "open"]
    BY <1>0, <2>1
  <2> QED
    BY <1>0, <2>1, <2>2 DEF BridgeInv, SourcesBounded
<1>4. CASE UseMock
  <2> DEFINE n == IF sockets.own = "open" THEN sockets.open - 1 ELSE sockets.open
  <2>1. /\ lives' = lives /\ mocking' = TRUE
        /\ sockets' = [sockets EXCEPT !.open = IF sockets.own = "open" THEN @ - 1 ELSE @, !.own = "none"]
    BY <1>4 DEF UseMock, StartMock
  <2>2. sockets' = [open |-> n, retries |-> sockets.retries, own |-> "none"]
    BY <1>0, <2>1
  <2>3. n \in Nat /\ n <= sockets.open
    BY <1>0
  <2>4. mocking'
    BY <2>1
  <2> HIDE DEF n
  <2>5. sockets' \in [open : Nat, retries : Nat, own : {"none", "open", "lost"}]
    BY <1>0, <2>2, <2>3
  <2>6. sockets'.open = n /\ sockets'.retries = sockets.retries /\ sockets'.own = "none"
    BY <2>2
  <2>7. sockets'.open + sockets'.retries <= lives'
    BY <1>0, <2>1, <2>3, <2>6
  <2> QED
    BY <1>0, <2>1, <2>4, <2>5, <2>6, <2>7, Zenon DEF BridgeInv, SourcesBounded
<1>5. CASE SocketCloses
  <2>1. PICK own \in {sockets.own} \cup (IF sockets.own = "open" THEN {"lost"} ELSE {}) :
          /\ own = "open" => sockets.open > 1
          /\ sockets' = [open |-> sockets.open - 1, retries |-> sockets.retries + 1, own |-> own]
    BY <1>5 DEF SocketCloses
  <2>2. sockets.open > 0 /\ lives' = lives /\ mocking' = mocking
    BY <1>5 DEF SocketCloses
  <2> QED
    BY <1>0, <2>1, <2>2 DEF BridgeInv, SourcesBounded
<1>6. CASE RetryFires
  <2>1. /\ sockets.retries > 0 /\ lives' = lives /\ mocking' = mocking
        /\ sockets' = [[sockets EXCEPT !.retries = @ - 1] EXCEPT !.open = @ + 1, !.own = "open"]
    BY <1>6 DEF RetryFires, SocketOpened
  <2>2. sockets' = [open |-> sockets.open + 1, retries |-> sockets.retries - 1, own |-> "open"]
    BY <1>0, <2>1
  <2> QED
    BY <1>0, <2>1, <2>2 DEF BridgeInv, SourcesBounded
<1>7. CASE MetricsCloses \/ MetricsRetryFires
  BY <1>1, <1>7 DEF MetricsCloses, MetricsRetryFires
<1>8. CASE BackendSpeaks \/ MetricsArrive
  BY <1>1, <1>8 DEF BackendSpeaks, MetricsArrive, bridge
<1>9. CASE Mount \/ Frame \/ Ready \/ Unmount
  BY <1>1, <1>9 DEF Mount, Frame, Ready, Unmount, Unheard, bridge
<1>10. CASE Patrol \/ \E a \in DOMAIN engine.agents : Arrive(a) \/ WorkTimer(a) \/ IdleTimer(a)
  BY <1>1, <1>10 DEF Patrol, Arrive, WorkTimer, IdleTimer, Turn, Unheard, bridge
<1> QED
  BY <1>2, <1>3, <1>4, <1>5, <1>6, <1>7, <1>8, <1>9, <1>10 DEF VizNext

(* What the bridge emits: moves are to rooms.                              *)
Sound(e) ==
  /\ e.type = "agent_move" => e.zone \in Zone
  /\ e.type = "metrics_update" => e.errors \in Nat

LEMMA BackendSound ==
  ASSUME NEW m \in Messages, AdaptBackendEvent(m) # Nil
  PROVE  Sound(AdaptBackendEvent(m)) /\ AdaptBackendEvent(m).type # "metrics_update"
<1>1. MoveZone(m) \in Zone /\ SpawnZone(m) \in Zone
  BY RoomsKnown, VizAssumption DEF MoveZone, SpawnZone, ZoneFromStepIndex
<1>2. CASE m.kind = "AGENT_MOVE"
  BY <1>1, <1>2 DEF AdaptBackendEvent, VizEvent, Sound
<1>3. CASE m.kind = "AGENT_SPAWN"
  BY <1>1, <1>3 DEF AdaptBackendEvent, VizEvent, Sound
<1>4. CASE m.kind \in {"TASK_START", "SWARM_STARTED", "TASK_HANDOFF"}
  BY <1>4 DEF AdaptBackendEvent, VizEvent, Sound
<1>5. CASE m.kind \in {"TASK_SUCCESS", "TASK_COMPLETE", "TASK_FAIL"}
  BY <1>5 DEF AdaptBackendEvent, VizEvent, Sound
<1>6. CASE m.kind = "ANOMALY"
  BY <1>6 DEF AdaptBackendEvent, VizEvent, Sound
<1>7. CASE m.kind = "DECISION"
  BY <1>7 DEF AdaptBackendEvent, VizEvent, Sound
<1> QED
  BY <1>2, <1>3, <1>4, <1>5, <1>6, <1>7 DEF AdaptBackendEvent

Engines == [phase : {"none", "framed", "starting", "running"},
            agents : {<<>>} \cup [Figures -> Drawn], errors : Nat]

LEMMA EngineFacts ==
  ASSUME EngineInv
  PROVE  /\ engine \in Engines
         /\ engine = [phase |-> engine.phase, agents |-> engine.agents, errors |-> engine.errors]
         /\ \/ engine.phase # "running" /\ engine.agents = <<>> /\ DOMAIN engine.agents = {}
            \/ engine.phase = "running" /\ engine.agents \in [Figures -> Drawn] /\ DOMAIN engine.agents = Figures
<1>1. engine \in Engines
  BY DEF EngineInv, Engines
<1>2. engine = [phase |-> engine.phase, agents |-> engine.agents, errors |-> engine.errors]
  BY <1>1 DEF Engines
<1>3. DOMAIN <<>> = {}
  OBVIOUS
<1>4. CASE engine.phase = "running"
  BY <1>1, <1>2, <1>4 DEF EngineInv
<1>5. CASE engine.phase # "running"
  BY <1>1, <1>2, <1>3, <1>5 DEF EngineInv
<1> QED
  BY <1>4, <1>5

(* One figure of the canvas changes.                                       *)
LEMMA FigureStep ==
  ASSUME EngineInv, NEW a \in DOMAIN engine.agents, NEW m \in Drawn, Fits(m),
         engine' = [engine EXCEPT !.agents[a] = m]
  PROVE  /\ engine' \in Engines /\ engine'.phase = "running" /\ engine'.errors = engine.errors
         /\ engine'.agents \in [Figures -> Drawn] /\ engine.agents \in [Figures -> Drawn]
         /\ engine'.agents[a] = m
         /\ \A b \in Figures \ {a} : engine'.agents[b] = engine.agents[b]
         /\ \A b \in Figures : Fits(engine'.agents[b])
<1>1. /\ engine \in Engines /\ engine.phase = "running"
      /\ engine = [phase |-> engine.phase, agents |-> engine.agents, errors |-> engine.errors]
      /\ engine.agents \in [Figures -> Drawn] /\ a \in Figures
  BY EngineFacts
<1>2. engine' = [phase |-> engine.phase, agents |-> [engine.agents EXCEPT ![a] = m], errors |-> engine.errors]
  BY <1>1
<1>3. [engine.agents EXCEPT ![a] = m] \in [Figures -> Drawn]
  BY <1>1
<1>4. /\ engine'.phase = "running" /\ engine'.errors = engine.errors
      /\ engine'.agents = [engine.agents EXCEPT ![a] = m]
  BY <1>1, <1>2
<1>5. engine' \in Engines
  BY <1>1, <1>2, <1>3 DEF Engines
<1>6. engine'.agents[a] = m /\ \A b \in Figures \ {a} : engine'.agents[b] = engine.agents[b]
  BY <1>1, <1>4
<1>7. \A b \in Figures : Fits(engine.agents[b])
  BY <1>1 DEF EngineInv
<1>8. \A b \in Figures : Fits(engine'.agents[b])
  <2> SUFFICES ASSUME NEW b \in Figures PROVE Fits(engine'.agents[b])
    OBVIOUS
  <2>1. CASE b = a
    <3>1. PICK r : r = engine'.agents[b]
      OBVIOUS
    <3>2. r = m
      BY <1>6, <2>1, <3>1
    <3> QED
      BY <3>1, <3>2
  <2>2. CASE b # a
    <3>1. PICK r : r = engine'.agents[b]
      OBVIOUS
    <3>2. r = engine.agents[b]
      BY <1>6, <2>2, <3>1
    <3> QED
      BY <1>7, <3>1, <3>2
  <2> QED
    BY <2>1, <2>2
<1> QED
  BY <1>1, <1>3, <1>4, <1>5, <1>6, <1>8

(* What the store makes of an event (applyEvent of useVizStore).           *)
LEMMA StoredRooms ==
  ASSUME viz \in [zone : [Agent -> Zone], errors : Nat], NEW e, Sound(e), viz' = Stored(e)
  PROVE  /\ viz' \in [zone : [Agent -> Zone], errors : Nat]
         /\ viz'.zone = IF e.type = "agent_move" /\ e.agent \in Agent
                        THEN [viz.zone EXCEPT ![e.agent] = e.zone] ELSE viz.zone
         /\ viz'.errors = IF e.type = "hitl_trigger" THEN viz.errors + 1
                          ELSE IF e.type = "metrics_update" THEN Larger(viz.errors, e.errors)
                          ELSE viz.errors
<1>0. viz = [zone |-> viz.zone, errors |-> viz.errors] /\ viz.zone \in [Agent -> Zone] /\ viz.errors \in Nat
  OBVIOUS
<1>1. CASE e.type = "agent_move" /\ e.agent \in Agent
  <2>1. viz' = [viz EXCEPT !.zone[e.agent] = e.zone]
    BY <1>1 DEF Stored
  <2>2. viz' = [zone |-> [viz.zone EXCEPT ![e.agent] = e.zone], errors |-> viz.errors]
    BY <1>0, <2>1
  <2>3. [viz.zone EXCEPT ![e.agent] = e.zone] \in [Agent -> Zone]
    BY <1>0, <1>1 DEF Sound
  <2> QED
    BY <1>0, <1>1, <2>2, <2>3
<1>2. CASE e.type = "hitl_trigger"
  <2>1. viz' = [zone |-> viz.zone, errors |-> viz.errors + 1]
    BY <1>0, <1>2 DEF Stored
  <2> QED
    BY <1>0, <1>2, <2>1
<1>3. CASE e.type = "metrics_update"
  <2>1. viz' = [zone |-> viz.zone, errors |-> Larger(viz.errors, e.errors)]
    BY <1>0, <1>3 DEF Stored
  <2>2. Larger(viz.errors, e.errors) \in Nat
    BY <1>0, <1>3 DEF Larger, Sound
  <2> QED
    BY <1>0, <1>3, <2>1, <2>2
<1>4. CASE ~(e.type = "agent_move" /\ e.agent \in Agent) /\ e.type # "hitl_trigger" /\ e.type # "metrics_update"
  <2>1. viz' = viz
    BY <1>4 DEF Stored
  <2> QED
    BY <1>0, <1>4, <2>1
<1> QED
  BY <1>1, <1>2, <1>3, <1>4

(* An event reaches the store and, if the canvas listens, its engine: both  *)
(* have the mover in the same room from then on.                           *)
LEMMA EmitStep ==
  ASSUME EngineInv, viz \in [zone : [Agent -> Zone], errors : Nat], NEW e, Sound(e), Emit(e)
  PROVE  EngineInv'
<1>0. /\ engine \in Engines
      /\ engine = [phase |-> engine.phase, agents |-> engine.agents, errors |-> engine.errors]
      /\ \/ engine.phase # "running" /\ engine.agents = <<>> /\ DOMAIN engine.agents = {}
         \/ engine.phase = "running" /\ engine.agents \in [Figures -> Drawn] /\ DOMAIN engine.agents = Figures
  BY EngineFacts
<1>1. /\ viz'.zone = IF e.type = "agent_move" /\ e.agent \in Agent
                     THEN [viz.zone EXCEPT ![e.agent] = e.zone] ELSE viz.zone
      /\ viz'.errors = IF e.type = "hitl_trigger" THEN viz.errors + 1
                       ELSE IF e.type = "metrics_update" THEN Larger(viz.errors, e.errors)
                       ELSE viz.errors
  BY StoredRooms DEF Emit
<1>2. /\ engine' = IF Listening THEN Animated(e) ELSE engine
      /\ moved' = IF e.type = "agent_move" THEN moved \cup ({e.agent} \cap Agent \cap DOMAIN engine.agents) ELSE moved
  BY DEF Emit
<1>3. /\ engine.errors \in Nat /\ viz.errors \in Nat /\ engine.errors <= viz.errors
      /\ moved \subseteq Agent \cap DOMAIN engine.agents
      /\ \A a \in moved : engine.agents[a].zone = viz.zone[a]
      /\ \A a \in DOMAIN engine.agents : Fits(engine.agents[a])
      /\ viz.zone \in [Agent -> Zone] /\ Agent \subseteq Figures
  BY <1>0 DEF EngineInv, Engines, Figures
<1>4. CASE e.type = "agent_move" /\ e.agent \in DOMAIN engine.agents
  <2>1. Listening /\ engine.agents \in [Figures -> Drawn] /\ e.agent \in Figures /\ e.zone \in Zone
    BY <1>0, <1>4 DEF Listening, Sound
  <2>2. PICK r : r = engine.agents[e.agent]
    OBVIOUS
  <2>3. r \in Drawn /\ Fits(r)
    BY <1>3, <1>4, <2>1, <2>2
  <2>4. PICK m : m = Sent(r, e.zone)
    OBVIOUS
  <2>5. m \in Drawn /\ Fits(m) /\ m.zone = e.zone
    BY <2>1, <2>3, <2>4, MoveFits
  <2>6. Animated(e) = [engine EXCEPT !.agents[e.agent] = Sent(@, e.zone)]
    BY <1>4 DEF Animated
  <2>7. engine' = [engine EXCEPT !.agents[e.agent] = m]
    BY <1>2, <2>1, <2>2, <2>4, <2>6
  <2>8. /\ engine' \in Engines /\ engine'.phase = "running" /\ engine'.errors = engine.errors
        /\ engine'.agents \in [Figures -> Drawn]
        /\ engine'.agents[e.agent] = m
        /\ \A b \in Figures \ {e.agent} : engine'.agents[b] = engine.agents[b]
        /\ \A b \in Figures : Fits(engine'.agents[b])
    BY <1>4, <2>5, <2>7, FigureStep
  <2>9. moved' = moved \cup ({e.agent} \cap Agent) /\ viz'.errors = viz.errors
    BY <1>1, <1>2, <1>4
  <2>10. ASSUME NEW b \in moved' PROVE engine'.agents[b].zone = viz'.zone[b]
    <3>1. CASE b = e.agent
      <4>1. e.agent \in Agent
        BY <1>3, <2>9, <2>10, <3>1
      <4>2. viz'.zone[b] = e.zone
        BY <1>1, <1>3, <1>4, <3>1, <4>1
      <4> QED
        BY <2>5, <2>8, <3>1, <4>2
    <3>2. CASE b # e.agent
      <4>1. b \in moved /\ b \in Agent /\ b \in Figures
        BY <1>3, <2>9, <3>2
      <4>2. viz'.zone[b] = viz.zone[b]
        BY <1>1, <1>3, <3>2, <4>1
      <4>3. engine'.agents[b] = engine.agents[b]
        BY <2>8, <3>2, <4>1
      <4> QED
        BY <1>3, <4>1, <4>2, <4>3
    <3> QED
      BY <3>1, <3>2
  <2>11. DOMAIN engine'.agents = Figures /\ moved' \subseteq Agent \cap Figures
    BY <1>0, <1>3, <1>4, <2>1, <2>8, <2>9
  <2> QED
    BY <1>3, <2>8, <2>9, <2>10, <2>11 DEF EngineInv, Engines
<1>5. CASE ~(e.type = "agent_move" /\ e.agent \in DOMAIN engine.agents)
  <2>1. moved' = moved
    BY <1>2, <1>5
  <2>2. \A a \in moved : viz'.zone[a] = viz.zone[a]
    <3> SUFFICES ASSUME NEW a \in moved PROVE viz'.zone[a] = viz.zone[a]
      OBVIOUS
    <3>1. a \in Agent /\ a \in DOMAIN engine.agents
      BY <1>3
    <3> QED
      BY <1>1, <1>3, <1>5, <3>1
  <2>3. /\ engine' = [phase |-> engine.phase, agents |-> engine.agents, errors |-> engine'.errors]
        /\ engine'.errors \in Nat /\ engine'.errors <= viz'.errors
    <3>1. CASE e.type = "hitl_trigger"
      <4>1. viz'.errors = viz.errors + 1
        BY <1>1, <3>1
      <4>2. \/ engine' = engine
            \/ engine' = [phase |-> engine.phase, agents |-> engine.agents, errors |-> engine.errors + 1]
        BY <1>0, <1>2, <3>1 DEF Animated
      <4> QED
        BY <1>0, <1>3, <4>1, <4>2
    <3>2. CASE e.type = "metrics_update"
      <4>1. viz'.errors = Larger(viz.errors, e.errors) /\ e.errors \in Nat
        BY <1>1, <3>2 DEF Sound
      <4>2. \/ engine' = engine
            \/ engine' = [phase |-> engine.phase, agents |-> engine.agents, errors |-> Larger(engine.errors, e.errors)]
        BY <1>0, <1>2, <3>2 DEF Animated
      <4>3. /\ viz.errors <= viz'.errors
            /\ Larger(engine.errors, e.errors) <= viz'.errors /\ Larger(engine.errors, e.errors) \in Nat
        BY <1>3, <4>1 DEF Larger
      <4>4. CASE engine' = engine
        BY <1>0, <1>3, <4>1, <4>3, <4>4 DEF Larger
      <4>5. CASE engine' = [phase |-> engine.phase, agents |-> engine.agents, errors |-> Larger(engine.errors, e.errors)]
        BY <4>3, <4>5
      <4> QED
        BY <4>2, <4>4, <4>5
    <3>3. CASE e.type # "hitl_trigger" /\ e.type # "metrics_update"
      <4>1. engine' = engine /\ viz'.errors = viz.errors
        BY <1>1, <1>2, <1>5, <3>3 DEF Animated
      <4> QED
        BY <1>0, <1>3, <4>1
    <3> QED
      BY <3>1, <3>2, <3>3
  <2>4. engine'.phase = engine.phase /\ engine'.agents = engine.agents
    BY <2>3
  <2>5. engine' \in Engines
    BY <1>0, <2>3 DEF Engines
  <2> QED
    BY <1>0, <1>3, <2>1, <2>2, <2>3, <2>4, <2>5 DEF EngineInv, Engines
<1> QED
  BY <1>4, <1>5

LEMMA MockSound ==
  ASSUME StoreInv, NEW a \in Agent, NEW zone \in Downstream(actors[a])
  PROVE  zone \in Zone
<1>1. actors[a] \in Zone
  BY DEF StoreInv
<1> QED
  BY <1>1, VizAssumption DEF Downstream

LEMMA EngineMockStep ==
  ASSUME StoreInv, EngineInv, MockSpeaks
  PROVE  EngineInv'
<1>1. viz \in [zone : [Agent -> Zone], errors : Nat]
  BY DEF StoreInv
<1>2. ASSUME NEW a \in Agent, NEW zone \in Downstream(actors[a]), Emit(Said("agent_move", a, zone))
      PROVE  EngineInv'
  BY <1>1, <1>2, EmitStep, MockSound DEF Said, Sound
<1>3. ASSUME NEW type \in {"task_spawn", "task_complete", "hitl_trigger"}, Emit(Said(type, Nil, Nil))
      PROVE  EngineInv'
  BY <1>1, <1>3, EmitStep DEF Said, Sound
<1> QED
  BY <1>2, <1>3 DEF MockSpeaks

(* A figure that stays in its room changes (Arrive, the timers), or the     *)
(* orchestrator walks, which no store knows.                               *)
LEMMA TurnStep ==
  ASSUME EngineInv, NEW a \in DOMAIN engine.agents, NEW m \in Drawn, Fits(m),
         m.zone = engine.agents[a].zone \/ a \notin Agent, Turn(a, m)
  PROVE  EngineInv'
<1>1. engine' = [engine EXCEPT !.agents[a] = m] /\ moved' = moved /\ viz' = viz
  BY DEF Turn, Unheard
<1>2. /\ engine' \in Engines /\ engine'.phase = "running" /\ engine'.errors = engine.errors
      /\ engine'.agents \in [Figures -> Drawn] /\ engine.agents \in [Figures -> Drawn]
      /\ engine'.agents[a] = m
      /\ \A b \in Figures \ {a} : engine'.agents[b] = engine.agents[b]
      /\ \A b \in Figures : Fits(engine'.agents[b])
  BY <1>1, FigureStep
<1>3. DOMAIN engine'.agents = Figures /\ DOMAIN engine.agents = Figures
  BY <1>2
<1>4. moved \subseteq Agent \cap Figures /\ \A b \in moved : engine.agents[b].zone = viz.zone[b]
  BY <1>3 DEF EngineInv
<1>5. \A b \in moved : engine'.agents[b].zone = viz.zone[b]
  BY <1>2, <1>4
<1> QED
  BY <1>1, <1>2, <1>3, <1>4, <1>5 DEF EngineInv, Engines

LEMMA FigureTurns ==
  ASSUME EngineInv, NEW a \in DOMAIN engine.agents, Arrive(a) \/ WorkTimer(a) \/ IdleTimer(a)
  PROVE  EngineInv'
<1>1. PICK r : r = engine.agents[a]
  OBVIOUS
<1>2. r \in Drawn /\ Fits(r)
  BY <1>1, EngineFacts DEF EngineInv
<1>3. CASE Arrive(a)
  <2>1. PICK m : m = [r EXCEPT !.walking = FALSE, !.state = "idle"]
    OBVIOUS
  <2>2. Turn(a, m)
    BY <1>1, <1>3, <2>1 DEF Arrive
  <2>3. m \in Drawn /\ Fits(m) /\ m.zone = r.zone
    BY <1>2, <2>1, <2>2, ArriveFits
  <2> QED
    BY <1>1, <2>2, <2>3, TurnStep
<1>4. CASE WorkTimer(a)
  <2>1. PICK m : m = [r EXCEPT !.works = @ - 1, !.state = IF @ = "moving" THEN @ ELSE "working"]
    OBVIOUS
  <2>2. r.works > 0 /\ Turn(a, m)
    BY <1>1, <1>4, <2>1 DEF WorkTimer
  <2>3. m \in Drawn /\ Fits(m) /\ m.zone = r.zone
    BY <1>2, <2>1, <2>2, WorkTimerFits
  <2> QED
    BY <1>1, <2>2, <2>3, TurnStep
<1>5. CASE IdleTimer(a)
  <2>1. PICK m : m = [r EXCEPT !.idles = @ - 1, !.state = IF @ = "working" THEN "idle" ELSE @]
    OBVIOUS
  <2>2. r.idles > r.works /\ Turn(a, m)
    BY <1>1, <1>5, <2>1 DEF IdleTimer
  <2>3. m \in Drawn /\ Fits(m) /\ m.zone = r.zone
    BY <1>2, <2>1, <2>2, IdleTimerFits
  <2> QED
    BY <1>1, <2>2, <2>3, TurnStep
<1> QED
  BY <1>3, <1>4, <1>5

LEMMA PatrolStep ==
  ASSUME EngineInv, Patrol
  PROVE  EngineInv'
<1>1. PICK zone \in Zone : Turn(Orchestrator, StartAgentWalk(engine.agents[Orchestrator], zone))
  BY DEF Patrol
<1>2. PICK r : r = engine.agents[Orchestrator]
  OBVIOUS
<1>3. Orchestrator \in DOMAIN engine.agents
  BY DEF Patrol
<1>4. r \in Drawn /\ Fits(r)
  BY <1>2, <1>3, EngineFacts DEF EngineInv
<1>5. PICK m : m = StartAgentWalk(r, zone)
  OBVIOUS
<1>6. m \in Drawn /\ Fits(m)
  BY <1>4, <1>5, WalkFits
<1>7. Orchestrator \notin Agent
  BY VizAssumption
<1>8. Turn(Orchestrator, m)
  BY <1>1, <1>2, <1>5
<1> QED
  BY <1>3, <1>6, <1>7, <1>8, TurnStep

(* The canvas is mounted, framed, made ready or left.                      *)
LEMMA PhaseStep ==
  ASSUME EngineInv, StoreInv, Mount \/ Frame \/ Ready \/ Unmount
  PROVE  EngineInv'
<1>0. /\ engine \in Engines
      /\ engine = [phase |-> engine.phase, agents |-> engine.agents, errors |-> engine.errors]
      /\ \/ engine.phase # "running" /\ engine.agents = <<>> /\ DOMAIN engine.agents = {}
         \/ engine.phase = "running" /\ engine.agents \in [Figures -> Drawn] /\ DOMAIN engine.agents = Figures
  BY EngineFacts
<1>1. /\ engine.errors \in Nat /\ viz.errors \in Nat /\ engine.errors <= viz.errors
      /\ moved \subseteq Agent \cap DOMAIN engine.agents
  BY <1>0 DEF EngineInv, Engines, StoreInv
<1>2. DOMAIN <<>> = {}
  OBVIOUS
<1>3. ASSUME NEW phase \in {"none", "framed", "starting"}, NEW n \in Nat, n <= viz.errors,
             engine' = [phase |-> phase, agents |-> <<>>, errors |-> n], moved' = {}, viz' = viz
      PROVE  EngineInv'
  <2>1. engine'.phase = phase /\ engine'.agents = <<>> /\ engine'.errors = n /\ engine' \in Engines
    BY <1>3 DEF Engines
  <2> QED
    BY <1>2, <1>3, <2>1 DEF EngineInv, Engines
<1>4. CASE Mount
  <2>1. engine' = [phase |-> "framed", agents |-> <<>>, errors |-> 0] /\ moved' = moved /\ viz' = viz
    BY <1>4 DEF Mount, NoEngine, Unheard
  <2>2. moved = {}
    BY <1>0, <1>1, <1>4 DEF Mount
  <2> QED
    BY <1>1, <1>3, <2>1, <2>2
<1>5. CASE Frame
  <2>1. engine.phase = "framed" /\ engine' = [engine EXCEPT !.phase = "starting"] /\ moved' = moved /\ viz' = viz
    BY <1>5 DEF Frame, Unheard
  <2>2. engine.agents = <<>> /\ moved = {}
    BY <1>0, <1>1, <2>1
  <2>3. engine' = [phase |-> "starting", agents |-> <<>>, errors |-> engine.errors]
    BY <1>0, <2>1, <2>2
  <2> QED
    BY <1>1, <1>3, <2>1, <2>2, <2>3
<1>6. CASE Unmount
  <2>1. engine' = [phase |-> "none", agents |-> <<>>, errors |-> 0] /\ moved' = {} /\ viz' = viz
    BY <1>6 DEF Unmount, NoEngine, Unheard
  <2> QED
    BY <1>1, <1>3, <2>1
<1>7. CASE Ready
  <2> DEFINE seated == [a \in Figures |-> Standing(IF a = Orchestrator THEN ZONES[1] ELSE Seeded[a])]
  <2>1. /\ engine' = [engine EXCEPT !.phase = "running", !.agents = seated]
        /\ moved' = {} /\ viz' = viz
    BY <1>7 DEF Ready, Unheard, Figures
  <2>2. \A zone \in Zone : Standing(zone) \in Drawn /\ Fits(Standing(zone))
    BY DEF Standing, Drawn, Fits
  <2>3. \A a \in Figures : (IF a = Orchestrator THEN ZONES[1] ELSE Seeded[a]) \in Zone
    BY SeededRooms, RoomsKnown DEF Figures
  <2>4. seated \in [Figures -> Drawn] /\ \A a \in Figures : Fits(seated[a])
    BY <2>2, <2>3
  <2> HIDE DEF seated
  <2>5. engine' = [phase |-> "running", agents |-> seated, errors |-> engine.errors]
    BY <1>0, <2>1
  <2>6. engine'.phase = "running" /\ engine'.agents = seated /\ engine'.errors = engine.errors
    BY <2>5
  <2>7. engine' \in Engines
    BY <1>1, <2>4, <2>5 DEF Engines
  <2>8. DOMAIN engine'.agents = Figures
    BY <2>4, <2>6
  <2>9. \A a \in DOMAIN engine'.agents : Fits(engine'.agents[a])
    BY <2>4, <2>6, <2>8
  <2> QED
    BY <1>1, <2>1, <2>4, <2>6, <2>7, <2>9 DEF EngineInv, Engines
<1> QED
  BY <1>4, <1>5, <1>6, <1>7

LEMMA EngineStep ==
  ASSUME VizInv, VizNext
  PROVE  EngineInv'
<1>0. EngineInv /\ StoreInv /\ viz \in [zone : [Agent -> Zone], errors : Nat]
  BY DEF VizInv, StoreInv
<1>1. ASSUME UNCHANGED <<viz, engine, moved>> PROVE EngineInv'
  BY <1>0, <1>1 DEF EngineInv
<1>2. CASE MockSpeaks
  BY <1>0, <1>2, EngineMockStep
<1>3. CASE ConnectLive \/ UseMock \/ SocketCloses \/ RetryFires \/ MetricsCloses \/ MetricsRetryFires
  BY <1>1, <1>3 DEF ConnectLive, UseMock, SocketCloses, RetryFires, MetricsCloses, MetricsRetryFires
<1>4. CASE BackendSpeaks
  <2>1. PICK m \in Messages : AdaptBackendEvent(m) # Nil /\ Emit(AdaptBackendEvent(m))
    BY <1>4 DEF BackendSpeaks
  <2>2. PICK e : e = AdaptBackendEvent(m)
    OBVIOUS
  <2>3. Sound(e) /\ Emit(e)
    BY <2>1, <2>2, BackendSound
  <2> QED
    BY <1>0, <2>3, EmitStep
<1>5. CASE MetricsArrive
  <2>1. PICK errors \in 1..MaxCount : Emit([type |-> "metrics_update", errors |-> errors])
    BY <1>5 DEF MetricsArrive
  <2>2. Sound([type |-> "metrics_update", errors |-> errors])
    BY VizAssumption DEF Sound
  <2> QED
    BY <1>0, <2>1, <2>2, EmitStep
<1>6. CASE Mount \/ Frame \/ Ready \/ Unmount
  BY <1>0, <1>6, PhaseStep
<1>7. CASE Patrol
  BY <1>0, <1>7, PatrolStep
<1>8. CASE \E a \in DOMAIN engine.agents : Arrive(a) \/ WorkTimer(a) \/ IdleTimer(a)
  BY <1>0, <1>8, FigureTurns
<1> QED
  BY <1>2, <1>3, <1>4, <1>5, <1>6, <1>7, <1>8 DEF VizNext

(* The store has what the mock has until the backend speaks, which needs a  *)
(* socket and so a click on Live.                                          *)
LEMMA StoreStep ==
  ASSUME BridgeInv, StoreInv, VizNext
  PROVE  StoreInv'
<1>0. /\ actors \in [Agent -> Zone] /\ viz \in [zone : [Agent -> Zone], errors : Nat]
      /\ lives = 0 => actors = viz.zone
      /\ viz.zone \in [Agent -> Zone] /\ lives \in Nat
  BY DEF StoreInv, BridgeInv
<1>1. ASSUME UNCHANGED <<actors, viz, lives>> PROVE StoreInv'
  BY <1>0, <1>1 DEF StoreInv
<1>2. CASE MockSpeaks
  <2>1. ASSUME NEW a \in Agent, NEW zone \in Downstream(actors[a]),
               actors' = [actors EXCEPT ![a] = zone], Emit(Said("agent_move", a, zone)), lives' = lives
        PROVE  StoreInv'
    <3>1. PICK e : e = Said("agent_move", a, zone)
      OBVIOUS
    <3>2. e.type = "agent_move" /\ e.agent = a /\ e.zone = zone /\ zone \in Zone
      BY <3>1, MockSound DEF Said
    <3>3. Sound(e) /\ viz' = Stored(e)
      BY <2>1, <3>1, <3>2 DEF Sound, Emit
    <3>4. viz' \in [zone : [Agent -> Zone], errors : Nat] /\ viz'.zone = [viz.zone EXCEPT ![a] = zone]
      BY <1>0, <3>2, <3>3, StoredRooms
    <3> QED
      BY <1>0, <2>1, <3>2, <3>4 DEF StoreInv
  <2>2. ASSUME NEW type \in {"task_spawn", "task_complete", "hitl_trigger"},
               Emit(Said(type, Nil, Nil)), actors' = actors, lives' = lives
        PROVE  StoreInv'
    <3>1. PICK e : e = Said(type, Nil, Nil)
      OBVIOUS
    <3>2. e.type = type
      BY <3>1 DEF Said
    <3>3. Sound(e) /\ viz' = Stored(e)
      BY <2>2, <3>1, <3>2 DEF Sound, Emit
    <3>4. viz' \in [zone : [Agent -> Zone], errors : Nat] /\ viz'.zone = viz.zone
      BY <1>0, <3>2, <3>3, StoredRooms
    <3> QED
      BY <1>0, <2>2, <3>4 DEF StoreInv
  <2> QED
    BY <1>2, <2>1, <2>2 DEF MockSpeaks
<1>3. CASE ConnectLive
  <2>1. lives' = lives + 1 /\ actors' = actors /\ viz' = viz
    BY <1>3 DEF ConnectLive
  <2> QED
    BY <1>0, <2>1 DEF StoreInv
<1>4. CASE UseMock
  <2>1. lives' = lives /\ viz' = viz /\ actors' = IF mocking THEN actors ELSE Seeded
    BY <1>4 DEF UseMock, StartMock
  <2>2. lives = 0 => mocking
    BY DEF BridgeInv
  <2>3. lives = 0 => actors' = actors
    BY <2>1, <2>2, Zenon
  <2>4. actors' = actors \/ actors' = Seeded
    BY <2>1, Zenon
  <2>5. actors' \in [Agent -> Zone]
    BY <1>0, <2>4, SeededRooms
  <2> QED
    BY <1>0, <2>1, <2>3, <2>5 DEF StoreInv
<1>5. CASE SocketCloses \/ RetryFires \/ MetricsCloses \/ MetricsRetryFires
  BY <1>1, <1>5 DEF SocketCloses, RetryFires, MetricsCloses, MetricsRetryFires
<1>6. CASE BackendSpeaks
  <2>1. PICK m \in Messages : AdaptBackendEvent(m) # Nil /\ Emit(AdaptBackendEvent(m))
    BY <1>6 DEF BackendSpeaks
  <2>2. PICK e : e = AdaptBackendEvent(m)
    OBVIOUS
  <2>3. Sound(e) /\ viz' = Stored(e)
    BY <2>1, <2>2, BackendSound DEF Emit
  <2>4. viz' \in [zone : [Agent -> Zone], errors : Nat]
    BY <1>0, <2>3, StoredRooms
  <2>5. sockets.open > 0 /\ actors' = actors /\ lives' = lives
    BY <1>6 DEF BackendSpeaks, bridge
  <2>6. lives # 0
    BY <2>5 DEF BridgeInv, SourcesBounded
  <2> QED
    BY <1>0, <2>4, <2>5, <2>6 DEF StoreInv
<1>7. CASE MetricsArrive
  <2>1. PICK errors \in 1..MaxCount : Emit([type |-> "metrics_update", errors |-> errors])
    BY <1>7 DEF MetricsArrive
  <2>2. PICK e : e = [type |-> "metrics_update", errors |-> errors]
    OBVIOUS
  <2>3. e.type = "metrics_update" /\ Sound(e) /\ viz' = Stored(e)
    BY <2>1, <2>2, VizAssumption DEF Sound, Emit
  <2>4. viz' \in [zone : [Agent -> Zone], errors : Nat] /\ viz'.zone = viz.zone
    BY <1>0, <2>3, StoredRooms
  <2>5. actors' = actors /\ lives' = lives
    BY <1>7 DEF MetricsArrive, bridge
  <2> QED
    BY <1>0, <2>4, <2>5 DEF StoreInv
<1>8. CASE Mount \/ Frame \/ Ready \/ Unmount
  BY <1>1, <1>8 DEF Mount, Frame, Ready, Unmount, Unheard, bridge
<1>9. CASE Patrol \/ \E a \in DOMAIN engine.agents : Arrive(a) \/ WorkTimer(a) \/ IdleTimer(a)
  BY <1>1, <1>9 DEF Patrol, Arrive, WorkTimer, IdleTimer, Turn, Unheard, bridge
<1> QED
  BY <1>2, <1>3, <1>4, <1>5, <1>6, <1>7, <1>8, <1>9 DEF VizNext

LEMMA VizNextInv ==
  ASSUME VizInv, VizNext
  PROVE  VizInv'
<1>1. BridgeInv /\ StoreInv
  BY DEF VizInv
<1>2. BridgeInv' /\ StoreInv' /\ EngineInv'
  BY <1>1, BridgeStep, StoreStep, EngineStep
<1> QED
  BY <1>2 DEF VizInv

(* Who stands first in a room that somebody stands in does stand there     *)
(* (resolveTargetAgent).                                                   *)
LEMMA ResolvedThere ==
  ASSUME NEW zones \in [Agent -> Zone], NEW a \in Agent
  PROVE  /\ ResolveTargetAgent(zones, zones[a]) \in Agent
         /\ zones[ResolveTargetAgent(zones, zones[a])] = zones[a]
<1> DEFINE there == {i \in DOMAIN AGENTS : zones[AGENTS[i]] = zones[a]}
<1>1. PICK k \in DOMAIN AGENTS : AGENTS[k] = a
  BY DEF Agent, ToSet
<1>2. DOMAIN AGENTS = 1..Len(AGENTS) /\ Len(AGENTS) \in Nat
  BY VizAssumption
<1>3. there # {} /\ there \in SUBSET Nat /\ there \in SUBSET DOMAIN AGENTS
  BY <1>1, <1>2
<1>4. \A i \in there : AGENTS[i] \in Agent /\ zones[AGENTS[i]] = zones[a]
  BY DEF Agent, ToSet
<1>5. ResolveTargetAgent(zones, zones[a]) = AGENTS[Min(there)]
  BY <1>3 DEF ResolveTargetAgent
<1> HIDE DEF there
<1>6. Min(there) \in there
  BY <1>3, LeastOf
<1> QED
  BY <1>4, <1>5, <1>6

LEMMA PicturesFit ==
  ASSUME VizInv
  PROVE  PicturesAgree
<1>1. /\ viz \in [zone : [Agent -> Zone], errors : Nat] /\ viz.zone \in [Agent -> Zone]
      /\ lives = 0 => actors = viz.zone
      /\ \A a \in moved : engine.agents[a].zone = viz.zone[a]
      /\ engine.errors <= viz.errors
  BY DEF VizInv, StoreInv, EngineInv
<1>2. ASSUME NEW a \in Agent, NEW h \in Handoffs(Said("agent_move", a, viz.zone[a]), viz.zone)
      PROVE  h.to # a /\ (h.to \in Agent => viz.zone[h.to] = viz.zone[a])
  <2>1. h = [from |-> a, to |-> HandedOn(a, viz.zone[a], viz.zone)]
    BY <1>2 DEF Handoffs, Said
  <2>2. PICK t : t = ResolveTargetAgent(viz.zone, viz.zone[a])
    OBVIOUS
  <2>3. t \in Agent /\ viz.zone[t] = viz.zone[a]
    BY <1>1, <2>2, ResolvedThere
  <2>4. h.to = IF t # a THEN t ELSE DispatchAgent
    BY <2>1, <2>2 DEF HandedOn
  <2>5. DispatchAgent \notin Agent
    BY VizAssumption
  <2> QED
    BY <2>3, <2>4, <2>5
<1> QED
  BY <1>1, <1>2 DEF PicturesAgree

LEMMA WorkFits ==
  ASSUME VizInv
  PROVE  WorkEnds
<1> SUFFICES ASSUME NEW a \in DOMAIN engine.agents
             PROVE  /\ engine.agents[a].state = "moving" <=> engine.agents[a].walking
                    /\ engine.agents[a].state = "working" => engine.agents[a].idles > engine.agents[a].works
  BY DEF WorkEnds
<1>1. PICK r : r = engine.agents[a]
  OBVIOUS
<1>2. Fits(r)
  BY <1>1 DEF VizInv, EngineInv
<1>3. /\ r.state = "moving" <=> r.walking
      /\ r.state = "working" => r.idles > r.works
  BY <1>2 DEF Fits
<1> QED
  BY <1>1, <1>3

-----------------------------------------------------------------------------
(* The panels: the list of events in the store                             *)

(* The elements of a concatenation and of a part of a sequence.            *)
LEMMA Joined ==
  ASSUME NEW A, NEW s \in Seq(A), NEW t \in Seq(A)
  PROVE  /\ s \o t \in Seq(A) /\ Len(s \o t) = Len(s) + Len(t)
         /\ \A k \in 1..Len(s) : (s \o t)[k] = s[k]
         /\ \A k \in 1..Len(t) : (s \o t)[Len(s) + k] = t[k]
<1>1. Len(s) \in Nat /\ Len(t) \in Nat
  OBVIOUS
<1>2. \A k \in 1..Len(s) : k <= Len(s) /\ k \in 1..(Len(s) + Len(t))
  BY <1>1
<1>3. \A k \in 1..Len(t) : ~(Len(s) + k <= Len(s)) /\ Len(s) + k \in 1..(Len(s) + Len(t)) /\ (Len(s) + k) - Len(s) = k
  BY <1>1
<1> QED
  BY <1>2, <1>3, ConcatProperties

LEMMA Cut ==
  ASSUME NEW A, NEW s \in Seq(A), NEW d \in Nat, d <= Len(s)
  PROVE  /\ SubSeq(s, d + 1, Len(s)) \in Seq(A)
         /\ Len(SubSeq(s, d + 1, Len(s))) = Len(s) - d
         /\ \A i \in 1..(Len(s) - d) : SubSeq(s, d + 1, Len(s))[i] = s[i + d]
<1>1. Len(s) \in Nat /\ d + 1 \in Int /\ Len(s) \in Int
  OBVIOUS
<1>2. \A i \in (d + 1)..Len(s) : s[i] \in A
  <2>1. \A i \in (d + 1)..Len(s) : i \in 1..Len(s)
    BY <1>1
  <2> QED
    BY <2>1
<1>3. /\ SubSeq(s, d + 1, Len(s)) \in Seq(A)
      /\ Len(SubSeq(s, d + 1, Len(s))) = IF d + 1 <= Len(s) THEN Len(s) - (d + 1) + 1 ELSE 0
      /\ \A i \in 1..(Len(s) - (d + 1) + 1) : SubSeq(s, d + 1, Len(s))[i] = s[(d + 1) + i - 1]
  BY ONLY <1>1, <1>2, SubSeqProperties
<1>4. Len(s) - (d + 1) + 1 = Len(s) - d /\ (d + 1 <= Len(s) \/ Len(s) - d = 0)
  BY <1>1
<1>5. \A i \in 1..(Len(s) - d) : (d + 1) + i - 1 = i + d
  OBVIOUS
<1> QED
  BY <1>3, <1>4, <1>5

Listed == [id : Nat, about : Performers \cup Requests \cup {NoId}]

OrderInv ==
  /\ order \in Seq(Listed) /\ arrived \in Nat
  /\ \A i \in DOMAIN order : order[i].id > 0 /\ order[i].id <= arrived
  /\ \A i, j \in DOMAIN order : i < j => order[i].id < order[j].id

(* The list after a batch of n events and the loss of the d oldest.         *)
LEMMA Gathered ==
  ASSUME OrderInv, NEW abouts \in {Performers, Requests}, Gathers(abouts)
  PROVE  \E n \in Nat, d \in Nat :
           /\ arrived' = arrived + n /\ ecosystem' = [ecosystem EXCEPT !.behind = @ + n]
           /\ order' \in Seq(Listed) /\ Len(order') = Len(order) + n - d
           /\ \A i \in DOMAIN order' :
                \/ i + d \in DOMAIN order /\ order'[i] = order[i + d]
                \/ i + d > Len(order) /\ order'[i].id = arrived + (i + d - Len(order))
<1>0. PICK n \in 1..(MaxArrivals - arrived) :
        \E batch \in [1..n -> abouts \cup {NoId}] :
          /\ order' = Newest(order \o Numbered(batch))
          /\ arrived' = arrived + n
          /\ ecosystem' = [ecosystem EXCEPT !.behind = @ + n]
  BY DEF Gathers
<1>1. PICK batch \in [1..n -> abouts \cup {NoId}] :
        /\ order' = Newest(order \o Numbered(batch))
        /\ arrived' = arrived + n
        /\ ecosystem' = [ecosystem EXCEPT !.behind = @ + n]
  BY <1>0
<1>2. arrived \in Nat /\ n \in Nat /\ order \in Seq(Listed) /\ Len(order) \in Nat
  BY PanelsAssumption DEF OrderInv
<1>3. PICK new : new = Numbered(batch)
  OBVIOUS
<1>4. new = [i \in 1..n |-> [id |-> arrived + i, about |-> batch[i]]]
  BY <1>3 DEF Numbered
<1>5. new \in Seq(Listed) /\ Len(new) = n /\ \A i \in 1..n : new[i].id = arrived + i
  <2>1. \A i \in 1..n : [id |-> arrived + i, about |-> batch[i]] \in Listed
    BY <1>2 DEF Listed
  <2>2. new \in [1..n -> Listed]
    BY <1>4, <2>1
  <2>3. new \in Seq(Listed) /\ Len(new) = n
    BY <1>2, <2>2
  <2>4. \A i \in 1..n : new[i].id = arrived + i
    BY <1>4
  <2> QED
    BY <2>3, <2>4
<1>6. PICK all : all = order \o new
  OBVIOUS
<1>7. /\ all \in Seq(Listed) /\ Len(all) = Len(order) + n
      /\ \A j \in 1..Len(order) : all[j] = order[j]
      /\ \A j \in 1..n : all[Len(order) + j] = new[j]
  <2>1. order \in Seq(Listed) /\ new \in Seq(Listed)
    BY <1>2, <1>5
  <2>2. /\ order \o new \in Seq(Listed) /\ Len(order \o new) = Len(order) + Len(new)
        /\ \A k \in 1..Len(order) : (order \o new)[k] = order[k]
        /\ \A k \in 1..Len(new) : (order \o new)[Len(order) + k] = new[k]
    BY ONLY <2>1, Joined
  <2> QED
    BY ONLY <1>5, <1>6, <2>2
<1> DEFINE d == IF Len(all) > Kept THEN Len(all) - Kept ELSE 0
<1>8. d \in Nat /\ d <= Len(all)
  BY <1>2, <1>7, PanelsAssumption
<1>9. /\ order' \in Seq(Listed) /\ Len(order') = Len(all) - d
      /\ \A i \in 1..(Len(all) - d) : order'[i] = all[i + d]
  <2>1. order' = IF Len(all) > Kept THEN SubSeq(all, Len(all) - Kept + 1, Len(all)) ELSE all
    BY <1>1, <1>3, <1>6 DEF Newest
  <2>2. CASE Len(all) > Kept
    <3>1. order' = SubSeq(all, d + 1, Len(all)) /\ d = Len(all) - Kept
      BY <2>1, <2>2
    <3> HIDE DEF d
    <3>2. /\ SubSeq(all, d + 1, Len(all)) \in Seq(Listed)
          /\ Len(SubSeq(all, d + 1, Len(all))) = Len(all) - d
          /\ \A i \in 1..(Len(all) - d) : SubSeq(all, d + 1, Len(all))[i] = all[i + d]
      <4>1. all \in Seq(Listed)
        BY <1>7
      <4> QED
        BY ONLY <4>1, <1>8, Cut
    <3> QED
      BY <1>8, <3>1, <3>2
  <2>3. CASE ~(Len(all) > Kept)
    <3>1. order' = all /\ d = 0
      BY <2>1, <2>3
    <3> QED
      BY <1>2, <1>7, <3>1
  <2> QED
    BY <2>2, <2>3
<1> HIDE DEF d
<1>10. \A i \in DOMAIN order' : \/ i + d \in DOMAIN order /\ order'[i] = order[i + d]
                                \/ i + d > Len(order) /\ order'[i].id = arrived + (i + d - Len(order))
  <2> SUFFICES ASSUME NEW i \in DOMAIN order'
               PROVE  \/ i + d \in DOMAIN order /\ order'[i] = order[i + d]
                      \/ i + d > Len(order) /\ order'[i].id = arrived + (i + d - Len(order))
    OBVIOUS
  <2>1. i \in 1..(Len(all) - d) /\ order'[i] = all[i + d]
    BY <1>9
  <2>2. CASE i + d <= Len(order)
    BY <1>2, <1>7, <1>8, <2>1, <2>2
  <2>3. CASE i + d > Len(order)
    <3>1. i + d - Len(order) \in 1..n
      BY <1>2, <1>7, <1>8, <2>1, <2>3
    <3>2. all[Len(order) + (i + d - Len(order))] = new[i + d - Len(order)]
      BY <1>7, <3>1
    <3>3. Len(order) + (i + d - Len(order)) = i + d
      BY <1>2, <1>8, <2>1
    <3> QED
      BY <1>5, <2>1, <2>3, <3>1, <3>2, <3>3
  <2> QED
    BY <1>2, <1>8, <2>1, <2>2, <2>3
<1>11. Len(order') = Len(order) + n - d
  <2>1. Len(order') = Len(all) - d /\ Len(all) = Len(order) + n
    BY <1>7, <1>9, Zenon
  <2>2. Len(order) \in Nat /\ n \in Nat /\ d \in Nat
    BY <1>2, <1>8
  <2> QED
    BY ONLY <2>1, <2>2
<1>12. \E m \in Nat :
         /\ arrived' = arrived + n /\ ecosystem' = [ecosystem EXCEPT !.behind = @ + n]
         /\ order' \in Seq(Listed) /\ Len(order') = Len(order) + n - m
         /\ \A i \in DOMAIN order' :
              \/ i + m \in DOMAIN order /\ order'[i] = order[i + m]
              \/ i + m > Len(order) /\ order'[i].id = arrived + (i + m - Len(order))
  BY ONLY <1>1, <1>8, <1>9, <1>10, <1>11
<1>13. n \in Nat
  BY <1>2
<1> QED
  BY ONLY <1>12, <1>13

(* The list without one of its events.                                     *)
LEMMA Forgotten ==
  ASSUME OrderInv, Forgets
  PROVE  \E k \in DOMAIN order :
           /\ order' \in Seq(Listed) /\ Len(order') = Len(order) - 1
           /\ \A i \in DOMAIN order' :
                \/ i < k /\ i \in DOMAIN order /\ order'[i] = order[i]
                \/ i >= k /\ i + 1 \in DOMAIN order /\ order'[i] = order[i + 1]
<1>1. PICK k \in DOMAIN order : order' = RemoveAt(order, k)
  BY DEF Forgets
<1>2. order \in Seq(Listed) /\ Len(order) \in Nat /\ k \in 1..Len(order)
  BY DEF OrderInv
<1>3. PICK a \in Seq(Listed) : a = SubSeq(order, 1, k - 1) /\ Len(a) = k - 1 /\ \A i \in 1..(k - 1) : a[i] = order[i]
  <2>1. /\ SubSeq(order, 1, k - 1) \in Seq(Listed) /\ Len(SubSeq(order, 1, k - 1)) = k - 1
        /\ \A i \in 1..(k - 1) : SubSeq(order, 1, k - 1)[i] = order[i]
    BY <1>2
  <2> QED
    BY <2>1
<1>4. PICK b \in Seq(Listed) : /\ b = SubSeq(order, k + 1, Len(order)) /\ Len(b) = Len(order) - k
                               /\ \A i \in 1..(Len(order) - k) : b[i] = order[k + i]
  <2>1. /\ SubSeq(order, k + 1, Len(order)) \in Seq(Listed) /\ Len(SubSeq(order, k + 1, Len(order))) = Len(order) - k
        /\ \A i \in 1..(Len(order) - k) : SubSeq(order, k + 1, Len(order))[i] = order[k + i]
    BY <1>2
  <2> QED
    BY <2>1
<1>5. order' = a \o b
  BY <1>1, <1>3, <1>4 DEF RemoveAt
<1>6. /\ order' \in Seq(Listed) /\ Len(order') = (k - 1) + (Len(order) - k)
      /\ \A i \in 1..(k - 1) : order'[i] = a[i]
      /\ \A i \in 1..(Len(order) - k) : order'[(k - 1) + i] = b[i]
  <2>1. a \in Seq(Listed) /\ b \in Seq(Listed)
    OBVIOUS
  <2>2. /\ a \o b \in Seq(Listed) /\ Len(a \o b) = Len(a) + Len(b)
        /\ \A i \in 1..Len(a) : (a \o b)[i] = a[i]
        /\ \A i \in 1..Len(b) : (a \o b)[Len(a) + i] = b[i]
    BY ONLY <2>1, Joined
  <2> QED
    BY ONLY <1>3, <1>4, <1>5, <2>2
<1>8. Len(order') = Len(order) - 1
  BY <1>2, <1>6
<1>7. ASSUME NEW i \in DOMAIN order'
      PROVE  \/ i < k /\ i \in DOMAIN order /\ order'[i] = order[i]
             \/ i >= k /\ i + 1 \in DOMAIN order /\ order'[i] = order[i + 1]
  <2>1. i \in 1..(Len(order) - 1)
    BY <1>6, <1>8
  <2>2. CASE i < k
    <3>1. i \in 1..(k - 1) /\ i \in 1..Len(order)
      BY <1>2, <2>1, <2>2
    <3>2. DOMAIN order = 1..Len(order)
      BY <1>2
    <3> QED
      BY <1>3, <1>6, <2>2, <3>1, <3>2
  <2>3. CASE i >= k
    <3>1. /\ i - (k - 1) \in 1..(Len(order) - k) /\ k + (i - (k - 1)) = i + 1
          /\ (k - 1) + (i - (k - 1)) = i /\ i + 1 \in 1..Len(order)
      BY <1>2, <2>1, <2>3
    <3>2. order'[(k - 1) + (i - (k - 1))] = b[i - (k - 1)] /\ b[i - (k - 1)] = order[k + (i - (k - 1))]
      BY <1>4, <1>6, <3>1
    <3>3. DOMAIN order = 1..Len(order)
      BY <1>2
    <3> QED
      BY <2>3, <3>1, <3>2, <3>3
  <2> QED
    BY <1>2, <2>1, <2>2, <2>3
<1> QED
  BY <1>6, <1>7, <1>8

LEMMA OrderGathered ==
  ASSUME OrderInv, NEW abouts \in {Performers, Requests}, Gathers(abouts)
  PROVE  OrderInv'
<1>1. PICK n \in Nat, d \in Nat :
        /\ arrived' = arrived + n
        /\ order' \in Seq(Listed) /\ Len(order') = Len(order) + n - d
        /\ \A i \in DOMAIN order' :
             \/ i + d \in DOMAIN order /\ order'[i] = order[i + d]
             \/ i + d > Len(order) /\ order'[i].id = arrived + (i + d - Len(order))
  BY Gathered
<1>2. /\ arrived \in Nat /\ order \in Seq(Listed) /\ Len(order) \in Nat
      /\ DOMAIN order = 1..Len(order) /\ DOMAIN order' = 1..Len(order')
      /\ arrived' \in Nat /\ Len(order') \in Nat
  BY <1>1 DEF OrderInv
<1>3. \A i \in DOMAIN order : order[i].id \in Nat /\ order[i].id > 0 /\ order[i].id <= arrived
  <2>1. \A i \in DOMAIN order : order[i] \in Listed
    BY <1>2
  <2>2. \A i \in DOMAIN order : order[i].id \in Nat
    BY <2>1 DEF Listed
  <2> QED
    BY <2>2 DEF OrderInv
<1>4. ASSUME NEW i \in DOMAIN order'
      PROVE  order'[i].id \in Nat /\ order'[i].id > 0 /\ order'[i].id <= arrived'
  <2>1. i \in Nat /\ i + d <= Len(order) + n
    BY <1>1, <1>2
  <2>2. CASE i + d \in DOMAIN order /\ order'[i] = order[i + d]
    <3>1. order[i + d].id \in Nat /\ order[i + d].id > 0 /\ order[i + d].id <= arrived
      BY <1>3, <2>2
    <3> QED
      BY <1>1, <1>2, <2>2, <3>1
  <2>3. CASE i + d > Len(order) /\ order'[i].id = arrived + (i + d - Len(order))
    <3>1. PICK j \in 1..n : j = i + d - Len(order)
      BY <1>2, <2>1, <2>3
    <3>2. order'[i].id = arrived + j /\ arrived' = arrived + n /\ arrived \in Nat /\ n \in Nat
      BY <1>1, <1>2, <2>3, <3>1
    <3> QED
      BY ONLY <3>2
  <2> QED
    BY <1>1, <2>2, <2>3
<1>5. ASSUME NEW i \in DOMAIN order', NEW j \in DOMAIN order', i < j
      PROVE  order'[i].id < order'[j].id
  <2>1. i \in Nat /\ j \in Nat
    BY <1>2
  <2>2. CASE j + d \in DOMAIN order /\ order'[j] = order[j + d]
    <3>1. i + d \in DOMAIN order /\ order'[i] = order[i + d]
      BY <1>1, <1>2, <1>5, <2>1, <2>2
    <3>2. order[i + d].id < order[j + d].id
      <4>1. i + d < j + d
        BY <1>1, <1>5, <2>1
      <4> QED
        BY <2>2, <3>1, <4>1 DEF OrderInv
    <3> QED
      BY <2>2, <3>1, <3>2
  <2>3. CASE j + d > Len(order) /\ order'[j].id = arrived + (j + d - Len(order))
    <3>1. CASE i + d \in DOMAIN order /\ order'[i] = order[i + d]
      <4>1. order'[i].id \in Nat /\ order'[i].id <= arrived
        BY <1>3, <3>1
      <4> QED
        BY <1>2, <2>1, <2>3, <4>1
    <3>2. CASE i + d > Len(order) /\ order'[i].id = arrived + (i + d - Len(order))
      BY <1>2, <1>5, <2>1, <2>3, <3>2
    <3> QED
      BY <1>1, <3>1, <3>2
  <2> QED
    BY <1>1, <2>2, <2>3
<1> QED
  BY <1>1, <1>2, <1>4, <1>5 DEF OrderInv

LEMMA OrderForgotten ==
  ASSUME OrderInv, Forgets
  PROVE  OrderInv'
<1>1. PICK k \in DOMAIN order :
        /\ order' \in Seq(Listed) /\ Len(order') = Len(order) - 1
        /\ \A i \in DOMAIN order' :
             \/ i < k /\ i \in DOMAIN order /\ order'[i] = order[i]
             \/ i >= k /\ i + 1 \in DOMAIN order /\ order'[i] = order[i + 1]
  BY Forgotten
<1>2. /\ arrived \in Nat /\ order \in Seq(Listed) /\ Len(order) \in Nat
      /\ DOMAIN order = 1..Len(order) /\ DOMAIN order' = 1..Len(order')
      /\ arrived' = arrived /\ k \in Nat
  BY <1>1 DEF OrderInv, Forgets
<1>3. \A i \in DOMAIN order' : order'[i].id > 0 /\ order'[i].id <= arrived'
  BY <1>1, <1>2 DEF OrderInv
<1>4. ASSUME NEW i \in DOMAIN order', NEW j \in DOMAIN order', i < j
      PROVE  order'[i].id < order'[j].id
  <2>1. i \in Nat /\ j \in Nat
    BY <1>2
  <2>2. PICK x \in DOMAIN order : order'[i] = order[x] /\ ((x = i /\ i < k) \/ (x = i + 1 /\ i >= k))
    BY <1>1
  <2>3. PICK y \in DOMAIN order : order'[j] = order[y] /\ ((y = j /\ j < k) \/ (y = j + 1 /\ j >= k))
    BY <1>1
  <2>4. x < y
    BY <1>2, <1>4, <2>1, <2>2, <2>3
  <2>5. order[x].id < order[y].id
    BY <2>4 DEF OrderInv
  <2> QED
    BY <2>2, <2>3, <2>5
<1> QED
  BY <1>1, <1>2, <1>3, <1>4 DEF OrderInv

-----------------------------------------------------------------------------
(* What the map of agents has not seen of the list.                        *)

(* It shows of the agent an event is about what that event told, or more.  *)
Covers(seen, e) == e.about # NoId => e.about \in DOMAIN seen /\ seen[e.about] >= e.id

EcoInv ==
  /\ ecosystem = [cursor |-> ecosystem.cursor, shown |-> ecosystem.shown,
                  behind |-> ecosystem.behind, burst |-> ecosystem.burst]
  /\ ecosystem.cursor \in Nat /\ ecosystem.cursor <= arrived
  /\ ecosystem.behind \in Nat /\ ecosystem.burst \in Nat

(* While bursts are small, what has come since the effect last ran is all   *)
(* that the map may miss, and stands at the end of the list.               *)
SeenInv ==
  ecosystem.burst <= Few =>
    \A i \in DOMAIN order :
      IF order[i].id <= ecosystem.cursor THEN Covers(ecosystem.shown, order[i])
      ELSE i > Len(order) - ecosystem.behind

(* An arrival, an eviction, and an event that is forgotten.                *)
LEMMA GatheredUnseen ==
  ASSUME OrderInv, EcoInv, SeenInv, NEW abouts \in {Performers, Requests}, Gathers(abouts)
  PROVE  EcoInv' /\ SeenInv'
<1>1. PICK n \in Nat, d \in Nat :
        /\ arrived' = arrived + n /\ ecosystem' = [ecosystem EXCEPT !.behind = @ + n]
        /\ order' \in Seq(Listed) /\ Len(order') = Len(order) + n - d
        /\ \A i \in DOMAIN order' :
             \/ i + d \in DOMAIN order /\ order'[i] = order[i + d]
             \/ i + d > Len(order) /\ order'[i].id = arrived + (i + d - Len(order))
  BY Gathered
<1>2. /\ arrived \in Nat /\ order \in Seq(Listed) /\ Len(order) \in Nat
      /\ DOMAIN order = 1..Len(order) /\ DOMAIN order' = 1..Len(order')
      /\ arrived' \in Nat /\ Len(order') \in Nat
  BY <1>1 DEF OrderInv
<1>3. /\ ecosystem.cursor \in Nat /\ ecosystem.cursor <= arrived
      /\ ecosystem.behind \in Nat /\ ecosystem.burst \in Nat
  BY DEF EcoInv
<1>4. ecosystem' = [cursor |-> ecosystem.cursor, shown |-> ecosystem.shown,
                    behind |-> ecosystem.behind + n, burst |-> ecosystem.burst]
  BY <1>1 DEF EcoInv
<1>5. /\ ecosystem'.cursor = ecosystem.cursor /\ ecosystem'.shown = ecosystem.shown
      /\ ecosystem'.behind = ecosystem.behind + n /\ ecosystem'.burst = ecosystem.burst
  BY <1>4
<1>6. EcoInv'
  <2>1. ecosystem.cursor <= arrived' /\ ecosystem.behind + n \in Nat
    <3>1. arrived' = arrived + n
      BY <1>1
    <3>2. arrived \in Nat
      BY <1>2
    <3> QED
      BY ONLY <1>3, <3>1, <3>2, n \in Nat
  <2>2. ecosystem' = [cursor |-> ecosystem'.cursor, shown |-> ecosystem'.shown,
                      behind |-> ecosystem'.behind, burst |-> ecosystem'.burst]
    BY <1>4, <1>5
  <2>3. /\ ecosystem'.cursor \in Nat /\ ecosystem'.cursor <= arrived'
        /\ ecosystem'.behind \in Nat /\ ecosystem'.burst \in Nat
    BY <1>3, <1>5, <2>1
  <2> QED
    BY <2>2, <2>3 DEF EcoInv
<1>7. SeenInv'
  <2> SUFFICES ASSUME ecosystem.burst <= Few, NEW i \in DOMAIN order'
               PROVE  IF order'[i].id <= ecosystem.cursor THEN Covers(ecosystem.shown, order'[i])
                      ELSE i > Len(order') - (ecosystem.behind + n)
    BY <1>5 DEF SeenInv, Covers
  <2>1. i \in Nat
    BY <1>2
  <2>2. CASE i + d \in DOMAIN order /\ order'[i] = order[i + d]
    <3>1. IF order[i + d].id <= ecosystem.cursor THEN Covers(ecosystem.shown, order[i + d])
          ELSE i + d > Len(order) - ecosystem.behind
      BY <2>2 DEF SeenInv
    <3>2. i + d > Len(order) - ecosystem.behind => i > Len(order') - (ecosystem.behind + n)
      BY <1>1, <1>2, <1>3, <2>1
    <3>3. PICK x : x = order[i + d] /\ x = order'[i]
      BY <2>2
    <3> QED
      BY <3>1, <3>2, <3>3
  <2>3. CASE i + d > Len(order) /\ order'[i].id = arrived + (i + d - Len(order))
    <3>1. ~(order'[i].id <= ecosystem.cursor)
      BY <1>2, <1>3, <2>1, <2>3
    <3>2. i > Len(order') - (ecosystem.behind + n)
      <4>1. i + d > Len(order) /\ Len(order') = Len(order) + n - d
        BY <1>1, <2>3
      <4>2. Len(order) \in Nat /\ ecosystem.behind \in Nat
        BY <1>2, <1>3
      <4> QED
        BY ONLY <2>1, <4>1, <4>2, n \in Nat, d \in Nat
    <3> QED
      BY <3>1, <3>2
  <2> QED
    BY <1>1, <2>2, <2>3
<1> QED
  BY <1>6, <1>7

LEMMA ForgottenUnseen ==
  ASSUME OrderInv, EcoInv, SeenInv, Forgets
  PROVE  EcoInv' /\ SeenInv'
<1>1. PICK k \in DOMAIN order :
        /\ order' \in Seq(Listed) /\ Len(order') = Len(order) - 1
        /\ \A i \in DOMAIN order' :
             \/ i < k /\ i \in DOMAIN order /\ order'[i] = order[i]
             \/ i >= k /\ i + 1 \in DOMAIN order /\ order'[i] = order[i + 1]
  BY Forgotten
<1>2. /\ order \in Seq(Listed) /\ Len(order) \in Nat /\ DOMAIN order' = 1..Len(order')
      /\ arrived' = arrived /\ ecosystem' = ecosystem /\ ecosystem.behind \in Nat
  BY <1>1 DEF OrderInv, Forgets, EcoInv
<1>3. EcoInv'
  BY <1>2 DEF EcoInv
<1>4. SeenInv'
  <2> SUFFICES ASSUME ecosystem.burst <= Few, NEW i \in DOMAIN order'
               PROVE  IF order'[i].id <= ecosystem.cursor THEN Covers(ecosystem.shown, order'[i])
                      ELSE i > Len(order') - ecosystem.behind
    BY <1>2 DEF SeenInv
  <2>1. i \in Nat
    BY <1>2
  <2>2. PICK x \in DOMAIN order : order'[i] = order[x] /\ (x = i \/ x = i + 1)
    BY <1>1
  <2>3. IF order[x].id <= ecosystem.cursor THEN Covers(ecosystem.shown, order[x])
        ELSE x > Len(order) - ecosystem.behind
    BY DEF SeenInv
  <2>4. x > Len(order) - ecosystem.behind => i > Len(order') - ecosystem.behind
    BY <1>1, <1>2, <2>1, <2>2
  <2> QED
    BY <2>2, <2>3, <2>4
<1> QED
  BY <1>3, <1>4

LEMMA GreaterOfTwo ==
  ASSUME NEW a \in Nat, NEW b \in Nat
  PROVE  Max({a, b}) \in Nat /\ Max({a, b}) >= a /\ Max({a, b}) >= b
<1>1. \E x \in {a, b} : \A y \in {a, b} : x >= y
  <2>1. CASE a >= b
    BY <2>1
  <2>2. CASE b >= a
    BY <2>2
  <2> QED
    BY <2>1, <2>2
<1>2. Max({a, b}) \in {a, b} /\ \A y \in {a, b} : Max({a, b}) >= y
  BY <1>1 DEF Max
<1> QED
  BY <1>2

(* Where the effect looks: at an end of the list, which is all that is      *)
(* newer than its cursor as long as the store has the cursor's event.      *)
LEMMA Looked ==
  ASSUME OrderInv, NEW c \in Nat
  PROVE  /\ After(c) \in SUBSET DOMAIN order
         /\ \A i \in After(c), j \in DOMAIN order : j > i => j \in After(c)
         /\ Places(c) # {} => \A i \in DOMAIN order : i \in After(c) <=> order[i].id > c
         /\ Places(c) = {} => \A i \in DOMAIN order : i \in After(c) <=> i > Len(order) - Few
<1>1. /\ order \in Seq(Listed) /\ Len(order) \in Nat /\ DOMAIN order = 1..Len(order) /\ Few \in Nat
      /\ \A i, j \in DOMAIN order : i < j => order[i].id < order[j].id
  BY PanelsAssumption DEF OrderInv
<1>2. \A i \in DOMAIN order : i \in Nat /\ order[i].id \in Nat
  <2>1. \A i \in DOMAIN order : order[i] \in Listed
    BY <1>1
  <2> QED
    BY <1>1, <2>1 DEF Listed
<1>3. CASE Places(c) = {}
  <2>1. After(c) = {i \in DOMAIN order : i > Len(order) - Few}
    BY <1>3 DEF After
  <2>2. \A i \in After(c), j \in DOMAIN order : j > i => j > Len(order) - Few
    BY <1>1, <2>1
  <2> QED
    BY <1>3, <2>1, <2>2
<1>4. CASE Places(c) # {}
  <2>1. PICK k \in DOMAIN order : order[k].id = c
    BY <1>4 DEF Places
  <2>2. \A j \in Places(c) : j = k
    <3> SUFFICES ASSUME NEW j \in DOMAIN order, order[j].id = c PROVE j = k
      BY DEF Places
    <3>1. ~(j < k) /\ ~(k < j)
      BY <1>1, <1>2, <2>1
    <3> QED
      BY <1>2, <3>1
  <2>3. After(c) = {i \in DOMAIN order : i > k}
    <3>1. After(c) = {i \in DOMAIN order : \A j \in Places(c) : i > j}
      BY <1>4 DEF After
    <3>2. k \in Places(c)
      BY <2>1 DEF Places
    <3> QED
      BY <2>2, <3>1, <3>2
  <2>4. \A i \in DOMAIN order : i > k <=> order[i].id > c
    <3> SUFFICES ASSUME NEW i \in DOMAIN order PROVE i > k <=> order[i].id > c
      OBVIOUS
    <3>1. i < k => order[i].id < c
      BY <1>1, <2>1
    <3>2. k < i => c < order[i].id
      BY <1>1, <2>1
    <3> QED
      BY <1>2, <2>1, <3>1, <3>2
  <2>5. \A i \in After(c), j \in DOMAIN order : j > i => j > k
    BY <1>2, <2>3
  <2> QED
    BY <1>4, <2>3, <2>4, <2>5
<1> QED
  BY <1>3, <1>4

(* What the effect tells of the agents: their latest events at the places    *)
(* it looked at, and nothing older of any.                                 *)
LEMMA ToldCovers ==
  ASSUME OrderInv, NEW places \in SUBSET DOMAIN order, NEW seen, NEW i \in DOMAIN order,
         i \in places \/ (Covers(seen, order[i]) /\ \A j \in places : i < j)
  PROVE  Covers(LastTold(seen, places), order[i])
<1> DEFINE a == order[i].about
           S == {k \in places : order[k].about = a}
<1>1. SUFFICES ASSUME a # NoId
               PROVE  a \in DOMAIN LastTold(seen, places) /\ LastTold(seen, places)[a] >= order[i].id
  BY DEF Covers
<1>2. /\ order \in Seq(Listed) /\ Len(order) \in Nat /\ DOMAIN order = 1..Len(order)
      /\ \A j, k \in DOMAIN order : j < k => order[j].id < order[k].id
  BY DEF OrderInv
<1>3. \A j \in DOMAIN order : j \in Nat /\ order[j].id \in Nat
  <2>1. \A j \in DOMAIN order : order[j] \in Listed
    BY <1>2
  <2> QED
    BY <1>2, <2>1 DEF Listed
<1>4. a \in DOMAIN seen \/ S # {} => a \in DOMAIN LastTold(seen, places)
  <2>1. DOMAIN LastTold(seen, places) = DOMAIN seen \cup ({order[j].about : j \in places} \ {NoId})
    BY DEF LastTold
  <2> QED
    BY <1>1, <2>1
<1>5. a \in DOMAIN LastTold(seen, places) =>
        LastTold(seen, places)[a] = IF S = {} THEN seen[a] ELSE order[Max(S)].id
  BY DEF LastTold
<1>6. CASE S = {}
  <2>1. i \notin places
    BY <1>6
  <2>2. a \in DOMAIN seen /\ seen[a] >= order[i].id
    BY <1>1, <2>1 DEF Covers
  <2> HIDE DEF a, S
  <2> QED
    BY <1>4, <1>5, <1>6, <2>2
<1>7. CASE S # {}
  <2>1. S \in SUBSET (1..Len(order))
    BY <1>2
  <2>2. S \subseteq places /\ (i \in places => i \in S)
    OBVIOUS
  <2> HIDE DEF a, S
  <2>3. Max(S) \in S /\ \A y \in S : Max(S) >= y
    BY ONLY <1>2, <1>7, <2>1, GreatestOf
  <2>4. Max(S) \in DOMAIN order /\ Max(S) \in Nat /\ i \in Nat
    BY <1>3, <2>2, <2>3
  <2>5. Max(S) >= i
    BY <2>2, <2>3, <2>4
  <2>6. order[Max(S)].id >= order[i].id
    <3>1. CASE Max(S) = i
      BY <1>3, <3>1
    <3>2. CASE i < Max(S)
      BY <1>2, <1>3, <2>4, <3>2
    <3> QED
      BY <2>4, <2>5, <3>1, <3>2
  <2> QED
    BY <1>4, <1>5, <1>7, <2>6
<1> QED
  BY <1>6, <1>7

LEMMA EffectSees ==
  ASSUME OrderInv, EcoInv, SeenInv, EcosystemEffect
  PROVE  EcoInv' /\ SeenInv'
<1> DEFINE c == ecosystem.cursor
           new == After(c)
           looked == {i \in new : i < Min(new) + Many}
           burst == Max({ecosystem.burst, ecosystem.behind})
<1>1. /\ order \in Seq(Listed) /\ order # <<>> /\ Len(order) \in Nat /\ DOMAIN order = 1..Len(order)
      /\ arrived \in Nat /\ order' = order /\ arrived' = arrived
  BY DEF OrderInv, EcosystemEffect
<1>2. /\ c \in Nat /\ c <= arrived /\ ecosystem.behind \in Nat /\ ecosystem.burst \in Nat
      /\ Few \in Nat /\ Many \in Nat /\ Few <= Many
  BY PanelsAssumption DEF EcoInv
<1>3. ecosystem' = [cursor |-> IF new = {} THEN c ELSE Last(order).id,
                    shown |-> LastTold(ecosystem.shown, looked), behind |-> 0, burst |-> burst]
  BY DEF EcosystemEffect
<1>4. Last(order) = order[Len(order)] /\ Len(order) \in DOMAIN order
  <2>1. Len(order) # 0
    BY <1>1
  <2> QED
    BY <1>1, <2>1 DEF Last
<1>5. \A i \in DOMAIN order : /\ order[i].id \in Nat /\ order[i].id <= arrived
                              /\ order[i].id <= Last(order).id
  <2>1. \A i \in DOMAIN order : order[i] \in Listed
    BY <1>1
  <2>2. \A i \in DOMAIN order : order[i].id \in Nat /\ order[i].id <= arrived
    BY <2>1 DEF Listed, OrderInv
  <2>3. \A i \in DOMAIN order : i = Len(order) \/ i < Len(order)
    BY <1>1
  <2>4. \A i \in DOMAIN order : i < Len(order) => order[i].id < order[Len(order)].id
    BY <1>4 DEF OrderInv
  <2>5. \A i \in DOMAIN order : order[i].id <= order[Len(order)].id
    BY <1>4, <2>2, <2>3, <2>4
  <2> QED
    BY <1>4, <2>2, <2>5
<1>6. /\ new \in SUBSET DOMAIN order
      /\ \A i \in new, j \in DOMAIN order : j > i => j \in new
      /\ Places(c) # {} => \A i \in DOMAIN order : i \in new <=> order[i].id > c
      /\ Places(c) = {} => \A i \in DOMAIN order : i \in new <=> i > Len(order) - Few
  BY <1>2, Looked
<1>7. burst \in Nat /\ burst >= ecosystem.burst /\ burst >= ecosystem.behind
  BY <1>2, GreaterOfTwo
<1>8. looked \subseteq new
  OBVIOUS
<1> DEFINE last == Last(order).id
           seen == LastTold(ecosystem.shown, looked)
           cursor == IF new = {} THEN c ELSE last
<1>9. /\ ecosystem'.cursor = cursor /\ ecosystem'.shown = seen
      /\ ecosystem'.behind = 0 /\ ecosystem'.burst = burst
  BY <1>3
<1>10. cursor \in Nat /\ cursor <= arrived
  BY <1>2, <1>4, <1>5
<1>11. EcoInv'
  <2>1. ecosystem' = [cursor |-> ecosystem'.cursor, shown |-> ecosystem'.shown,
                      behind |-> ecosystem'.behind, burst |-> ecosystem'.burst]
    BY <1>3
  <2> HIDE DEF cursor, seen, burst
  <2> QED
    BY <1>1, <1>7, <1>9, <1>10, <2>1 DEF EcoInv
<1>12. ASSUME burst <= Few, NEW i \in DOMAIN order
       PROVE  order[i].id <= cursor /\ Covers(seen, order[i])
  <2> HIDE DEF burst
  <2>1. /\ ecosystem.burst <= Few /\ ecosystem.behind <= Few
    BY <1>2, <1>7, <1>12
  <2>2. \A j \in DOMAIN order : order[j].id > c => j > Len(order) - ecosystem.behind
    BY <1>2, <1>5, <2>1 DEF SeenInv
  <2>3. \A j \in DOMAIN order : order[j].id > c => j \in new
    <3> HIDE DEF new
    <3>1. \A j \in DOMAIN order : j > Len(order) - ecosystem.behind => j > Len(order) - Few
      BY <1>1, <1>2, <2>1
    <3> QED
      BY <1>6, <2>2, <3>1
  <2>4. \A j \in new : j > Len(order) - Few
    <3> HIDE DEF new
    <3>1. CASE Places(c) = {}
      BY <1>6, <3>1
    <3>2. CASE Places(c) # {}
      <4>1. \A j \in new : j > Len(order) - ecosystem.behind
        BY <1>6, <2>2, <3>2
      <4>2. \A j \in new : j \in Nat
        BY <1>1, <1>6
      <4> QED
        BY <1>1, <1>2, <2>1, <4>1, <4>2
    <3> QED
      BY <3>1, <3>2
  <2>5. \A j \in new : j \in looked
    <3> SUFFICES ASSUME NEW j \in new PROVE j < Min(new) + Many
      OBVIOUS
    <3> HIDE DEF new
    <3>1. new \in SUBSET Nat /\ new # {}
      BY <1>1, <1>6
    <3>2. Min(new) \in new
      BY ONLY <3>1, LeastOf
    <3>3. Min(new) > Len(order) - Few /\ Min(new) \in Nat
      BY <2>4, <3>1, <3>2
    <3>4. j \in Nat /\ j <= Len(order)
      BY <1>1, <1>6
    <3> QED
      BY <1>1, <1>2, <3>3, <3>4
  <2>6. order[i].id <= cursor
    <3>1. CASE new = {}
      BY <1>2, <1>5, <2>3, <3>1
    <3>2. CASE new # {}
      BY <1>5, <3>2
    <3> QED
      BY <3>1, <3>2
  <2>7. i \in looked \/ (Covers(ecosystem.shown, order[i]) /\ \A j \in looked : i < j)
    <3>1. CASE i \in new
      BY <2>5, <3>1
    <3>2. CASE i \notin new
      <4>1. order[i].id <= c
        BY <1>2, <1>5, <2>3, <3>2
      <4>2. Covers(ecosystem.shown, order[i])
        BY <2>1, <4>1 DEF SeenInv
      <4>3. \A j \in looked : i < j
        <5> SUFFICES ASSUME NEW j \in looked PROVE i < j
          OBVIOUS
        <5>1. j \in new /\ j \in DOMAIN order
          BY <1>6
        <5> HIDE DEF new, looked
        <5>2. j \in Nat /\ i \in Nat /\ j # i /\ ~(i > j)
          BY <1>1, <1>6, <3>2, <5>1
        <5> QED
          BY <5>2
      <4> QED
        BY <4>2, <4>3
    <3> QED
      BY <3>1, <3>2
  <2>8. looked \in SUBSET DOMAIN order
    BY <1>6, <1>8
  <2> HIDE DEF looked
  <2>9. Covers(LastTold(ecosystem.shown, looked), order[i])
    BY ONLY OrderInv, <1>12, <2>7, <2>8, ToldCovers
  <2> QED
    BY <2>6, <2>9
<1>13. SeenInv'
  <2> HIDE DEF cursor, seen, burst
  <2> QED
    BY <1>1, <1>9, <1>12 DEF SeenInv
<1> QED
  BY <1>11, <1>13

(* An answer of the registry, and the panel opened again.                  *)
LEMMA NamedUnseen ==
  ASSUME OrderInv, EcoInv, SeenInv, RegistryAnswers \/ EcosystemReopened
  PROVE  EcoInv' /\ SeenInv'
<1>1. /\ order' = order /\ arrived' = arrived /\ order \in Seq(Listed) /\ Len(order) \in Nat
      /\ DOMAIN order = 1..Len(order) /\ arrived \in Nat
  BY DEF OrderInv, RegistryAnswers, EcosystemReopened
<1>2. CASE RegistryAnswers
  <2>1. PICK named \in SUBSET Performers :
          ecosystem' = [ecosystem EXCEPT !.shown =
                          [a \in DOMAIN @ \cup named |-> IF a \in DOMAIN @ THEN @[a] ELSE 0]]
    BY <1>2 DEF RegistryAnswers
  <2> DEFINE former == ecosystem.shown
             seen == [a \in DOMAIN former \cup named |-> IF a \in DOMAIN former THEN former[a] ELSE 0]
  <2>2. ecosystem' = [cursor |-> ecosystem.cursor, shown |-> seen,
                      behind |-> ecosystem.behind, burst |-> ecosystem.burst]
    BY <2>1 DEF EcoInv
  <2>3. /\ ecosystem'.cursor = ecosystem.cursor /\ ecosystem'.shown = seen
        /\ ecosystem'.behind = ecosystem.behind /\ ecosystem'.burst = ecosystem.burst
    BY <2>2
  <2>4. \A a \in DOMAIN former : a \in DOMAIN seen /\ seen[a] = former[a]
    OBVIOUS
  <2> HIDE DEF seen
  <2>5. ecosystem' = [cursor |-> ecosystem'.cursor, shown |-> ecosystem'.shown,
                      behind |-> ecosystem'.behind, burst |-> ecosystem'.burst]
    BY <2>2, <2>3
  <2>6. EcoInv'
    BY <1>1, <2>3, <2>5 DEF EcoInv
  <2>7. \A i \in DOMAIN order : Covers(former, order[i]) => Covers(seen, order[i])
    BY <2>4 DEF Covers
  <2>8. SeenInv'
    BY <1>1, <2>3, <2>7 DEF SeenInv
  <2> QED
    BY <2>6, <2>8
<1>3. CASE EcosystemReopened
  <2>1. ecosystem' = [cursor |-> 0, shown |-> <<>>, behind |-> Len(order), burst |-> 0]
    BY <1>3 DEF EcosystemReopened, EcosystemOpened
  <2>2. EcoInv'
    BY <1>1, <2>1 DEF EcoInv
  <2>3. \A i \in DOMAIN order : order[i].id > 0 /\ i > Len(order) - Len(order)
    BY <1>1 DEF OrderInv
  <2>4. \A i \in DOMAIN order : order[i].id \in Nat
    <3>1. \A i \in DOMAIN order : order[i] \in Listed
      BY <1>1
    <3> QED
      BY <3>1 DEF Listed
  <2>5. \A i \in DOMAIN order : ~(order[i].id <= 0)
    BY <2>3, <2>4
  <2>6. SeenInv'
    BY <1>1, <2>1, <2>3, <2>5 DEF SeenInv
  <2> QED
    BY <2>2, <2>6
<1> QED
  BY <1>2, <1>3

LEMMA NothingUnseen ==
  ASSUME OrderInv, EcoInv, SeenInv
  PROVE  NothingMissedOutsideBursts
<1> SUFFICES ASSUME ecosystem.behind = 0, ecosystem.burst <= Few, NEW i \in DOMAIN order
             PROVE  Covers(ecosystem.shown, order[i])
  BY DEF NothingMissedOutsideBursts, Covers
<1>1. order \in Seq(Listed) /\ Len(order) \in Nat /\ DOMAIN order = 1..Len(order)
  BY DEF OrderInv
<1>2. ~(i > Len(order) - 0)
  BY <1>1
<1> QED
  BY <1>2 DEF SeenInv

-----------------------------------------------------------------------------
(* The panels: whose detail is shown                                      *)

(* What is set again when the selection changes is on its way until then   *)
(* for the record selected alone, and after that shown for it alone.      *)
DetailInv ==
  /\ DOMAIN diagnostics = {"records", "list", "selected", "detail", "loading", "failed", "changed"}
  /\ diagnostics.failed \in BOOLEAN
  /\ "detail" \notin diagnostics.changed =>
       /\ diagnostics.loading \subseteq {diagnostics.selected}
       /\ (diagnostics.loading = {} /\ ~diagnostics.failed) => diagnostics.detail \in {NoId, diagnostics.selected}

LEMMA EffectsFit ==
  ASSUME DetailInv, DiagnosticsEffects
  PROVE  DetailInv'
<1> DEFINE d == diagnostics
           heard == "events" \in d.changed /\ order # <<>> /\ Last(order).about \in Requests
           latest == IF heard THEN Last(order).about ELSE NoId
           chosen == heard /\ TraceOf[latest] \in {selection.request, selection.trace}
           redo == "detail" \in d.changed
           known == d.selected \in d.records
           following == "selection" \in d.changed /\ External \notin {NoId, d.selected}
           selected == IF following THEN External ELSE IF chosen THEN latest ELSE d.selected
           records == IF heard THEN d.records \cup {latest} ELSE d.records
           detail == IF redo /\ ~known THEN NoId ELSE IF chosen THEN latest ELSE d.detail
           loading == IF redo THEN Reloaded(known) ELSE d.loading
           failing == d.failed /\ ~redo
           changed == (IF heard THEN {"detail"} ELSE {})
                      \cup (IF selected # d.selected THEN {"detail", "selection"} ELSE {})
<1>1. diagnostics' = [diagnostics EXCEPT !.records = records, !.selected = selected, !.detail = detail,
                                         !.loading = loading, !.failed = failing, !.changed = changed]
  BY DEF DiagnosticsEffects
<1>2. failing \in BOOLEAN
  OBVIOUS
<1>3. /\ DOMAIN diagnostics' = {"records", "list", "selected", "detail", "loading", "failed", "changed"}
      /\ diagnostics'.selected = selected /\ diagnostics'.detail = detail
      /\ diagnostics'.loading = loading /\ diagnostics'.failed = failing /\ diagnostics'.changed = changed
  <2> HIDE DEF records, selected, detail, loading, failing, changed
  <2> QED
    BY <1>1, Zenon DEF DetailInv
<1>4. ASSUME "detail" \notin changed
      PROVE  /\ loading \subseteq {selected}
             /\ (loading = {} /\ ~failing) => detail \in {NoId, selected}
  <2>1. ~heard /\ ~chosen /\ selected = d.selected
    <3>1. ~heard
      BY <1>4
    <3>2. ~(selected # d.selected)
      <4> HIDE DEF selected, heard
      <4> QED
        BY <1>4
    <3> QED
      BY <3>1, <3>2
  <2>2. CASE redo
    <3>1. loading = IF known THEN {d.selected} ELSE {}
      BY <2>2 DEF Reloaded
    <3>2. ~known => detail = NoId
      BY <2>2
    <3> QED
      <4> HIDE DEF loading, selected, detail, failing, known
      <4> QED
        BY <2>1, <3>1, <3>2
  <2>3. CASE ~redo
    <3>1. loading = d.loading /\ (~failing => ~d.failed) /\ detail = d.detail
      BY <2>1, <2>3
    <3>2. /\ d.loading \subseteq {d.selected}
          /\ (d.loading = {} /\ ~d.failed) => d.detail \in {NoId, d.selected}
      BY <2>3 DEF DetailInv
    <3> QED
      <4> HIDE DEF loading, selected, detail, failing
      <4> QED
        BY <2>1, <3>1, <3>2
  <2> QED
    BY <2>2, <2>3
<1> HIDE DEF selected, detail, loading, failing, changed
<1> QED
  BY <1>2, <1>3, <1>4 DEF DetailInv

LEMMA DetailStep ==
  ASSUME DetailInv, DiagnosticsNext
  PROVE  DetailInv'
<1> USE DEF DetailInv
<1>1. CASE StoreTurns(Requests)
  <2>1. diagnostics' = [diagnostics EXCEPT !.changed = diagnostics.changed \cup {"events"}]
    BY <1>1 DEF StoreTurns
  <2> QED
    BY <2>1
<1>2. CASE DiagnosticsEffects
  BY <1>2, EffectsFit
<1>3. CASE ListAnswers
  <2>1. CASE diagnostics' = [diagnostics EXCEPT !.list = "failed"]
    BY <2>1
  <2>2. CASE \E stored \in SUBSET Requests :
               diagnostics' = [diagnostics EXCEPT !.list = "shown", !.records = stored,
                                                  !.changed = @ \cup {"detail"}]
    BY <2>2
  <2> QED
    BY <1>3, <2>1, <2>2 DEF ListAnswers
<1>4. CASE SelectedElsewhere
  <2>1. diagnostics' = [diagnostics EXCEPT !.changed = diagnostics.changed \cup {"events", "selection"}]
    BY <1>4 DEF SelectedElsewhere
  <2> QED
    BY <2>1
<1>5. CASE DiagnosticsReopened
  BY <1>5 DEF DiagnosticsReopened, DiagnosticsOpened
<1>6. ASSUME NEW r \in Requests, DetailAnswers(r)
      PROVE  DetailInv'
  <2>1. r \in diagnostics.loading
    BY <1>6 DEF DetailAnswers
  <2>2. CASE diagnostics' = [diagnostics EXCEPT !.loading = @ \ {r}, !.detail = r]
    BY <2>1, <2>2
  <2>3. CASE diagnostics' = [diagnostics EXCEPT !.loading = @ \ {r}, !.failed = TRUE]
    BY <2>1, <2>3
  <2> QED
    BY <1>6, <2>2, <2>3 DEF DetailAnswers
<1>7. ASSUME NEW r \in Requests, RowClicked(r)
      PROVE  DetailInv'
  <2> DEFINE more == diagnostics.changed \cup (IF selection = selection' THEN {} ELSE {"events", "selection"})
                       \cup (IF diagnostics.selected = r THEN {} ELSE {"detail", "selection"})
  <2>1. diagnostics' = [diagnostics EXCEPT !.selected = r, !.changed = more]
    BY <1>7 DEF RowClicked
  <2>2. "detail" \notin more => "detail" \notin diagnostics.changed /\ r = diagnostics.selected
    OBVIOUS
  <2> HIDE DEF more
  <2> QED
    BY <2>1, <2>2
<1> QED
  BY <1>1, <1>2, <1>3, <1>4, <1>5, <1>6, <1>7 DEF DiagnosticsNext

-----------------------------------------------------------------------------
(* The panels together                                                     *)

PanelsInv == OrderInv /\ EcoInv /\ SeenInv /\ DetailInv

LEMMA PanelsInitInv == PanelsInit => PanelsInv
<1> SUFFICES ASSUME PanelsInit PROVE PanelsInv
  OBVIOUS
<1> USE DEF PanelsInit
<1>1. OrderInv
  BY DEF OrderInv
<1>2. EcoInv /\ SeenInv
  BY DEF EcosystemOpened, EcoInv, SeenInv
<1>3. DetailInv
  BY DEF DiagnosticsOpened, DetailInv
<1> QED
  BY <1>1, <1>2, <1>3 DEF PanelsInv

LEMMA StoreTurned ==
  ASSUME PanelsInv, NEW abouts \in {Performers, Requests}, StoreTurns(abouts)
  PROVE  PanelsInv'
<1>1. OrderInv /\ EcoInv /\ SeenInv /\ DetailInv
  BY DEF PanelsInv
<1>2. Gathers(abouts) \/ Forgets
  BY DEF StoreTurns
<1>3. OrderInv'
  BY <1>1, <1>2, OrderGathered, OrderForgotten
<1>4. EcoInv' /\ SeenInv'
  BY <1>1, <1>2, GatheredUnseen, ForgottenUnseen
<1>5. diagnostics' = [diagnostics EXCEPT !.changed = diagnostics.changed \cup {"events"}]
  BY DEF StoreTurns
<1>6. DetailInv'
  BY <1>1, <1>5 DEF DetailInv
<1> QED
  BY <1>3, <1>4, <1>6 DEF PanelsInv

LEMMA PanelsNextInv ==
  ASSUME PanelsInv, EcosystemNext \/ DiagnosticsNext
  PROVE  PanelsInv'
<1>1. OrderInv /\ EcoInv /\ SeenInv /\ DetailInv
  BY DEF PanelsInv
<1>2. CASE StoreTurns(Performers) \/ StoreTurns(Requests)
  BY <1>2, StoreTurned
<1>3. CASE EcosystemEffect \/ RegistryAnswers \/ EcosystemReopened
  <2>1. /\ order' = order /\ arrived' = arrived /\ diagnostics' = diagnostics
    BY <1>3 DEF EcosystemEffect, RegistryAnswers, EcosystemReopened
  <2>2. OrderInv' /\ DetailInv'
    BY <1>1, <2>1 DEF OrderInv, DetailInv
  <2>3. EcoInv' /\ SeenInv'
    BY <1>1, <1>3, EffectSees, NamedUnseen
  <2> QED
    BY <2>2, <2>3 DEF PanelsInv
<1>4. CASE DiagnosticsNext /\ ~StoreTurns(Requests)
  <2>1. order' = order /\ arrived' = arrived /\ ecosystem' = ecosystem
    BY <1>4 DEF DiagnosticsNext, DiagnosticsEffects, ListAnswers, SelectedElsewhere, DiagnosticsReopened,
                DetailAnswers, RowClicked
  <2>2. OrderInv' /\ EcoInv' /\ SeenInv'
    BY <1>1, <2>1 DEF OrderInv, EcoInv, SeenInv
  <2>3. DetailInv'
    BY <1>1, <1>4, DetailStep
  <2> QED
    BY <2>2, <2>3 DEF PanelsInv
<1> QED
  BY <1>2, <1>3, <1>4 DEF EcosystemNext

-----------------------------------------------------------------------------
(* The clients together: a step of one leaves the others as they are       *)

FrontInv == WsInv /\ SdkInv /\ VizInv /\ PanelsInv

LEMMA WsKept == ASSUME WsInv, UNCHANGED wsVars PROVE WsInv'
BY DEF WsInv, wsVars, ConnectionsBounded, Timers

LEMMA SdkKept == ASSUME SdkInv, UNCHANGED sdkVars PROVE SdkInv'
BY DEF SdkInv, sdkVars, SdkTypes, LinksBounded, TellingInv, Holding, Asked

LEMMA VizKept == ASSUME VizInv, UNCHANGED vizVars PROVE VizInv'
<1>1. viz' = viz /\ engine' = engine /\ moved' = moved
  BY DEF vizVars
<1>2. sockets' = sockets /\ lives' = lives /\ mocking' = mocking /\ actors' = actors
  BY DEF vizVars, bridge
<1>3. BridgeInv' /\ StoreInv'
  BY <1>1, <1>2 DEF VizInv, BridgeInv, StoreInv, SourcesBounded
<1>4. EngineInv'
  BY <1>1 DEF VizInv, EngineInv
<1> QED
  BY <1>3, <1>4 DEF VizInv

LEMMA PanelsKept == ASSUME PanelsInv, UNCHANGED panelVars PROVE PanelsInv'
BY DEF PanelsInv, panelVars, OrderInv, EcoInv, SeenInv, DetailInv

LEMMA FrontInitInv == Init => FrontInv
BY WsInitInv, SdkInitInv, VizInitInv, PanelsInitInv DEF Init, FrontInv

LEMMA FrontNextInv ==
  ASSUME FrontInv, [Next]_<<wsVars, sdkVars, vizVars, panelVars, client>>
  PROVE  FrontInv'
<1>1. WsInv /\ SdkInv /\ VizInv /\ PanelsInv
  BY DEF FrontInv
<1>2. WsInv'
  <2>1. WsNext \/ UNCHANGED wsVars
    BY DEF Next, Others
  <2> QED
    BY <1>1, <2>1, WsNextInv, WsKept
<1>3. SdkInv'
  <2>1. SdkNext \/ UNCHANGED sdkVars
    BY DEF Next, Others
  <2> QED
    BY <1>1, <2>1, SdkNextInv, SdkKept
<1>4. VizInv'
  <2>1. VizNext \/ UNCHANGED vizVars
    BY DEF Next, Others, Views
  <2> QED
    BY <1>1, <2>1, VizNextInv, VizKept
<1>5. PanelsInv'
  <2>1. EcosystemNext \/ DiagnosticsNext \/ UNCHANGED panelVars
    BY DEF Next, Others, Diagnostics
  <2> QED
    BY <1>1, <2>1, PanelsNextInv, PanelsKept
<1> QED
  BY <1>2, <1>3, <1>4, <1>5 DEF FrontInv

LEMMA FrontInvariant == Spec => []FrontInv
BY FrontInitInv, FrontNextInv, PTL DEF Spec

-----------------------------------------------------------------------------
(* What the runs check of the clients, for any number of sockets, events,   *)
(* agents, rooms, requests and any bounds                                  *)

(* Only clicks and calls multiply connections, in each of the three clients *)
(* that reconnect by themselves (useWebSocket.connect, WebSocketConnector  *)
(* and VizBridge): whatever sockets are replaced, closed or lost and        *)
(* whatever timers nothing names any longer, sockets and timers are no more *)
(* than the times somebody asked to connect, and a subscriber of the SDK is *)
(* told of an event no more often than that and once for the answer.       *)
THEOREM OnlyClicksMultiplyAlways == Spec => []OnlyClicksMultiply
<1>1. FrontInv => OnlyClicksMultiply
  BY SdkTells DEF FrontInv, OnlyClicksMultiply, WsInv, SdkInv, VizInv, BridgeInv
<1> QED
  BY <1>1, FrontInvariant, PTL

(* In the operations views the store, the canvas and the motion engine show *)
(* an agent that moved in the same room (VizBridge, useVizStore and         *)
(* MotionEngine.applyEvent), through mock events, messages of the server,   *)
(* canvases that are closed and opened again.                              *)
THEOREM PicturesAlwaysAgree == Spec => []PicturesAgree
<1>1. FrontInv => PicturesAgree
  BY PicturesFit DEF FrontInv
<1> QED
  BY <1>1, FrontInvariant, PTL

(* A figure on the canvas is moving exactly while it walks, and one shown    *)
(* at work has a timer left that ends it (MotionEngine.startAgentWalk and   *)
(* the timers of applyEvent).                                              *)
THEOREM WorkAlwaysEnds == Spec => []WorkEnds
<1>1. FrontInv => WorkEnds
  BY WorkFits DEF FrontInv
<1> QED
  BY <1>1, FrontInvariant, PTL

(* The map of agents misses nothing that the store still has, as long as    *)
(* no more events come between two runs of its effect than it takes when   *)
(* its place is lost (AgentEcosystemPanel), for lists, batches and bursts   *)
(* of any length.                                                          *)
THEOREM NothingEverMissed == Spec => []NothingMissedOutsideBursts
<1>1. FrontInv => NothingMissedOutsideBursts
  BY NothingUnseen DEF FrontInv, PanelsInv
<1> QED
  BY <1>1, FrontInvariant, PTL

(* A detail on the screen is of the record selected, whatever order clicks, *)
(* events, lists and answers come in (DiagnosticsPanel).                   *)
THEOREM DetailAlwaysFits == Spec => []DetailFits
<1>1. FrontInv => DetailFits
  BY DEF FrontInv, PanelsInv, DetailInv, DetailFits
<1> QED
  BY <1>1, FrontInvariant, PTL

-----------------------------------------------------------------------------
(* What is kept of a list.                                                 *)

KeptOf(kept, x, S) == IF x \in S THEN Append(kept, x) ELSE kept

KeptBy(t, seq, S, X) ==
  /\ t \in [0 .. Len(seq) -> Seq(X)] /\ t[0] = <<>> /\ t[Len(seq)] = Keep(seq, S)
  /\ \A k \in 1 .. Len(seq) : t[k] = KeptOf(t[k - 1], seq[k], S)

LEMMA KeepPasses == ASSUME NEW X, NEW seq \in Seq(X), NEW S PROVE \E t : KeptBy(t, seq, S, X)
<1> DEFINE n == Len(seq)
           V == Seq(X)
           D == DOMAIN seq
           none == <<>>
           F == [p \in (1 .. n) \X V |-> KeptOf(p[2], seq[p[1]], S)]
           iter[s \in SUBSET D] == IF s = {} THEN none ELSE LET x == Max(s) IN KeptOf(iter[s \ {x}], seq[x], S)
           Is(h) == h = [s \in SUBSET D |-> IF s = {} THEN none ELSE LET x == Max(s) IN KeptOf(h[s \ {x}], seq[x], S)]
<1>1. n \in Nat /\ D = 1 .. n /\ none \in V
  OBVIOUS
<1>2. \A i \in 1 .. n, v \in V : KeptOf(v, seq[i], S) \in V
  BY DEF KeptOf
<1>3. F \in [(1 .. n) \X V -> V] /\ \A i \in 1 .. n, v \in V : F[i, v] = KeptOf(v, seq[i], S)
  <2> HIDE DEF V, n
  <2> QED
    BY <1>2
<1>4. Keep(seq, S) = iter[D]
  BY Zenon DEF Keep, FoldLeft, MapThenFoldSet, KeptOf
<1>5. Is(iter)
  <2>1. iter = CHOOSE h : Is(h)
    BY Zenon
  <2> HIDE DEF n, V, F, iter, D, none
  <2>2. PICK g \in [SUBSET (1 .. n) -> V] : Folded(g, n, none, F)
    BY <1>1, <1>3, Foldable
  <2>3. \A s \in SUBSET (1 .. n) : s # {} => Max(s) \in 1 .. n /\ s \ {Max(s)} \in SUBSET (1 .. n)
    BY <1>1, GreatestOf
  <2>4. \A s \in SUBSET D : g[s] = IF s = {} THEN none ELSE KeptOf(g[s \ {Max(s)}], seq[Max(s)], S)
    BY <1>1, <1>3, <2>2, <2>3 DEF Folded
  <2>5. Is(g)
    BY <1>1, <2>2, <2>4
  <2> HIDE DEF Is
  <2> QED
    BY <2>1, <2>5, Zenon
<1>6. Folds(iter, n, none, F, V)
  <2> HIDE DEF n, V, F, iter, D, none
  <2>1. \A s \in SUBSET (1 .. n) : s # {} => Max(s) \in 1 .. n
    BY <1>1, GreatestOf
  <2> QED
    BY <1>1, <1>3, <1>5, <2>1 DEF Folds
<1> HIDE DEF n, V, F, iter, D, none
<1>7. PICK t : Passes(t, iter, n, none, F, V)
  BY <1>1, <1>3, <1>6, PassesThrough
<1>8. \A k \in 1 .. n : t[k] = KeptOf(t[k - 1], seq[k], S)
  <2>1. \A k \in 1 .. n : k - 1 \in 0 .. n
    BY <1>1
  <2> QED
    BY <1>3, <1>7, <2>1 DEF Passes
<1> QED
  BY <1>1, <1>4, <1>7, <1>8 DEF n, V, none, Passes, KeptBy

LEMMA Appended ==
  ASSUME NEW X, NEW s \in Seq(X), NEW x \in X
  PROVE  /\ Append(s, x) \in Seq(X) /\ Len(Append(s, x)) = Len(s) + 1
         /\ ToSet(Append(s, x)) = ToSet(s) \cup {x}
         /\ IsInjective(s) /\ x \notin ToSet(s) => IsInjective(Append(s, x))
<1>1. /\ Len(s) \in Nat /\ DOMAIN s = 1 .. Len(s) /\ Append(s, x) \in Seq(X)
      /\ Len(Append(s, x)) = Len(s) + 1 /\ DOMAIN Append(s, x) = 1 .. Len(s) + 1
      /\ \A i \in 1 .. Len(s) : Append(s, x)[i] = s[i] /\ i \in 1 .. Len(s) + 1
      /\ Append(s, x)[Len(s) + 1] = x /\ Len(s) + 1 \in 1 .. Len(s) + 1
  OBVIOUS
<1>2. \A i \in 1 .. Len(s) + 1 : i \in 1 .. Len(s) \/ i = Len(s) + 1
  BY <1>1
<1> DEFINE r == Append(s, x)
           m == Len(s) + 1
<1>3. ToSet(r) = ToSet(s) \cup {x}
  <2> HIDE DEF r, m
  <2>1. \A y \in ToSet(r) : y \in ToSet(s) \cup {x}
    BY <1>1, <1>2 DEF ToSet, r, m
  <2>2. \A y \in ToSet(s) \cup {x} : y \in ToSet(r)
    BY <1>1 DEF ToSet, r, m
  <2> QED
    BY <2>1, <2>2
<1>4. ASSUME IsInjective(s), x \notin ToSet(s) PROVE IsInjective(r)
  <2>1. \A i \in 1 .. Len(s) : s[i] # x
    BY <1>1, <1>4 DEF ToSet
  <2>2. \A i, j \in 1 .. Len(s) : s[i] = s[j] => i = j
    BY <1>1, <1>4 DEF IsInjective
  <2> SUFFICES ASSUME NEW i \in 1 .. m, NEW j \in 1 .. m, r[i] = r[j] PROVE i = j
    BY <1>1 DEF IsInjective
  <2> QED
    BY <1>1, <1>2, <2>1, <2>2
<1> QED
  BY <1>1, <1>3, <1>4

(* What is kept are the elements that may be, each as often as before.     *)
LEMMA KeepFacts ==
  ASSUME NEW X, NEW seq \in Seq(X), NEW S
  PROVE  /\ Keep(seq, S) \in Seq(X) /\ Len(Keep(seq, S)) \in Nat /\ Len(Keep(seq, S)) <= Len(seq)
         /\ ToSet(Keep(seq, S)) = ToSet(seq) \cap S
         /\ IsInjective(seq) => IsInjective(Keep(seq, S))
<1> DEFINE n == Len(seq)
           First(k) == {seq[i] : i \in 1 .. k}
<1>0. PICK t : KeptBy(t, seq, S, X)
  BY KeepPasses
<1>1. /\ t \in [0 .. n -> Seq(X)] /\ t[0] = <<>> /\ t[n] = Keep(seq, S)
      /\ \A k \in 1 .. n : t[k] = KeptOf(t[k - 1], seq[k], S)
  BY <1>0 DEF KeptBy
<1>2. n \in Nat /\ DOMAIN seq = 1 .. n /\ \A k \in 1 .. n : seq[k] \in X
  OBVIOUS
<1>3. First(n) = ToSet(seq) /\ First(0) = {} /\ \A k \in Nat : First(k + 1) = First(k) \cup {seq[k + 1]}
  <2>1. First(n) = ToSet(seq) /\ First(0) = {}
    BY <1>2 DEF ToSet
  <2>2. ASSUME NEW k \in Nat PROVE First(k + 1) = First(k) \cup {seq[k + 1]}
    <3>1. \A i : i \in 1 .. k + 1 <=> i \in 1 .. k \/ i = k + 1
      OBVIOUS
    <3> QED
      BY <3>1
  <2> QED
    BY <2>1, <2>2
<1>4. ASSUME IsInjective(seq), NEW k \in Nat, k + 1 <= n PROVE seq[k + 1] \notin First(k)
  BY <1>2, <1>4 DEF IsInjective
<1> DEFINE Good(k) == /\ Len(t[k]) <= k /\ ToSet(t[k]) = First(k) \cap S
                      /\ IsInjective(seq) => IsInjective(t[k])
           P == {k \in Nat : k <= n => Good(k)}
<1> HIDE DEF n, First
<1>5. 0 \in P
  <2>1. Len(t[0]) = 0 /\ DOMAIN t[0] = {} /\ First(0) = {}
    BY <1>1, <1>3
  <2> QED
    BY <2>1 DEF ToSet, IsInjective
<1>6. ASSUME NEW k \in Nat, k <= n => Good(k), k + 1 <= n PROVE Good(k + 1)
  <2>1. /\ k + 1 \in 1 .. n /\ (k + 1) - 1 = k /\ k \in 0 .. n /\ k + 1 \in 0 .. n
    BY <1>2, <1>6
  <2>2. t[k + 1] = KeptOf(t[k], seq[k + 1], S) /\ t[k] \in Seq(X) /\ seq[k + 1] \in X
    BY <1>1, <1>2, <2>1
  <2>3. /\ Len(t[k]) <= k /\ Len(t[k]) \in Nat /\ ToSet(t[k]) = First(k) \cap S
        /\ IsInjective(seq) => IsInjective(t[k])
    BY <1>6, <2>1, <2>2
  <2>4. First(k + 1) = First(k) \cup {seq[k + 1]}
    BY <1>3
  <2>5. CASE seq[k + 1] \in S
    <3>1. t[k + 1] = Append(t[k], seq[k + 1])
      BY <2>2, <2>5 DEF KeptOf
    <3>2. /\ Len(t[k + 1]) = Len(t[k]) + 1 /\ ToSet(t[k + 1]) = ToSet(t[k]) \cup {seq[k + 1]}
          /\ IsInjective(t[k]) /\ seq[k + 1] \notin ToSet(t[k]) => IsInjective(t[k + 1])
      BY <2>2, <3>1, Appended
    <3>3. Len(t[k + 1]) <= k + 1
      BY <2>3, <3>2
    <3>4. ToSet(t[k + 1]) = First(k + 1) \cap S
      BY <2>3, <2>4, <2>5, <3>2
    <3>5. IsInjective(seq) => IsInjective(t[k + 1])
      BY <1>4, <1>6, <2>3, <3>2
    <3> QED
      BY <3>3, <3>4, <3>5
  <2>6. CASE seq[k + 1] \notin S
    <3>1. t[k + 1] = t[k]
      BY <2>2, <2>6 DEF KeptOf
    <3>2. First(k + 1) \cap S = First(k) \cap S
      BY <2>4, <2>6
    <3> QED
      BY <2>3, <3>1, <3>2
  <2> QED
    BY <2>5, <2>6
<1>7. P = Nat
  <2> HIDE DEF Good
  <2>1. P \in SUBSET Nat /\ \A k \in P : k + 1 \in P
    BY <1>6
  <2> HIDE DEF P
  <2> QED
    BY <1>5, <2>1, NumbersByStep
<1>8. Good(n)
  <2> HIDE DEF Good
  <2> QED
    BY <1>2, <1>7
<1>9. n \in 0 .. n
  BY <1>2
<1> QED
  BY <1>1, <1>3, <1>8, <1>9 DEF n

-----------------------------------------------------------------------------
(* The store                                                               *)

TraceMaps(V) == UNION {[D -> V] : D \in SUBSET Trace}
Runs == [status : {"running", "completed", "failed"}, ended : BOOLEAN, steps : Seq(Event \cup {"api"})]

Stores ==
  [events : SUBSET Event, order : Seq(Event), traces : TraceMaps(SUBSET Event), traceOrder : Seq(Trace),
   index : [Indexed -> Seq(Event)], runs : TraceMaps(Runs), selectedTrace : Trace \cup {None},
   selectedEvent : Event \cup {None}, mode : {"LIVE", "PAUSED"}, lanes : [Lanes -> SUBSET Event],
   denied : SUBSET Event]

Enlisted(st) == IsInjective(st.order) /\ st.events = ToSet(st.order)

TracesOf(traces, sorted, events) ==
  /\ \A t \in DOMAIN traces : traces[t] \subseteq events /\ traces[t] # {}
  /\ \A e \in events : \E t \in DOMAIN traces : e \in traces[t]
  /\ DOMAIN traces \subseteq ToSet(sorted)

Traced(st) == TracesOf(st.traces, st.traceOrder, st.events)

Pointed(st) ==
  /\ \A k \in Indexed : ToSet(st.index[k]) \subseteq st.events
  /\ st.selectedEvent \in st.events \cup {None}

(* A lane has only what it takes, and every event that is placed anywhere  *)
(* is in its lane, or denied.                                              *)
Laned(st) ==
  /\ \A l \in Lanes : \A e \in st.lanes[l] : Placed(e) /\ ~Denied(e) /\ l = LaneOf(e)
  /\ \A e \in st.denied : Denied(e)
  /\ \A e \in st.events : Placed(e) => IF Denied(e) THEN e \in st.denied ELSE e \in st.lanes[LaneOf(e)]

Whole(st) == st \in Stores /\ Enlisted(st) /\ Traced(st) /\ Pointed(st) /\ Laned(st)
Sized(st) == Len(st.order) <= MaxEvents /\ Cardinality(DOMAIN st.traces) <= MaxTraces

LEMMA TraceMapIs ==
  ASSUME NEW V, NEW f
  PROVE  f \in TraceMaps(V) <=> DOMAIN f \in SUBSET Trace /\ f \in [DOMAIN f -> V]
<1>1. ASSUME f \in TraceMaps(V) PROVE DOMAIN f \in SUBSET Trace /\ f \in [DOMAIN f -> V]
  <2>1. PICK D \in SUBSET Trace : f \in [D -> V]
    BY <1>1 DEF TraceMaps
  <2>2. DOMAIN f = D
    BY <2>1
  <2> QED
    BY <2>1, <2>2
<1>2. ASSUME DOMAIN f \in SUBSET Trace, f \in [DOMAIN f -> V] PROVE f \in TraceMaps(V)
  BY <1>2 DEF TraceMaps
<1> QED
  BY <1>1, <1>2

HasPut(g, f, t, v) ==
  /\ DOMAIN g = DOMAIN f \cup {t} /\ g[t] = v
  /\ \A u \in DOMAIN f : u # t => g[u] = f[u]

LEMMA PutIs ==
  ASSUME NEW V, NEW f \in TraceMaps(V), NEW t \in Trace, NEW v \in V, NEW g, g = Put(f, t, v)
  PROVE  g \in TraceMaps(V) /\ HasPut(g, f, t, v)
<1>1. DOMAIN f \in SUBSET Trace /\ f \in [DOMAIN f -> V]
  BY TraceMapIs
<1> DEFINE only == [y \in {t} |-> v]
<1>2. DOMAIN only = {t} /\ only[t] = v
  OBVIOUS
<1>3. g = [x \in DOMAIN f \cup DOMAIN only |-> IF x \in DOMAIN only THEN only[x] ELSE f[x]]
  BY DEF Put, Over
<1> HIDE DEF only
<1>4. g = [x \in DOMAIN f \cup {t} |-> IF x = t THEN v ELSE f[x]]
  BY <1>2, <1>3
<1>5. /\ DOMAIN g = DOMAIN f \cup {t} /\ g[t] = v
      /\ \A u \in DOMAIN f : u # t => g[u] = f[u]
  BY <1>4
<1>6. g \in [DOMAIN f \cup {t} -> V]
  BY <1>1, <1>4
<1>7. g \in TraceMaps(V)
  BY <1>1, <1>5, <1>6, TraceMapIs
<1> QED
  BY <1>5, <1>7 DEF HasPut

LEMMA InfoIs ==
  ASSUME NEW e \in Event
  PROVE  /\ Info[e].trace \in Trace /\ Info[e].kind \in Kinds /\ LaneOf(e) \in Lanes
         /\ Placed(e) \in BOOLEAN /\ Denied(e) \in BOOLEAN
BY StoreAssumption DEF LaneOf, Lanes, Placed, Denied

LEMMA LatestFacts ==
  ASSUME NEW X, NEW s \in Seq(X), NEW n \in Nat \ {0}
  PROVE  /\ Latest(s, n) \in Seq(X) /\ Len(Latest(s, n)) \in Nat /\ Len(Latest(s, n)) <= n
         /\ ToSet(Latest(s, n)) \in SUBSET ToSet(s)
         /\ Len(s) > 0 => s[Len(s)] \in ToSet(Latest(s, n))
         /\ IsInjective(s) => IsInjective(Latest(s, n))
<1> DEFINE m == IF Len(s) > n THEN Len(s) - n + 1 ELSE 1
           r == SubSeq(s, m, Len(s))
           k == Len(s) - m + 1
<1>1. Len(s) \in Nat /\ DOMAIN s = 1 .. Len(s) /\ m \in 1 .. Len(s) + 1 /\ k \in Nat /\ k <= n
  OBVIOUS
<1>2. r = Latest(s, n)
  BY DEF Latest
<1>3. m + k - 1 = Len(s) /\ m \in Nat \ {0}
  BY <1>1
<1>4. /\ r \in Seq(X) /\ Len(r) = k /\ DOMAIN r = 1 .. k
      /\ \A i \in 1 .. k : r[i] = s[m + i - 1] /\ m + i - 1 \in 1 .. Len(s)
  <2> HIDE DEF m
  <2>1. r \in Seq(X) /\ Len(r) = k /\ DOMAIN r = 1 .. k
    BY <1>1
  <2>2. ASSUME NEW i \in 1 .. k PROVE r[i] = s[m + i - 1] /\ m + i - 1 \in 1 .. Len(s)
    BY <1>1
  <2> QED
    BY <2>1, <2>2
<1>5. ToSet(r) \in SUBSET ToSet(s)
  <2> HIDE DEF m, r, k
  <2> QED
    BY <1>1, <1>4 DEF ToSet
<1>6. ASSUME Len(s) > 0 PROVE s[Len(s)] \in ToSet(r)
  <2>1. k \in 1 .. k
    BY <1>1, <1>6
  <2> HIDE DEF m, r, k
  <2>2. r[k] = s[Len(s)]
    BY <1>3, <1>4, <2>1
  <2> QED
    BY <1>4, <2>1, <2>2 DEF ToSet
<1>7. ASSUME IsInjective(s) PROVE IsInjective(r)
  <2> HIDE DEF m, r, k
  <2>1. \A i, j \in 1 .. Len(s) : s[i] = s[j] => i = j
    BY <1>1, <1>7 DEF IsInjective
  <2> SUFFICES ASSUME NEW i \in 1 .. k, NEW j \in 1 .. k, r[i] = r[j] PROVE i = j
    BY <1>4 DEF IsInjective
  <2>2. m + i - 1 = m + j - 1
    BY <1>4, <2>1
  <2> QED
    BY <1>3, <2>2
<1> HIDE DEF m, r, k
<1> QED
  BY <1>1, <1>2, <1>4, <1>5, <1>6, <1>7

(* A run that has ended stays so, whatever is told of it later.            *)
LEMMA ToldEnded ==
  ASSUME NEW run \in Runs, NEW e \in Event
  PROVE  /\ Told(run, e) \in Runs
         /\ run.ended => Told(run, e).ended
         /\ Info[e].kind \in {"SWARM_COMPLETED", "SWARM_FAILED"} => Told(run, e).ended
<1>1. /\ run.steps \in Seq(Event \cup {"api"}) /\ Append(run.steps, e) \in Seq(Event \cup {"api"})
      /\ run.ended \in BOOLEAN /\ run.status \in {"running", "completed", "failed"}
      /\ run = [status |-> run.status, ended |-> run.ended, steps |-> run.steps]
  BY DEF Runs
<1> DEFINE k == Info[e].kind
           r == Told(run, e)
<1>2. CASE k = "SWARM_STARTED"
  <2>1. r = [run EXCEPT !.status = "running"]
    BY <1>2 DEF Told
  <2> QED
    BY <1>1, <1>2, <2>1 DEF Runs
<1>3. CASE k = "RESULT_OK"
  <2>1. r = [run EXCEPT !.status = "completed", !.ended = TRUE]
    BY <1>3 DEF Told
  <2> QED
    BY <1>1, <1>3, <2>1 DEF Runs
<1>4. CASE k \in {"RESULT_FAILED", "SWARM_FAILED"}
  <2>1. r = [run EXCEPT !.status = "failed", !.ended = TRUE]
    BY <1>4 DEF Told
  <2> QED
    BY <1>1, <1>4, <2>1 DEF Runs
<1>5. CASE k = "SWARM_COMPLETED"
  <2>1. r = [run EXCEPT !.ended = TRUE, !.status = IF run.status = "failed" THEN run.status ELSE "completed"]
    BY <1>5 DEF Told
  <2> QED
    BY <1>1, <1>5, <2>1 DEF Runs
<1>6. CASE k \notin {"SWARM_STARTED", "RESULT_OK", "RESULT_FAILED", "SWARM_FAILED", "SWARM_COMPLETED"}
  <2>1. r = [run EXCEPT !.steps = Append(run.steps, e)]
    BY <1>6 DEF Told
  <2> QED
    BY <1>1, <1>6, <2>1 DEF Runs
<1> QED
  BY <1>2, <1>3, <1>4, <1>5, <1>6

Settled(runs, t) == t \in DOMAIN runs /\ runs[t].ended

LEMMA RunAfterFacts ==
  ASSUME NEW runs \in TraceMaps(Runs), NEW e \in Event, NEW after, after = RunAfter(runs, e)
  PROVE  /\ after \in TraceMaps(Runs)
         /\ \A t \in Trace : Settled(runs, t) => Settled(after, t)
         /\ Info[e].kind \in {"SWARM_COMPLETED", "SWARM_FAILED"} => Settled(after, Info[e].trace)
<1> DEFINE t == Info[e].trace
           run == RunOf(runs, t)
<1>1. t \in Trace /\ DOMAIN runs \in SUBSET Trace /\ runs \in [DOMAIN runs -> Runs]
  BY InfoIs, TraceMapIs
<1>2. run \in Runs
  BY <1>1, EmptySeq DEF RunOf, Runs
<1>3. /\ Told(run, e) \in Runs
      /\ run.ended => Told(run, e).ended
      /\ Info[e].kind \in {"SWARM_COMPLETED", "SWARM_FAILED"} => Told(run, e).ended
  BY <1>2, ToldEnded
<1>4. CASE Silent(e)
  BY <1>4 DEF RunAfter, Silent, Indexed
<1>5. CASE ~Silent(e)
  <2>1. after = Put(runs, t, Told(run, e))
    BY <1>5 DEF RunAfter
  <2> DEFINE v == Told(run, e)
  <2> HIDE DEF t, run, v
  <2>0. t \in Trace /\ v \in Runs /\ after = Put(runs, t, v)
    BY <1>1, <1>3, <2>1 DEF v
  <2>9. after \in TraceMaps(Runs) /\ HasPut(after, runs, t, v)
    BY <2>0, PutIs
  <2>2. /\ after \in TraceMaps(Runs) /\ DOMAIN after = DOMAIN runs \cup {t} /\ after[t] = Told(run, e)
        /\ \A u \in DOMAIN runs : u # t => after[u] = runs[u]
    BY <2>9 DEF HasPut, v
  <2>3. t \in DOMAIN runs => run = runs[t]
    BY DEF run, RunOf
  <2>4. ASSUME NEW u \in Trace, Settled(runs, u) PROVE Settled(after, u)
    <3>1. CASE u = t
      <4>1. u \in DOMAIN runs /\ run.ended
        BY <2>3, <2>4, <3>1, Zenon DEF Settled
      <4>2. u \in DOMAIN after /\ after[u].ended
        BY <1>3, <2>2, <3>1, <4>1, Zenon
      <4> QED
        BY <4>2 DEF Settled
    <3>2. CASE u # t
      BY <2>2, <2>4, <3>2 DEF Settled
    <3> QED
      BY <3>1, <3>2
  <2>5. Info[e].kind \in {"SWARM_COMPLETED", "SWARM_FAILED"} => Settled(after, t)
    BY <1>3, <2>2 DEF Settled
  <2> QED
    BY <2>2, <2>4, <2>5 DEF t
<1> QED
  BY <1>4, <1>5

LEMMA StoreIs ==
  ASSUME NEW st \in Stores
  PROVE  /\ st.events \in SUBSET Event /\ st.order \in Seq(Event) /\ st.traces \in TraceMaps(SUBSET Event)
         /\ st.traceOrder \in Seq(Trace) /\ st.index \in [Indexed -> Seq(Event)]
         /\ st.runs \in TraceMaps(Runs) /\ st.selectedTrace \in Trace \cup {None}
         /\ st.selectedEvent \in Event \cup {None} /\ st.mode \in {"LIVE", "PAUSED"}
         /\ st.lanes \in [Lanes -> SUBSET Event] /\ st.denied \in SUBSET Event
BY DEF Stores

(* What one event changes.                                                 *)
AddedTraces(st, e) == Put(st.traces, Info[e].trace,
                          {e} \cup IF Info[e].trace \in DOMAIN st.traces THEN st.traces[Info[e].trace] ELSE {})
AddedIndex(st, e) == [k \in Indexed |-> IF k = Info[e].kind THEN Latest(Append(st.index[k], e), MaxIndex)
                                        ELSE st.index[k]]
AddedLanes(st, e) == [l \in Lanes |-> IF Placed(e) /\ ~Denied(e) /\ l = LaneOf(e)
                                      THEN st.lanes[l] \cup {e} ELSE st.lanes[l]]

LEMMA AddedTypes ==
  ASSUME NEW st \in Stores, NEW e \in Event
  PROVE  /\ AddedTraces(st, e) \in TraceMaps(SUBSET Event) /\ AddedIndex(st, e) \in [Indexed -> Seq(Event)]
         /\ AddedLanes(st, e) \in [Lanes -> SUBSET Event] /\ RunAfter(st.runs, e) \in TraceMaps(Runs)
         /\ Append(st.order, e) \in Seq(Event) /\ Append(st.traceOrder, Info[e].trace) \in Seq(Trace)
<1>1. Info[e].trace \in Trace
  BY InfoIs
<1>2. AddedTraces(st, e) \in TraceMaps(SUBSET Event)
  <2> DEFINE v == {e} \cup IF Info[e].trace \in DOMAIN st.traces THEN st.traces[Info[e].trace] ELSE {}
  <2>1. v \in SUBSET Event
    BY StoreIs, TraceMapIs
  <2> HIDE DEF v
  <2>2. Put(st.traces, Info[e].trace, v) \in TraceMaps(SUBSET Event)
    BY <1>1, <2>1, StoreIs, PutIs
  <2> QED
    BY <2>2 DEF AddedTraces, v
<1>3. AddedIndex(st, e) \in [Indexed -> Seq(Event)]
  <2>1. ASSUME NEW k \in Indexed PROVE Latest(Append(st.index[k], e), MaxIndex) \in Seq(Event) /\ st.index[k] \in Seq(Event)
    <3>1. st.index[k] \in Seq(Event)
      BY StoreIs
    <3>2. Append(st.index[k], e) \in Seq(Event)
      BY <3>1
    <3> QED
      BY <3>1, <3>2, LatestFacts, StoreAssumption
  <2> QED
    BY <2>1 DEF AddedIndex
<1>4. AddedLanes(st, e) \in [Lanes -> SUBSET Event]
  BY StoreIs DEF AddedLanes
<1>5. RunAfter(st.runs, e) \in TraceMaps(Runs)
  BY StoreIs, RunAfterFacts
<1> QED
  BY <1>1, <1>2, <1>3, <1>4, <1>5, StoreIs

IsAdded(r, st, e) ==
  /\ r \in Stores
  /\ r.events = st.events \cup {e}
  /\ r.order = IF e \in ToSet(st.order) THEN st.order ELSE Append(st.order, e)
  /\ r.traceOrder = IF Info[e].trace \in DOMAIN st.traces THEN st.traceOrder
                    ELSE Append(st.traceOrder, Info[e].trace)
  /\ r.traces = AddedTraces(st, e) /\ r.index = AddedIndex(st, e) /\ r.runs = RunAfter(st.runs, e)
  /\ r.lanes = AddedLanes(st, e) /\ r.denied = IF Denied(e) THEN st.denied \cup {e} ELSE st.denied
  /\ r.selectedTrace = st.selectedTrace /\ r.selectedEvent = st.selectedEvent /\ r.mode = st.mode

LEMMA AddedIs ==
  ASSUME NEW st \in Stores, NEW e \in Event, NEW r, r = Added(st, e)
  PROVE  IsAdded(r, st, e)
<1> DEFINE events == st.events \cup {e}
           sorted == IF e \in ToSet(st.order) THEN st.order ELSE Append(st.order, e)
           traceOrder == IF Info[e].trace \in DOMAIN st.traces THEN st.traceOrder ELSE Append(st.traceOrder, Info[e].trace)
           denied == IF Denied(e) THEN st.denied \cup {e} ELSE st.denied
           traces == AddedTraces(st, e)
           index == AddedIndex(st, e)
           runs == RunAfter(st.runs, e)
           lanes == AddedLanes(st, e)
<1>1. r = [st EXCEPT !.events = events, !.order = sorted, !.traceOrder = traceOrder, !.traces = traces,
                     !.index = index, !.runs = runs, !.lanes = lanes, !.denied = denied]
  BY DEF Added, AddedTraces, AddedIndex, AddedLanes
<1>2. /\ traces \in TraceMaps(SUBSET Event) /\ index \in [Indexed -> Seq(Event)] /\ runs \in TraceMaps(Runs)
      /\ lanes \in [Lanes -> SUBSET Event]
  BY AddedTypes
<1>3. events \in SUBSET Event /\ sorted \in Seq(Event) /\ traceOrder \in Seq(Trace) /\ denied \in SUBSET Event
  <2>1. /\ st.events \in SUBSET Event /\ st.order \in Seq(Event) /\ st.traceOrder \in Seq(Trace) /\ st.denied \in SUBSET Event
        /\ Append(st.order, e) \in Seq(Event) /\ Append(st.traceOrder, Info[e].trace) \in Seq(Trace)
    BY StoreIs, AddedTypes
  <2> QED
    BY <2>1
<1> HIDE DEF events, sorted, traceOrder, traces, index, runs, lanes, denied
<1>4. r = [events |-> events, order |-> sorted, traces |-> traces, traceOrder |-> traceOrder, index |-> index,
           runs |-> runs, selectedTrace |-> st.selectedTrace, selectedEvent |-> st.selectedEvent, mode |-> st.mode,
           lanes |-> lanes, denied |-> denied]
  BY <1>1 DEF Stores
<1>5. r \in Stores
  BY <1>2, <1>3, <1>4, StoreIs DEF Stores
<1>6. /\ r.events = events /\ r.order = sorted /\ r.traceOrder = traceOrder /\ r.traces = traces /\ r.index = index
      /\ r.runs = runs /\ r.lanes = lanes /\ r.denied = denied
      /\ r.selectedTrace = st.selectedTrace /\ r.selectedEvent = st.selectedEvent /\ r.mode = st.mode
  BY <1>4
<1> QED
  BY <1>5, <1>6 DEF IsAdded, events, sorted, traceOrder, traces, index, runs, lanes, denied

(* An event that is added finds its trace, its place and its lane.         *)
LEMMA AddedWhole ==
  ASSUME NEW st, Whole(st), NEW e \in Event, NEW r, r = Added(st, e)
  PROVE  Whole(r)
<1>0. st \in Stores /\ Enlisted(st) /\ Traced(st) /\ Pointed(st) /\ Laned(st)
  BY DEF Whole
<1>1. /\ r \in Stores
      /\ r.events = st.events \cup {e}
      /\ r.order = IF e \in ToSet(st.order) THEN st.order ELSE Append(st.order, e)
      /\ r.traceOrder = IF Info[e].trace \in DOMAIN st.traces THEN st.traceOrder
                        ELSE Append(st.traceOrder, Info[e].trace)
      /\ r.traces = AddedTraces(st, e) /\ r.index = AddedIndex(st, e)
      /\ r.lanes = AddedLanes(st, e) /\ r.denied = IF Denied(e) THEN st.denied \cup {e} ELSE st.denied
      /\ r.selectedEvent = st.selectedEvent
  <2>1. IsAdded(r, st, e)
    BY <1>0, AddedIs
  <2> QED
    BY <2>1 DEF IsAdded
<1>2. Enlisted(r)
  <2>1. st.order \in Seq(Event) /\ IsInjective(st.order) /\ st.events = ToSet(st.order)
    BY <1>0, StoreIs DEF Enlisted
  <2>2. CASE e \in ToSet(st.order)
    BY <1>1, <2>1, <2>2 DEF Enlisted
  <2>3. CASE e \notin ToSet(st.order)
    <3>1. ToSet(Append(st.order, e)) = ToSet(st.order) \cup {e} /\ IsInjective(Append(st.order, e))
      BY <2>1, <2>3, Appended
    <3> QED
      BY <1>1, <2>1, <2>3, <3>1 DEF Enlisted
  <2> QED
    BY <2>2, <2>3
<1>3. Traced(r)
  <2> DEFINE t == Info[e].trace
             v == {e} \cup IF t \in DOMAIN st.traces THEN st.traces[t] ELSE {}
  <2>1. t \in Trace /\ st.traces \in TraceMaps(SUBSET Event) /\ st.traceOrder \in Seq(Trace)
    BY <1>0, StoreIs, InfoIs
  <2>2. v \in SUBSET Event
    BY <2>1, TraceMapIs
  <2>3. r.traces = Put(st.traces, t, v)
    BY <1>1 DEF AddedTraces
  <2> HIDE DEF t, v
  <2>4. HasPut(r.traces, st.traces, t, v)
    BY <2>1, <2>2, <2>3, PutIs
  <2>5. /\ DOMAIN r.traces = DOMAIN st.traces \cup {t} /\ r.traces[t] = v
        /\ \A u \in DOMAIN st.traces : u # t => r.traces[u] = st.traces[u]
    BY <2>4 DEF HasPut
  <2>6. /\ \A u \in DOMAIN st.traces : st.traces[u] \subseteq st.events /\ st.traces[u] # {}
        /\ \A x \in st.events : \E u \in DOMAIN st.traces : x \in st.traces[u]
        /\ DOMAIN st.traces \subseteq ToSet(st.traceOrder)
    BY <1>0 DEF Traced, TracesOf
  <2>7. e \in v /\ v \subseteq r.events /\ (t \in DOMAIN st.traces => st.traces[t] \subseteq v)
    BY <1>1, <2>6 DEF v
  <2>8. \A u \in DOMAIN r.traces : r.traces[u] \subseteq r.events /\ r.traces[u] # {}
    BY <1>1, <2>5, <2>6, <2>7
  <2>9. \A x \in r.events : \E u \in DOMAIN r.traces : x \in r.traces[u]
    <3> SUFFICES ASSUME NEW x \in r.events PROVE \E u \in DOMAIN r.traces : x \in r.traces[u]
      OBVIOUS
    <3>1. CASE x = e
      BY <2>5, <2>7, <3>1
    <3>2. CASE x # e
      <4>1. PICK u \in DOMAIN st.traces : x \in st.traces[u]
        BY <1>1, <2>6, <3>2
      <4> QED
        BY <2>5, <2>7, <4>1
    <3> QED
      BY <3>1, <3>2
  <2>10. DOMAIN r.traces \subseteq ToSet(r.traceOrder)
    <3>1. CASE t \in DOMAIN st.traces
      BY <1>1, <2>5, <2>6, <3>1 DEF t
    <3>2. CASE t \notin DOMAIN st.traces
      <4>1. ToSet(Append(st.traceOrder, t)) = ToSet(st.traceOrder) \cup {t}
        BY <2>1, Appended
      <4>2. r.traceOrder = Append(st.traceOrder, t)
        BY <1>1, <3>2 DEF t
      <4> QED
        BY <2>5, <2>6, <4>1, <4>2
    <3> QED
      BY <3>1, <3>2
  <2> QED
    BY <2>8, <2>9, <2>10 DEF Traced, TracesOf
<1>4. Pointed(r)
  <2> SUFFICES ASSUME NEW k \in Indexed PROVE ToSet(r.index[k]) \subseteq r.events
    BY <1>0, <1>1 DEF Pointed
  <2>1. st.index[k] \in Seq(Event) /\ ToSet(st.index[k]) \subseteq st.events
    BY <1>0, StoreIs DEF Pointed
  <2>2. Append(st.index[k], e) \in Seq(Event) /\ ToSet(Append(st.index[k], e)) = ToSet(st.index[k]) \cup {e}
    BY <2>1, Appended
  <2>3. ToSet(Latest(Append(st.index[k], e), MaxIndex)) \subseteq ToSet(Append(st.index[k], e))
    BY <2>2, LatestFacts, StoreAssumption
  <2>4. r.index[k] = IF k = Info[e].kind THEN Latest(Append(st.index[k], e), MaxIndex) ELSE st.index[k]
    BY <1>1 DEF AddedIndex
  <2> QED
    BY <1>1, <2>1, <2>2, <2>3, <2>4
<1>5. Laned(r)
  <2>1. /\ \A l \in Lanes : \A x \in st.lanes[l] : Placed(x) /\ ~Denied(x) /\ l = LaneOf(x)
        /\ \A x \in st.denied : Denied(x)
        /\ \A x \in st.events : Placed(x) => IF Denied(x) THEN x \in st.denied ELSE x \in st.lanes[LaneOf(x)]
    BY <1>0 DEF Laned
  <2>2. \A l \in Lanes : r.lanes[l] = IF Placed(e) /\ ~Denied(e) /\ l = LaneOf(e)
                                      THEN st.lanes[l] \cup {e} ELSE st.lanes[l]
    BY <1>1 DEF AddedLanes
  <2>3. \A l \in Lanes : \A x \in r.lanes[l] : Placed(x) /\ ~Denied(x) /\ l = LaneOf(x)
    <3> SUFFICES ASSUME NEW l \in Lanes, NEW x \in r.lanes[l] PROVE Placed(x) /\ ~Denied(x) /\ l = LaneOf(x)
      OBVIOUS
    <3>1. CASE x \in st.lanes[l]
      BY <2>1, <3>1
    <3>2. CASE x \notin st.lanes[l]
      <4>1. x = e /\ Placed(e) /\ ~Denied(e) /\ l = LaneOf(e)
        BY <2>2, <3>2
      <4> QED
        BY <4>1
    <3> QED
      BY <3>1, <3>2
  <2>4. \A x \in r.denied : Denied(x)
    BY <1>1, <2>1
  <2>5. ASSUME NEW x \in r.events, Placed(x) PROVE IF Denied(x) THEN x \in r.denied ELSE x \in r.lanes[LaneOf(x)]
    <3>1. x \in Event /\ LaneOf(x) \in Lanes
      BY <1>1, StoreIs, InfoIs
    <3>2. CASE Denied(x)
      <4>1. x \in st.events \/ x = e
        BY <1>1
      <4> QED
        BY <1>1, <2>1, <2>5, <3>2, <4>1
    <3>3. CASE ~Denied(x)
      <4>1. x \in st.events \/ x = e
        BY <1>1
      <4> QED
        BY <2>1, <2>2, <2>5, <3>1, <3>3, <4>1
    <3> QED
      BY <3>2, <3>3
  <2> QED
    BY <2>3, <2>4, <2>5 DEF Laned
<1> QED
  BY <1>1, <1>2, <1>3, <1>4, <1>5 DEF Whole

(* The events of a batch one after the other.                              *)
Ending(e) == Info[e].kind \in {"SWARM_COMPLETED", "SWARM_FAILED"}
KeepsSettled(r, st) == \A t \in Trace : Settled(st.runs, t) => Settled(r.runs, t)

LEMMA AddedSettles ==
  ASSUME NEW st \in Stores, NEW e \in Event, NEW r, r = Added(st, e)
  PROVE  /\ KeepsSettled(r, st) /\ (Ending(e) => Settled(r.runs, Info[e].trace))
         /\ r.mode = st.mode /\ r.selectedTrace = st.selectedTrace
<1>1. IsAdded(r, st, e)
  BY AddedIs
<1>2. r.runs = RunAfter(st.runs, e) /\ r.mode = st.mode /\ r.selectedTrace = st.selectedTrace
  BY <1>1 DEF IsAdded
<1>3. st.runs \in TraceMaps(Runs)
  BY StoreIs
<1> QED
  BY <1>2, <1>3, RunAfterFacts DEF KeepsSettled, Ending

AddedBy(t, st, batch) ==
  /\ t \in [0 .. Len(batch) -> {v \in Stores : Whole(v)}] /\ t[0] = st /\ t[Len(batch)] = FoldLeft(Added, st, batch)
  /\ \A k \in 1 .. Len(batch) : t[k] = Added(t[k - 1], batch[k])

LEMMA AddedPasses == ASSUME NEW st, Whole(st), NEW batch \in Seq(Event) PROVE \E t : AddedBy(t, st, batch)
<1> DEFINE n == Len(batch)
           V == {v \in Stores : Whole(v)}
           D == DOMAIN batch
           F == [p \in (1 .. n) \X V |-> Added(p[2], batch[p[1]])]
           iter[s \in SUBSET D] == IF s = {} THEN st ELSE LET x == Max(s) IN Added(iter[s \ {x}], batch[x])
           Is(h) == h = [s \in SUBSET D |-> IF s = {} THEN st ELSE LET x == Max(s) IN Added(h[s \ {x}], batch[x])]
<1>1. n \in Nat /\ D = 1 .. n /\ st \in V
  BY DEF Whole
<1>2. \A i \in 1 .. n, v \in V : Added(v, batch[i]) \in V
  <2> SUFFICES ASSUME NEW i \in 1 .. n, NEW v \in V PROVE Added(v, batch[i]) \in V
    OBVIOUS
  <2>1. Whole(v) /\ batch[i] \in Event
    OBVIOUS
  <2>2. Whole(Added(v, batch[i]))
    BY <2>1, AddedWhole
  <2> QED
    BY <2>2 DEF Whole
<1>3. F \in [(1 .. n) \X V -> V] /\ \A i \in 1 .. n, v \in V : F[i, v] = Added(v, batch[i])
  <2> HIDE DEF V, n
  <2> QED
    BY <1>2
<1>4. FoldLeft(Added, st, batch) = iter[D]
  BY Zenon DEF FoldLeft, MapThenFoldSet
<1>5. Is(iter)
  <2>1. iter = CHOOSE h : Is(h)
    BY Zenon
  <2> HIDE DEF n, V, F, iter, D
  <2>2. PICK g \in [SUBSET (1 .. n) -> V] : Folded(g, n, st, F)
    BY <1>1, <1>3, Foldable
  <2>3. \A s \in SUBSET (1 .. n) : s # {} => Max(s) \in 1 .. n /\ s \ {Max(s)} \in SUBSET (1 .. n)
    BY <1>1, GreatestOf
  <2>4. \A s \in SUBSET D : g[s] = IF s = {} THEN st ELSE Added(g[s \ {Max(s)}], batch[Max(s)])
    BY <1>1, <1>3, <2>2, <2>3 DEF Folded
  <2>5. Is(g)
    BY <1>1, <2>2, <2>4
  <2> HIDE DEF Is
  <2> QED
    BY <2>1, <2>5, Zenon
<1>6. Folds(iter, n, st, F, V)
  <2> HIDE DEF n, V, F, iter, D
  <2>1. \A s \in SUBSET (1 .. n) : s # {} => Max(s) \in 1 .. n
    BY <1>1, GreatestOf
  <2> QED
    BY <1>1, <1>3, <1>5, <2>1 DEF Folds
<1> HIDE DEF n, V, F, iter, D
<1>7. PICK t : Passes(t, iter, n, st, F, V)
  BY <1>1, <1>3, <1>6, PassesThrough
<1>8. \A k \in 1 .. n : t[k] = Added(t[k - 1], batch[k])
  <2>1. \A k \in 1 .. n : k - 1 \in 0 .. n
    BY <1>1
  <2> QED
    BY <1>3, <1>7, <2>1 DEF Passes
<1> QED
  BY <1>1, <1>4, <1>7, <1>8 DEF n, V, Passes, AddedBy

LEMMA Batched ==
  ASSUME NEW st, Whole(st), NEW batch \in Seq(Event), NEW r, r = FoldLeft(Added, st, batch)
  PROVE  /\ Whole(r) /\ KeepsSettled(r, st) /\ r.mode = st.mode /\ r.selectedTrace = st.selectedTrace
         /\ \A e \in ToSet(batch) : Ending(e) => Settled(r.runs, Info[e].trace)
<1> DEFINE n == Len(batch)
<1>1. PICK t : AddedBy(t, st, batch)
  BY AddedPasses
<1>2. /\ t[0] = st /\ t[n] = r /\ \A k \in 0 .. n : t[k] \in Stores /\ Whole(t[k])
      /\ \A k \in 1 .. n : t[k] = Added(t[k - 1], batch[k])
  BY <1>1 DEF AddedBy
<1>3. n \in Nat /\ DOMAIN batch = 1 .. n /\ \A k \in 1 .. n : batch[k] \in Event
  OBVIOUS
<1> DEFINE Good(k) == /\ KeepsSettled(t[k], st) /\ t[k].mode = st.mode /\ t[k].selectedTrace = st.selectedTrace
                      /\ \A i \in 1 .. k : Ending(batch[i]) => Settled(t[k].runs, Info[batch[i]].trace)
           P == {k \in Nat : k <= n => Good(k)}
<1> HIDE DEF n
<1>4. 0 \in P
  <2>1. \A i \in 1 .. 0 : FALSE
    OBVIOUS
  <2> QED
    BY <1>2, <2>1 DEF KeepsSettled
<1>5. ASSUME NEW k \in Nat, k <= n => Good(k), k + 1 <= n PROVE Good(k + 1)
  <2>1. k + 1 \in 1 .. n /\ (k + 1) - 1 = k /\ k \in 0 .. n /\ k <= n
    BY <1>3, <1>5
  <2>2. t[k + 1] = Added(t[k], batch[k + 1]) /\ t[k] \in Stores /\ batch[k + 1] \in Event
    BY <1>2, <1>3, <2>1
  <2> DEFINE w == t[k + 1]
             v == t[k]
             e == batch[k + 1]
  <2>3. /\ KeepsSettled(w, v) /\ (Ending(e) => Settled(w.runs, Info[e].trace))
        /\ w.mode = v.mode /\ w.selectedTrace = v.selectedTrace
    <3> HIDE DEF w, v, e
    <3> QED
      BY <2>2, AddedSettles DEF w, v, e
  <2>4. Good(k)
    BY <1>5, <2>1
  <2>5. KeepsSettled(w, st) /\ w.mode = st.mode /\ w.selectedTrace = st.selectedTrace
    BY <2>3, <2>4 DEF KeepsSettled
  <2>6. ASSUME NEW i \in 1 .. k + 1, Ending(batch[i]) PROVE Settled(w.runs, Info[batch[i]].trace)
    <3>1. CASE i = k + 1
      BY <2>3, <2>6, <3>1
    <3>2. CASE i # k + 1
      <4>1. i \in 1 .. k /\ i \in 1 .. n
        BY <1>3, <2>1, <2>6, <3>2
      <4>2. Settled(v.runs, Info[batch[i]].trace)
        BY <2>4, <2>6, <4>1
      <4>3. Info[batch[i]].trace \in Trace
        BY <1>3, <4>1, InfoIs
      <4> QED
        BY <2>3, <4>2, <4>3 DEF KeepsSettled
    <3> QED
      BY <3>1, <3>2
  <2> QED
    BY <2>5, <2>6
<1>6. P = Nat
  <2> HIDE DEF Good
  <2>1. P \in SUBSET Nat /\ \A k \in P : k + 1 \in P
    BY <1>5
  <2> HIDE DEF P
  <2> QED
    BY <1>4, <2>1, NumbersByStep
<1>7. Good(n)
  <2> HIDE DEF Good
  <2> QED
    BY <1>3, <1>6
<1>8. n \in 0 .. n
  BY <1>3
<1>9. \A e \in ToSet(batch) : Ending(e) => Settled(r.runs, Info[e].trace)
  BY <1>2, <1>3, <1>7 DEF ToSet
<1> QED
  BY <1>2, <1>7, <1>8, <1>9

-----------------------------------------------------------------------------
(* What is evicted or stale goes from everywhere.                          *)

LEMMA ListSize ==
  ASSUME NEW X, NEW s \in Seq(X)
  PROVE  /\ IsFiniteSet(ToSet(s)) /\ Cardinality(ToSet(s)) \in Nat /\ Cardinality(ToSet(s)) <= Len(s)
         /\ IsInjective(s) => Cardinality(ToSet(s)) = Len(s)
<1> DEFINE D == 1 .. Len(s)
           T == ToSet(s)
<1>1. Len(s) \in Nat /\ DOMAIN s = D /\ s \in [D -> X] /\ T = {s[i] : i \in D}
  BY DEF ToSet
<1>2. IsFiniteSet(D) /\ Cardinality(D) = Len(s)
  BY <1>1, FS_Interval
<1> HIDE DEF D, T
<1>3. s \in Surjection(D, T)
  BY <1>1 DEF Surjection
<1>4. IsFiniteSet(T) /\ Cardinality(T) <= Cardinality(D) /\ (Cardinality(T) = Cardinality(D) <=> s \in Injection(D, T))
  BY <1>2, <1>3, FS_Surjection
<1>5. IsInjective(s) => s \in Injection(D, T)
  BY <1>1, <1>3 DEF IsInjective, Injection, Surjection
<1>6. Cardinality(T) \in Nat
  BY <1>4, FS_CardinalityType
<1> QED
  BY <1>2, <1>4, <1>5, <1>6 DEF T

(* What a list has is among its latest or among those before.              *)
LEMMA EarlierOrLatest ==
  ASSUME NEW X, NEW s \in Seq(X), NEW n \in Nat \ {0}, Len(s) > n
  PROVE  ToSet(s) \ ToSet(SubSeq(s, 1, Len(s) - n)) \in SUBSET ToSet(Latest(s, n))
<1> DEFINE m == Len(s) - n
           before == SubSeq(s, 1, m)
           after == SubSeq(s, m + 1, Len(s))
<1>1. Len(s) \in Nat /\ DOMAIN s = 1 .. Len(s) /\ m \in 1 .. Len(s)
  OBVIOUS
<1>2. after = Latest(s, n)
  BY DEF Latest
<1>3. DOMAIN before = 1 .. m /\ \A i \in 1 .. m : before[i] = s[i]
  BY <1>1
<1>4. DOMAIN after = 1 .. n /\ \A i \in 1 .. n : after[i] = s[m + i]
  BY <1>1
<1> SUFFICES ASSUME NEW i \in 1 .. Len(s), s[i] \notin ToSet(before) PROVE s[i] \in ToSet(after)
  BY <1>1, <1>2 DEF ToSet
<1>5. i \notin 1 .. m
  BY <1>3 DEF ToSet
<1>6. i - m \in 1 .. n /\ m + (i - m) = i
  BY <1>1, <1>5
<1> HIDE DEF before, after, m
<1>7. after[i - m] = s[i]
  BY <1>4, <1>6
<1> QED
  BY <1>4, <1>6, <1>7 DEF ToSet

(* What Within leaves, with the traces, their order and the selection.     *)
CutTo(st, S, traces, sorted, selected) ==
  [events |-> st.events \cap S, order |-> Keep(st.order, S), traces |-> traces, traceOrder |-> sorted,
   index |-> [k \in Indexed |-> Keep(st.index[k], S)], runs |-> st.runs, selectedTrace |-> selected,
   selectedEvent |-> IF st.selectedEvent \in S THEN st.selectedEvent ELSE None, mode |-> st.mode,
   lanes |-> st.lanes, denied |-> st.denied]

LEMMA WithinIs ==
  ASSUME NEW st \in Stores, NEW S
  PROVE  Within(st, S) = CutTo(st, S, st.traces, st.traceOrder, st.selectedTrace)
<1> DEFINE kept == Keep(st.order, S)
           index == [k \in Indexed |-> Keep(st.index[k], S)]
           event == IF st.selectedEvent \in S THEN st.selectedEvent ELSE None
           events == st.events \cap S
<1>1. Within(st, S) = [st EXCEPT !.events = events, !.order = kept, !.index = index, !.selectedEvent = event]
  BY DEF Within
<1>2. CutTo(st, S, st.traces, st.traceOrder, st.selectedTrace)
        = [events |-> events, order |-> kept, traces |-> st.traces, traceOrder |-> st.traceOrder, index |-> index,
           runs |-> st.runs, selectedTrace |-> st.selectedTrace, selectedEvent |-> event, mode |-> st.mode,
           lanes |-> st.lanes, denied |-> st.denied]
  BY DEF CutTo
<1> HIDE DEF kept, index, event, events
<1> QED
  BY <1>1, <1>2 DEF Stores

LEMMA WithinFields ==
  ASSUME NEW st \in Stores, NEW S
  PROVE  /\ Within(st, S).traces = st.traces /\ Within(st, S).traceOrder = st.traceOrder
         /\ Within(st, S).selectedTrace = st.selectedTrace
BY WithinIs DEF CutTo

Cutting(st, S, traces, sorted, selected) ==
  [Within(st, S) EXCEPT !.traces = traces, !.traceOrder = sorted, !.selectedTrace = selected]

LEMMA CutIs ==
  ASSUME NEW st \in Stores, NEW S, NEW traces, NEW sorted, NEW selected
  PROVE  Cutting(st, S, traces, sorted, selected) = CutTo(st, S, traces, sorted, selected)
<1> DEFINE kept == Keep(st.order, S)
           index == [k \in Indexed |-> Keep(st.index[k], S)]
           event == IF st.selectedEvent \in S THEN st.selectedEvent ELSE None
           events == st.events \cap S
           w == Within(st, S)
<1>1. w = [events |-> events, order |-> kept, traces |-> st.traces, traceOrder |-> st.traceOrder, index |-> index,
           runs |-> st.runs, selectedTrace |-> st.selectedTrace, selectedEvent |-> event, mode |-> st.mode,
           lanes |-> st.lanes, denied |-> st.denied]
  BY WithinIs DEF CutTo
<1>2. CutTo(st, S, traces, sorted, selected)
        = [events |-> events, order |-> kept, traces |-> traces, traceOrder |-> sorted, index |-> index,
           runs |-> st.runs, selectedTrace |-> selected, selectedEvent |-> event, mode |-> st.mode,
           lanes |-> st.lanes, denied |-> st.denied]
  BY DEF CutTo
<1>3. Cutting(st, S, traces, sorted, selected)
        = [w EXCEPT !.traces = traces, !.traceOrder = sorted, !.selectedTrace = selected]
  BY DEF Cutting
<1> HIDE DEF kept, index, event, events, w
<1> QED
  BY <1>1, <1>2, <1>3

IsCut(r, st, S) == Whole(r) /\ r.order = Keep(st.order, S) /\ r.runs = st.runs /\ r.mode = st.mode

LEMMA CutWhole ==
  ASSUME NEW st, Whole(st), NEW S, NEW traces \in TraceMaps(SUBSET Event), NEW sorted \in Seq(Trace),
         NEW selected \in Trace \cup {None}, TracesOf(traces, sorted, st.events \cap S),
         NEW r, r = CutTo(st, S, traces, sorted, selected)
  PROVE  IsCut(r, st, S)
<1>0. st \in Stores /\ Enlisted(st) /\ Pointed(st) /\ Laned(st)
  BY DEF Whole
<1> DEFINE kept == Keep(st.order, S)
           index == [k \in Indexed |-> Keep(st.index[k], S)]
           event == IF st.selectedEvent \in S THEN st.selectedEvent ELSE None
           events == st.events \cap S
<1>1. kept \in Seq(Event) /\ IsInjective(kept) /\ events = ToSet(kept) /\ events \in SUBSET Event
  <2>1. st.order \in Seq(Event) /\ IsInjective(st.order) /\ st.events = ToSet(st.order) /\ st.events \in SUBSET Event
    BY <1>0, StoreIs DEF Enlisted
  <2> QED
    BY <2>1, KeepFacts
<1>2. \A k \in Indexed : index[k] \in Seq(Event) /\ ToSet(index[k]) \subseteq events
  <2> SUFFICES ASSUME NEW k \in Indexed PROVE index[k] \in Seq(Event) /\ ToSet(index[k]) \subseteq events
    OBVIOUS
  <2>1. st.index[k] \in Seq(Event) /\ ToSet(st.index[k]) \subseteq st.events
    BY <1>0, StoreIs DEF Pointed
  <2>2. Keep(st.index[k], S) \in Seq(Event) /\ ToSet(Keep(st.index[k], S)) = ToSet(st.index[k]) \cap S
    BY <2>1, KeepFacts
  <2> QED
    BY <2>1, <2>2
<1>3. event \in events \cup {None} /\ events \subseteq st.events
  BY <1>0 DEF Pointed
<1>4. index \in [Indexed -> Seq(Event)]
  BY <1>2
<1>5. r = [events |-> events, order |-> kept, traces |-> traces, traceOrder |-> sorted, index |-> index,
           runs |-> st.runs, selectedTrace |-> selected, selectedEvent |-> event, mode |-> st.mode,
           lanes |-> st.lanes, denied |-> st.denied]
  BY DEF CutTo
<1> HIDE DEF kept, index, event, events
<1>6. r \in Stores
  BY <1>0, <1>1, <1>3, <1>4, <1>5, StoreIs DEF Stores
<1>7. /\ r.events = events /\ r.order = kept /\ r.traces = traces /\ r.traceOrder = sorted /\ r.index = index
      /\ r.selectedEvent = event /\ r.lanes = st.lanes /\ r.denied = st.denied /\ r.runs = st.runs /\ r.mode = st.mode
  BY <1>5
<1>8. Enlisted(r) /\ Pointed(r)
  BY <1>1, <1>2, <1>3, <1>7 DEF Enlisted, Pointed
<1>9. Traced(r)
  BY <1>7 DEF Traced, events
<1>10. Laned(r)
  BY <1>0, <1>3, <1>7 DEF Laned
<1> QED
  BY <1>6, <1>7, <1>8, <1>9, <1>10 DEF Whole, IsCut, kept

LEMMA TracesWithinIs ==
  ASSUME NEW traces \in TraceMaps(SUBSET Event), NEW sorted, NEW events, TracesOf(traces, sorted, events), NEW S
  PROVE  /\ TracesWithin(traces, S) \in TraceMaps(SUBSET Event)
         /\ DOMAIN TracesWithin(traces, S) \in SUBSET DOMAIN traces
         /\ TracesOf(TracesWithin(traces, S), sorted, events \cap S)
<1> DEFINE left == {t \in DOMAIN traces : traces[t] \cap S # {}}
           cut == [t \in DOMAIN traces |-> traces[t] \cap S]
           r == Restrict(cut, left)
<1>1. DOMAIN traces \in SUBSET Trace /\ traces \in [DOMAIN traces -> SUBSET Event]
  BY TraceMapIs
<1>2. r = TracesWithin(traces, S)
  BY DEF TracesWithin
<1>3. DOMAIN r = left /\ \A t \in left : r[t] = traces[t] \cap S
  BY DEF Restrict
<1>4. r \in [left -> SUBSET Event]
  BY <1>1 DEF Restrict
<1>5. left \in SUBSET DOMAIN traces
  OBVIOUS
<1> HIDE DEF r, cut
<1>6. r \in TraceMaps(SUBSET Event)
  BY <1>1, <1>3, <1>4, <1>5, TraceMapIs
<1>7. TracesOf(r, sorted, events \cap S)
  <2>1. \A t \in DOMAIN r : r[t] \subseteq events \cap S /\ r[t] # {}
    BY <1>3 DEF TracesOf
  <2>2. \A e \in events \cap S : \E t \in DOMAIN r : e \in r[t]
    <3> SUFFICES ASSUME NEW e \in events \cap S PROVE \E t \in DOMAIN r : e \in r[t]
      OBVIOUS
    <3>1. PICK t \in DOMAIN traces : e \in traces[t]
      BY DEF TracesOf
    <3>2. t \in left /\ e \in r[t]
      BY <1>3, <3>1
    <3> QED
      BY <1>3, <3>2
  <2>3. DOMAIN r \subseteq ToSet(sorted)
    BY <1>3, <1>5 DEF TracesOf
  <2> QED
    BY <2>1, <2>2, <2>3 DEF TracesOf
<1> QED
  BY <1>2, <1>3, <1>5, <1>6, <1>7

LEMMA EventsEvicted ==
  ASSUME NEW st, Whole(st), NEW r, r = EvictOldestEvents(st)
  PROVE  Whole(r) /\ Len(r.order) <= MaxEvents /\ r.runs = st.runs /\ r.mode = st.mode
<1>0. st \in Stores /\ Enlisted(st) /\ Traced(st)
  BY DEF Whole
<1>1. /\ st.order \in Seq(Event) /\ IsInjective(st.order) /\ st.traces \in TraceMaps(SUBSET Event)
      /\ st.traceOrder \in Seq(Trace) /\ st.selectedTrace \in Trace \cup {None} /\ MaxEvents \in Nat \ {0}
      /\ TracesOf(st.traces, st.traceOrder, st.events)
  BY <1>0, StoreIs, StoreAssumption DEF Enlisted, Traced
<1>2. CASE Len(st.order) <= MaxEvents
  BY <1>2 DEF EvictOldestEvents
<1>3. CASE ~(Len(st.order) <= MaxEvents)
  <2> DEFINE kept == ToSet(Latest(st.order, MaxEvents))
             traces == TracesWithin(st.traces, kept)
  <2>1. r = [Within(st, kept) EXCEPT !.traces = TracesWithin(Within(st, kept).traces, kept)]
    BY <1>3 DEF EvictOldestEvents
  <2>2. /\ Latest(st.order, MaxEvents) \in Seq(Event) /\ Len(Latest(st.order, MaxEvents)) \in Nat
        /\ Len(Latest(st.order, MaxEvents)) <= MaxEvents /\ kept \in SUBSET ToSet(st.order)
    BY <1>1, LatestFacts
  <2>3. Cardinality(kept) <= MaxEvents /\ Cardinality(kept) \in Nat
    <3>1. Cardinality(kept) \in Nat /\ Cardinality(kept) <= Len(Latest(st.order, MaxEvents))
      BY <2>2, ListSize
    <3> QED
      BY <1>1, <2>2, <3>1
  <2> HIDE DEF kept
  <2>4. /\ traces \in TraceMaps(SUBSET Event) /\ TracesOf(traces, st.traceOrder, st.events \cap kept)
    BY <1>1, TracesWithinIs
  <2> HIDE DEF traces
  <2>5. r = CutTo(st, kept, traces, st.traceOrder, st.selectedTrace)
    <3>1. Within(st, kept).traces = st.traces
      BY <1>0, WithinFields
    <3>2. r = [Within(st, kept) EXCEPT !.traces = traces]
      BY <2>1, <3>1 DEF traces
    <3>3. Within(st, kept) = CutTo(st, kept, st.traces, st.traceOrder, st.selectedTrace)
      BY <1>0, WithinIs
    <3> QED
      BY <3>2, <3>3 DEF CutTo
  <2>6. Whole(r) /\ r.order = Keep(st.order, kept) /\ r.runs = st.runs /\ r.mode = st.mode
    <3>1. IsCut(r, st, kept)
      BY <1>1, <2>4, <2>5, CutWhole
    <3> QED
      BY <3>1 DEF IsCut
  <2>7. Len(r.order) <= MaxEvents
    <3>1. /\ Keep(st.order, kept) \in Seq(Event) /\ ToSet(Keep(st.order, kept)) = ToSet(st.order) \cap kept
          /\ IsInjective(Keep(st.order, kept))
      BY <1>1, KeepFacts
    <3>2. ToSet(Keep(st.order, kept)) = kept
      BY <2>2, <3>1
    <3>3. Cardinality(ToSet(Keep(st.order, kept))) = Len(Keep(st.order, kept))
      BY <3>1, ListSize
    <3> QED
      BY <2>3, <2>6, <3>2, <3>3
  <2> QED
    BY <2>6, <2>7
<1> QED
  BY <1>2, <1>3

LEMMA TracesEvicted ==
  ASSUME NEW st, Whole(st), Len(st.order) <= MaxEvents, NEW r, r = EvictOldestTraces(st)
  PROVE  Whole(r) /\ Sized(r) /\ r.runs = st.runs /\ r.mode = st.mode
<1>0. st \in Stores /\ Enlisted(st) /\ Traced(st)
  BY DEF Whole
<1>1. /\ st.order \in Seq(Event) /\ st.traces \in TraceMaps(SUBSET Event)
      /\ st.traceOrder \in Seq(Trace) /\ st.selectedTrace \in Trace \cup {None} /\ MaxTraces \in Nat \ {0}
      /\ MaxEvents \in Nat
      /\ TracesOf(st.traces, st.traceOrder, st.events)
  BY <1>0, StoreIs, StoreAssumption DEF Traced
<1>2. CASE Len(st.traceOrder) <= MaxTraces
  <2>1. r = st
    BY <1>2 DEF EvictOldestTraces
  <2>2. DOMAIN st.traces \in SUBSET ToSet(st.traceOrder)
    BY <1>1 DEF TracesOf
  <2>3. /\ IsFiniteSet(ToSet(st.traceOrder)) /\ Cardinality(ToSet(st.traceOrder)) \in Nat
        /\ Cardinality(ToSet(st.traceOrder)) <= Len(st.traceOrder)
    BY <1>1, ListSize
  <2>4. Cardinality(DOMAIN st.traces) <= Cardinality(ToSet(st.traceOrder)) /\ Cardinality(DOMAIN st.traces) \in Nat
    BY <2>2, <2>3, FS_Subset, FS_CardinalityType
  <2>5. Cardinality(DOMAIN st.traces) <= MaxTraces
    BY <1>1, <1>2, <2>3, <2>4
  <2> QED
    BY <2>1, <2>5 DEF Sized
<1>3. CASE ~(Len(st.traceOrder) <= MaxTraces)
  <2> DEFINE gone == ToSet(SubSeq(st.traceOrder, 1, Len(st.traceOrder) - MaxTraces))
             left == DOMAIN st.traces \ gone
             traces == Restrict(st.traces, left)
             S == UNION Range(traces)
             sorted == Latest(st.traceOrder, MaxTraces)
             selected == IF st.selectedTrace \in gone THEN None ELSE st.selectedTrace
  <2>1. r = [Within(st, S) EXCEPT !.traces = traces, !.traceOrder = Latest(Within(st, S).traceOrder, MaxTraces),
               !.selectedTrace = IF Within(st, S).selectedTrace \in gone THEN None ELSE Within(st, S).selectedTrace]
    BY <1>3 DEF EvictOldestTraces
  <2>2. selected \in Trace \cup {None}
    BY <1>1
  <2>3. DOMAIN traces = left /\ \A t \in left : traces[t] = st.traces[t]
    BY DEF Restrict
  <2>4. traces \in TraceMaps(SUBSET Event)
    <3>1. DOMAIN st.traces \in SUBSET Trace /\ st.traces \in [DOMAIN st.traces -> SUBSET Event]
      BY <1>1, TraceMapIs
    <3>2. left \in SUBSET Trace /\ traces \in [left -> SUBSET Event]
      BY <3>1 DEF Restrict
    <3> HIDE DEF traces, left
    <3> QED
      BY <2>3, <3>2, TraceMapIs
  <2>5. S = UNION {traces[t] : t \in left}
    BY DEF Range, Restrict
  <2>6. left \in SUBSET ToSet(sorted)
    <3>1. /\ DOMAIN st.traces \in SUBSET ToSet(st.traceOrder)
          /\ ToSet(st.traceOrder) \ gone \in SUBSET ToSet(sorted)
      <4>1. Len(st.traceOrder) > MaxTraces
        BY <1>1, <1>3
      <4>2. ToSet(st.traceOrder) \ gone \in SUBSET ToSet(sorted)
        BY <1>1, <4>1, EarlierOrLatest
      <4> QED
        BY <1>1, <4>2 DEF TracesOf
    <3> QED
      BY <3>1
  <2>7. sorted \in Seq(Trace) /\ Len(sorted) \in Nat /\ Len(sorted) <= MaxTraces
    BY <1>1, LatestFacts
  <2> HIDE DEF traces, S, gone, sorted, selected
  <2>8. TracesOf(traces, sorted, st.events \cap S)
    <3>1. \A t \in DOMAIN traces : traces[t] \subseteq st.events \cap S /\ traces[t] # {}
      BY <1>1, <2>3, <2>5 DEF TracesOf
    <3>2. \A e \in st.events \cap S : \E t \in DOMAIN traces : e \in traces[t]
      BY <2>3, <2>5
    <3> QED
      BY <2>3, <2>6, <3>1, <3>2 DEF TracesOf
  <2>9. r = CutTo(st, S, traces, sorted, selected)
    <3>1. Within(st, S).traceOrder = st.traceOrder /\ Within(st, S).selectedTrace = st.selectedTrace
      BY <1>0, WithinFields
    <3>2. r = Cutting(st, S, traces, sorted, selected)
      BY <2>1, <3>1 DEF Cutting, sorted, selected
    <3> QED
      BY <1>0, <3>2, CutIs
  <2>10. Whole(r) /\ r.order = Keep(st.order, S) /\ r.runs = st.runs /\ r.mode = st.mode
    <3>1. IsCut(r, st, S)
      BY <2>2, <2>4, <2>7, <2>8, <2>9, CutWhole
    <3> QED
      BY <3>1 DEF IsCut
  <2>11. Len(r.order) <= MaxEvents
    <3>1. Len(Keep(st.order, S)) \in Nat /\ Len(Keep(st.order, S)) <= Len(st.order)
      BY <1>1, KeepFacts
    <3> QED
      BY <1>1, <2>10, <3>1
  <2>12. Cardinality(DOMAIN r.traces) <= MaxTraces
    <3>1. r.traces = traces
      BY <2>9 DEF CutTo
    <3>2. IsFiniteSet(ToSet(sorted)) /\ Cardinality(ToSet(sorted)) \in Nat /\ Cardinality(ToSet(sorted)) <= Len(sorted)
      BY <2>7, ListSize
    <3>3. Cardinality(left) <= Cardinality(ToSet(sorted)) /\ Cardinality(left) \in Nat
      <4> HIDE DEF left
      <4> QED
        BY <2>6, <3>2, FS_Subset, FS_CardinalityType
    <3>4. Cardinality(left) <= MaxTraces
      <4> HIDE DEF left
      <4> QED
        BY <1>1, <2>7, <3>2, <3>3
    <3> QED
      BY <2>3, <3>1, <3>4
  <2> QED
    BY <2>10, <2>11, <2>12 DEF Sized
<1> QED
  BY <1>2, <1>3

LEMMA CleanedUp ==
  ASSUME NEW st, Whole(st), Sized(st), NEW stale, NEW r, r = CleanupStale(st, stale)
  PROVE  Whole(r) /\ Sized(r) /\ r.runs = st.runs /\ r.mode = st.mode
<1>0. st \in Stores /\ Enlisted(st) /\ Traced(st) /\ Len(st.order) <= MaxEvents /\ Cardinality(DOMAIN st.traces) <= MaxTraces
  BY DEF Whole, Sized
<1>1. /\ st.order \in Seq(Event) /\ st.traces \in TraceMaps(SUBSET Event)
      /\ st.traceOrder \in Seq(Trace) /\ st.selectedTrace \in Trace \cup {None} /\ MaxTraces \in Nat
      /\ MaxEvents \in Nat
      /\ TracesOf(st.traces, st.traceOrder, st.events)
  BY <1>0, StoreIs, StoreAssumption DEF Traced
<1>2. CASE ToSet(st.order) \cap stale = {}
  BY <1>2 DEF CleanupStale
<1>3. CASE ToSet(st.order) \cap stale # {}
  <2> DEFINE kept == st.events \ stale
             traces == TracesWithin(st.traces, kept)
             sorted == Keep(st.traceOrder, DOMAIN traces)
             selected == IF st.selectedTrace \in DOMAIN traces THEN st.selectedTrace ELSE None
  <2>1. r = [Within(st, kept) EXCEPT !.traces = traces, !.traceOrder = Keep(Within(st, kept).traceOrder, DOMAIN traces),
               !.selectedTrace = IF Within(st, kept).selectedTrace \in DOMAIN traces
                                 THEN Within(st, kept).selectedTrace ELSE None]
    BY <1>3 DEF CleanupStale
  <2>2. selected \in Trace \cup {None}
    BY <1>1
  <2> HIDE DEF kept
  <2>3. /\ traces \in TraceMaps(SUBSET Event) /\ TracesOf(traces, st.traceOrder, st.events \cap kept)
        /\ DOMAIN traces \in SUBSET DOMAIN st.traces
    BY <1>1, TracesWithinIs
  <2> HIDE DEF traces, selected
  <2>4. sorted \in Seq(Trace) /\ ToSet(sorted) = ToSet(st.traceOrder) \cap DOMAIN traces
    BY <1>1, KeepFacts
  <2>5. TracesOf(traces, sorted, st.events \cap kept)
    BY <2>3, <2>4 DEF TracesOf
  <2> HIDE DEF sorted
  <2>6. r = CutTo(st, kept, traces, sorted, selected)
    <3>1. Within(st, kept).traceOrder = st.traceOrder /\ Within(st, kept).selectedTrace = st.selectedTrace
      BY <1>0, WithinFields
    <3>2. r = Cutting(st, kept, traces, sorted, selected)
      BY <2>1, <3>1 DEF Cutting, sorted, selected
    <3> QED
      BY <1>0, <3>2, CutIs
  <2>7. Whole(r) /\ r.order = Keep(st.order, kept) /\ r.runs = st.runs /\ r.mode = st.mode
    <3>1. IsCut(r, st, kept)
      BY <2>2, <2>3, <2>4, <2>5, <2>6, CutWhole
    <3> QED
      BY <3>1 DEF IsCut
  <2>8. Len(r.order) <= MaxEvents
    <3>1. Len(Keep(st.order, kept)) \in Nat /\ Len(Keep(st.order, kept)) <= Len(st.order)
      BY <1>1, KeepFacts
    <3> QED
      BY <1>0, <1>1, <2>7, <3>1
  <2>9. Cardinality(DOMAIN r.traces) <= MaxTraces
    <3>1. r.traces = traces
      BY <2>6 DEF CutTo
    <3>2. IsFiniteSet(ToSet(st.traceOrder)) /\ DOMAIN st.traces \in SUBSET ToSet(st.traceOrder)
      BY <1>1, ListSize DEF TracesOf
    <3>3. /\ IsFiniteSet(DOMAIN st.traces) /\ Cardinality(DOMAIN st.traces) \in Nat
      BY <3>2, FS_Subset, FS_CardinalityType
    <3>4. Cardinality(DOMAIN traces) <= Cardinality(DOMAIN st.traces) /\ Cardinality(DOMAIN traces) \in Nat
      BY <2>3, <3>3, FS_Subset, FS_CardinalityType
    <3>5. Cardinality(DOMAIN traces) <= MaxTraces
      BY <1>0, <1>1, <3>3, <3>4
    <3> QED
      BY <3>1, <3>5
  <2> QED
    BY <2>7, <2>8, <2>9 DEF Sized
<1> QED
  BY <1>2, <1>3

LEMMA StoringWhole ==
  ASSUME NEW st, Whole(st), Sized(st), NEW batch \in Seq(Event), NEW r, r = AddBatch(st, batch)
  PROVE  /\ Whole(r) /\ Sized(r) /\ KeepsSettled(r, st) /\ r.mode = st.mode
         /\ st.mode # "PAUSED" => \A e \in ToSet(batch) : Ending(e) => Settled(r.runs, Info[e].trace)
<1>1. CASE st.mode = "PAUSED"
  BY <1>1 DEF AddBatch, KeepsSettled
<1>2. CASE batch = <<>>
  BY <1>2 DEF AddBatch, KeepsSettled, ToSet
<1>3. CASE st.mode # "PAUSED" /\ batch # <<>>
  <2> DEFINE a1 == FoldLeft(Added, st, batch)
             a2 == EvictOldestEvents(a1)
  <2>1. r = EvictOldestTraces(a2)
    BY <1>3 DEF AddBatch
  <2>2. /\ Whole(a1) /\ KeepsSettled(a1, st) /\ a1.mode = st.mode
        /\ \A e \in ToSet(batch) : Ending(e) => Settled(a1.runs, Info[e].trace)
    BY Batched
  <2> HIDE DEF a1
  <2>3. Whole(a2) /\ Len(a2.order) <= MaxEvents /\ a2.runs = a1.runs /\ a2.mode = a1.mode
    BY <2>2, EventsEvicted
  <2> HIDE DEF a2
  <2>4. Whole(r) /\ Sized(r) /\ r.runs = a2.runs /\ r.mode = a2.mode
    BY <2>1, <2>3, TracesEvicted
  <2> QED
    BY <2>2, <2>3, <2>4 DEF KeepsSettled
<1> QED
  BY <1>1, <1>2, <1>3

(* What is told of a run, selected or paused leaves the events alone.      *)
SameEvents(r, st) ==
  /\ r.events = st.events /\ r.order = st.order /\ r.traces = st.traces /\ r.traceOrder = st.traceOrder
  /\ r.index = st.index /\ r.lanes = st.lanes /\ r.denied = st.denied

LEMMA SameWhole ==
  ASSUME NEW st, Whole(st), NEW r \in Stores, SameEvents(r, st), r.selectedEvent \in r.events \cup {None}
  PROVE  Whole(r) /\ (Sized(st) => Sized(r))
BY DEF Whole, Sized, SameEvents, Enlisted, Traced, Pointed, Laned

LEMMA ApiRunIs ==
  ASSUME NEW st, Whole(st), Sized(st), NEW t \in Trace, NEW status \in {"completed", "failed"}, NEW n \in Nat \cup {None},
         NEW r, r = RunFromApi(st, t, status, n)
  PROVE  Whole(r) /\ Sized(r) /\ KeepsSettled(r, st)
<1> DEFINE steps == IF n = None THEN RunOf(st.runs, t).steps ELSE [i \in 1..n |-> "api"]
           run == [status |-> status, ended |-> TRUE, steps |-> steps]
           runs == Put(st.runs, t, run)
<1>1. st \in Stores /\ Pointed(st)
  BY DEF Whole
<1>2. st.runs \in TraceMaps(Runs) /\ DOMAIN st.runs \in SUBSET Trace /\ st.runs \in [DOMAIN st.runs -> Runs]
  BY <1>1, StoreIs, TraceMapIs
<1>3. steps \in Seq(Event \cup {"api"})
  <2>1. RunOf(st.runs, t).steps \in Seq(Event \cup {"api"})
    BY <1>2, EmptySeq DEF RunOf, Runs
  <2>2. n # None => [i \in 1..n |-> "api"] \in Seq(Event \cup {"api"})
    BY SeqDef
  <2> QED
    BY <2>1, <2>2
<1> HIDE DEF steps
<1>4. run \in Runs
  BY <1>3 DEF Runs
<1>5. r = [st EXCEPT !.runs = runs]
  BY DEF RunFromApi, steps
<1>6. run.ended
  OBVIOUS
<1> HIDE DEF run
<1>7. runs \in TraceMaps(Runs) /\ HasPut(runs, st.runs, t, run)
  BY <1>2, <1>4, PutIs
<1> HIDE DEF runs
<1>8. r = [events |-> st.events, order |-> st.order, traces |-> st.traces, traceOrder |-> st.traceOrder,
           index |-> st.index, runs |-> runs, selectedTrace |-> st.selectedTrace,
           selectedEvent |-> st.selectedEvent, mode |-> st.mode, lanes |-> st.lanes, denied |-> st.denied]
  BY <1>1, <1>5 DEF Stores
<1>9. r \in Stores
  BY <1>1, <1>7, <1>8, StoreIs DEF Stores
<1>10. SameEvents(r, st) /\ r.selectedEvent = st.selectedEvent /\ r.runs = runs /\ r.events = st.events
  BY <1>8 DEF SameEvents
<1>11. Whole(r) /\ Sized(r)
  BY <1>1, <1>9, <1>10, SameWhole DEF Pointed
<1>12. KeepsSettled(r, st)
  <2> SUFFICES ASSUME NEW u \in Trace, Settled(st.runs, u) PROVE Settled(runs, u)
    BY <1>10 DEF KeepsSettled
  <2>1. CASE u = t
    BY <1>6, <1>7, <2>1 DEF HasPut, Settled
  <2>2. CASE u # t
    BY <1>7, <2>2 DEF HasPut, Settled
  <2> QED
    BY <2>1, <2>2
<1> QED
  BY <1>11, <1>12

LEMMA SelectedWhole ==
  ASSUME NEW st, Whole(st), Sized(st), NEW t \in Trace, NEW r, r = [st EXCEPT !.selectedTrace = t]
  PROVE  Whole(r) /\ Sized(r) /\ r.runs = st.runs
<1>1. st \in Stores /\ Pointed(st)
  BY DEF Whole
<1>2. r = [events |-> st.events, order |-> st.order, traces |-> st.traces, traceOrder |-> st.traceOrder,
           index |-> st.index, runs |-> st.runs, selectedTrace |-> t,
           selectedEvent |-> st.selectedEvent, mode |-> st.mode, lanes |-> st.lanes, denied |-> st.denied]
  BY <1>1 DEF Stores
<1>3. r \in Stores
  BY <1>1, <1>2, StoreIs DEF Stores
<1>4. SameEvents(r, st) /\ r.selectedEvent = st.selectedEvent /\ r.runs = st.runs /\ r.events = st.events
  BY <1>2 DEF SameEvents
<1> QED
  BY <1>1, <1>3, <1>4, SameWhole DEF Pointed

LEMMA PointedWhole ==
  ASSUME NEW st, Whole(st), Sized(st), NEW e \in st.events, NEW r, r = [st EXCEPT !.selectedEvent = e]
  PROVE  Whole(r) /\ Sized(r) /\ r.runs = st.runs
<1>1. st \in Stores /\ e \in Event
  BY StoreIs DEF Whole
<1>2. r = [events |-> st.events, order |-> st.order, traces |-> st.traces, traceOrder |-> st.traceOrder,
           index |-> st.index, runs |-> st.runs, selectedTrace |-> st.selectedTrace,
           selectedEvent |-> e, mode |-> st.mode, lanes |-> st.lanes, denied |-> st.denied]
  BY <1>1 DEF Stores
<1>3. r \in Stores
  BY <1>1, <1>2, StoreIs DEF Stores
<1>4. SameEvents(r, st) /\ r.selectedEvent = e /\ r.runs = st.runs /\ r.events = st.events
  BY <1>2 DEF SameEvents
<1> QED
  BY <1>1, <1>3, <1>4, SameWhole

LEMMA ToggledWhole ==
  ASSUME NEW st, Whole(st), Sized(st), NEW r, r = Toggled(st)
  PROVE  Whole(r) /\ Sized(r) /\ r.runs = st.runs
<1> DEFINE m == IF st.mode = "LIVE" THEN "PAUSED" ELSE "LIVE"
<1>1. st \in Stores /\ Pointed(st)
  BY DEF Whole
<1>2. r = [st EXCEPT !.mode = m]
  BY DEF Toggled
<1>3. m \in {"LIVE", "PAUSED"}
  OBVIOUS
<1> HIDE DEF m
<1>4. r = [events |-> st.events, order |-> st.order, traces |-> st.traces, traceOrder |-> st.traceOrder,
           index |-> st.index, runs |-> st.runs, selectedTrace |-> st.selectedTrace,
           selectedEvent |-> st.selectedEvent, mode |-> m, lanes |-> st.lanes, denied |-> st.denied]
  BY <1>1, <1>2 DEF Stores
<1>5. r \in Stores
  BY <1>1, <1>3, <1>4, StoreIs DEF Stores
<1>6. SameEvents(r, st) /\ r.selectedEvent = st.selectedEvent /\ r.runs = st.runs /\ r.events = st.events
  BY <1>4 DEF SameEvents
<1> QED
  BY <1>1, <1>5, <1>6, SameWhole DEF Pointed

-----------------------------------------------------------------------------
(* The page                                                                *)

Pages == [queue : Seq(Event), buffer : Seq(Event), store : Stores, graphing : Seq(Event), timer : BOOLEAN]
GoodPage(p) == p \in Pages /\ Whole(p.store) /\ Sized(p.store)

LEMMA PageIs ==
  ASSUME NEW p, GoodPage(p)
  PROVE  /\ p = [queue |-> p.queue, buffer |-> p.buffer, store |-> p.store, graphing |-> p.graphing,
                timer |-> p.timer]
         /\ p.queue \in Seq(Event) /\ p.buffer \in Seq(Event) /\ p.graphing \in Seq(Event)
         /\ p.timer \in BOOLEAN /\ p.store \in Stores /\ Whole(p.store) /\ Sized(p.store)
BY DEF GoodPage, Pages

LEMMA PageStored ==
  ASSUME NEW p, GoodPage(p), NEW st, Whole(st), Sized(st), NEW r, r = [p EXCEPT !.store = st]
  PROVE  GoodPage(r) /\ r.store = st /\ r.buffer = p.buffer
<1>1. r = [queue |-> p.queue, buffer |-> p.buffer, store |-> st, graphing |-> p.graphing, timer |-> p.timer]
  BY PageIs
<1>2. st \in Stores
  BY DEF Whole
<1>3. r \in Pages
  BY <1>1, <1>2, PageIs DEF Pages
<1> QED
  BY <1>1, <1>3 DEF GoodPage

LEMMA SelectedIs ==
  ASSUME NEW p, GoodPage(p), NEW t \in Trace, NEW r, r = Selected(p, t)
  PROVE  GoodPage(r) /\ r.store.runs = p.store.runs /\ r.buffer = p.buffer
<1> DEFINE st == [p.store EXCEPT !.selectedTrace = t]
<1>1. r = [p EXCEPT !.store = st]
  BY DEF Selected
<1>2. Whole(st) /\ Sized(st) /\ st.runs = p.store.runs
  BY PageIs, SelectedWhole
<1> HIDE DEF st
<1> QED
  BY <1>1, <1>2, PageStored

(* What the effects of a commit leave of the page: its store but for what  *)
(* is selected, and its buffer unless the message is added.                *)
Commits(r, p, e) ==
  GoodPage(r) /\ r.store.runs = p.store.runs /\ (r.buffer = p.buffer \/ e \in ToSet(r.buffer))

LEMMA CommitsTwice ==
  ASSUME NEW e, NEW p, NEW q, NEW r, Commits(q, p, e), Commits(r, q, e)
  PROVE  Commits(r, p, e)
BY DEF Commits

LEMMA EventEffectIs ==
  ASSUME NEW p, GoodPage(p), NEW e \in Event \cup {None}, NEW r, r = EventEffect(p, e)
  PROVE  Commits(r, p, e) /\ (e # None /\ Ending(e) => e \in ToSet(r.buffer))
<1>1. CASE e = None
  BY <1>1 DEF EventEffect, Commits
<1>2. CASE e # None
  <2> DEFINE kind == Info[e].kind
             queued == IF kind \in Visual THEN [p EXCEPT !.queue = Append(p.queue, e)] ELSE p
             chosen == IF kind = "SWARM_STARTED" /\ p.store.selectedTrace = None
                       THEN Selected(queued, Info[e].trace) ELSE queued
             buffer == Latest(Append(chosen.buffer, e), MaxBuffer)
  <2>0. e \in Event /\ Info[e].trace \in Trace /\ MaxBuffer \in Nat \ {0}
    BY <1>2, InfoIs, BrowserAssumption
  <2>1. GoodPage(queued) /\ queued.store = p.store /\ queued.buffer = p.buffer
    <3>1. CASE kind \notin Visual
      BY <3>1
    <3>2. CASE kind \in Visual
      <4>1. queued = [queue |-> Append(p.queue, e), buffer |-> p.buffer, store |-> p.store, graphing |-> p.graphing,
                      timer |-> p.timer]
        <5>1. queued = [p EXCEPT !.queue = Append(p.queue, e)]
          BY <3>2
        <5> QED
          BY <5>1 DEF GoodPage, Pages
      <4> HIDE DEF queued
      <4>2. queued \in Pages
        BY <2>0, <4>1, PageIs DEF Pages
      <4> QED
        BY <4>1, <4>2, PageIs DEF GoodPage
    <3> QED
      BY <3>1, <3>2
  <2>2. r = IF kind = "ANOMALY" THEN queued ELSE [chosen EXCEPT !.buffer = buffer]
    BY <1>2 DEF EventEffect
  <2> HIDE DEF queued
  <2>3. GoodPage(chosen) /\ chosen.store.runs = p.store.runs /\ chosen.buffer = p.buffer
    <3>1. GoodPage(Selected(queued, Info[e].trace)) /\ Selected(queued, Info[e].trace).store.runs = queued.store.runs
          /\ Selected(queued, Info[e].trace).buffer = queued.buffer
      BY <2>0, <2>1, SelectedIs
    <3> QED
      BY <2>1, <3>1
  <2> HIDE DEF chosen
  <2>4. buffer \in Seq(Event) /\ e \in ToSet(buffer)
    <3> DEFINE b == Append(chosen.buffer, e)
    <3>1. chosen.buffer \in Seq(Event)
      BY <2>3, PageIs
    <3>2. b \in Seq(Event) /\ Len(b) > 0 /\ b[Len(b)] = e
      BY <2>0, <3>1
    <3> HIDE DEF b
    <3>3. Latest(b, MaxBuffer) \in Seq(Event) /\ e \in ToSet(Latest(b, MaxBuffer))
      BY <2>0, <3>2, LatestFacts
    <3> QED
      BY <3>3 DEF b
  <2> HIDE DEF buffer
  <2>5. CASE kind = "ANOMALY"
    BY <2>1, <2>2, <2>5 DEF Commits, Ending
  <2>6. CASE kind # "ANOMALY"
    <3>1. r = [queue |-> chosen.queue, buffer |-> buffer, store |-> chosen.store, graphing |-> chosen.graphing,
               timer |-> chosen.timer]
      BY <2>2, <2>3, <2>6, PageIs
    <3>2. r \in Pages
      BY <2>3, <2>4, <3>1, PageIs DEF Pages
    <3>3. GoodPage(r)
      BY <2>3, <3>1, <3>2, PageIs DEF GoodPage
    <3>4. r.buffer = buffer /\ r.store = chosen.store
      BY <3>1
    <3> QED
      BY <2>3, <2>4, <3>3, <3>4 DEF Commits
  <2> QED
    BY <2>5, <2>6
<1> QED
  BY <1>1, <1>2

LEMMA FollowedIs ==
  ASSUME NEW p, GoodPage(p), NEW e, NEW r, r = Followed(p)
  PROVE  Commits(r, p, e)
<1> DEFINE latest == Last(p.store.order)
<1>1. CASE r = p
  BY <1>1 DEF Commits
<1>2. CASE r # p
  <2>1. p.store.order # <<>> /\ r = Selected(p, Info[latest].trace)
    BY <1>2 DEF Followed
  <2>2. p.store.order \in Seq(Event)
    BY PageIs, StoreIs
  <2>3. latest \in Event
    BY <2>1, <2>2 DEF Last
  <2> HIDE DEF latest
  <2>4. Info[latest].trace \in Trace
    BY <2>3, InfoIs
  <2> QED
    BY <2>1, <2>4, SelectedIs DEF Commits
<1> QED
  BY <1>1, <1>2

LEMMA GraphingIs ==
  ASSUME NEW p, GoodPage(p), NEW e, NEW r, r = Graphing(p)
  PROVE  Commits(r, p, e)
<1> DEFINE new == {x \in p.store.events : Info[x].kind \in Topological} \ (drawn \cup ToSet(p.graphing))
           more == Keep(p.store.order, new)
<1>1. r = [p EXCEPT !.graphing = p.graphing \o more, !.timer = TRUE]
  BY DEF Graphing
<1> HIDE DEF new
<1>2. more \in Seq(Event)
  <2>1. p.store.order \in Seq(Event)
    BY PageIs, StoreIs
  <2> QED
    BY <2>1, KeepFacts
<1> HIDE DEF more
<1>3. r = [queue |-> p.queue, buffer |-> p.buffer, store |-> p.store, graphing |-> p.graphing \o more, timer |-> TRUE]
  BY <1>1 DEF GoodPage, Pages
<1>4. p.graphing \o more \in Seq(Event)
  BY <1>2, PageIs
<1>5. r \in Pages
  BY <1>3, <1>4, PageIs DEF Pages
<1> QED
  BY <1>3, <1>5, PageIs DEF GoodPage, Commits

LEMMA CommittedIs ==
  ASSUME NEW p, GoodPage(p), NEW e \in Event \cup {None}, NEW before, NEW r, r = Committed(p, e, before)
  PROVE  Commits(r, p, e)
<1> DEFINE chosen == IF p.store.selectedTrace # before.store.selectedTrace THEN EventEffect(p, e) ELSE p
           informed == IF p.store.order # before.store.order \/ follow' # follow THEN Followed(chosen) ELSE chosen
           last == IF informed.store.selectedTrace # p.store.selectedTrace THEN EventEffect(informed, e) ELSE informed
<1>0. \A q : GoodPage(q) => Commits(q, q, e)
  BY DEF Commits
<1>1. Commits(chosen, p, e)
  BY <1>0, EventEffectIs
<1>2. GoodPage(chosen)
  BY <1>1 DEF Commits
<1> HIDE DEF chosen
<1>3. Commits(informed, chosen, e)
  BY <1>0, <1>2, FollowedIs
<1>4. GoodPage(informed)
  BY <1>3 DEF Commits
<1> HIDE DEF informed
<1>5. Commits(last, informed, e)
  BY <1>0, <1>4, EventEffectIs
<1>6. GoodPage(last)
  BY <1>5 DEF Commits
<1>7. r = IF p.store.order # before.store.order THEN Graphing(last) ELSE last
  BY DEF Committed, last, informed, chosen
<1> HIDE DEF last
<1>8. Commits(r, last, e)
  BY <1>0, <1>6, <1>7, GraphingIs
<1>9. Commits(last, p, e)
  <2>1. Commits(informed, p, e)
    BY <1>1, <1>3, CommitsTwice
  <2> QED
    BY <1>5, <2>1, CommitsTwice
<1> QED
  BY <1>8, <1>9, CommitsTwice

(* An end the page received was replaced or dropped, waits in the buffer,  *)
(* or is in the history of runs.                                           *)
EndsKept ==
  \A e \in got : Ending(e) => \/ e \in lost
                              \/ e \in ToSet(page.buffer)
                              \/ Settled(page.store.runs, Info[e].trace)

StreamInv ==
  /\ script \in Scripts /\ issued \in 0 .. Len(script) /\ at \in [Socket -> 0 .. issued]
  /\ pending \in Event \cup {None} /\ message \in Event \cup {None} /\ got \in SUBSET Event

PageInv == StreamInv /\ GoodPage(page) /\ EndsKept

LEMMA EmptyWhole == Whole(EmptyStore) /\ Sized(EmptyStore)
<1> DEFINE st == EmptyStore
           none == <<>>
<1>1. none \in Seq(Event) /\ none \in Seq(Trace) /\ Len(none) = 0 /\ DOMAIN none = {} /\ ToSet(none) = {} /\ IsInjective(none)
  BY DEF ToSet, IsInjective
<1>2. none \in TraceMaps(SUBSET Event) /\ none \in TraceMaps(Runs)
  <2>1. \A V : none \in [{} -> V]
    OBVIOUS
  <2> HIDE DEF none
  <2>2. {} \in SUBSET Trace
    OBVIOUS
  <2> QED
    BY <1>1, <2>1, <2>2, TraceMapIs
<1> HIDE DEF none
<1>3. st = [events |-> {}, order |-> none, traces |-> none, traceOrder |-> none, index |-> [k \in Indexed |-> none],
            runs |-> none, selectedTrace |-> None, selectedEvent |-> None, mode |-> "LIVE",
            lanes |-> [l \in Lanes |-> {}], denied |-> {}]
  BY DEF EmptyStore, none
<1> HIDE DEF st
<1>4. st \in Stores
  BY <1>1, <1>2, <1>3 DEF Stores
<1>5. Enlisted(st) /\ Traced(st) /\ Pointed(st) /\ Laned(st)
  BY <1>1, <1>3 DEF Enlisted, Traced, TracesOf, Pointed, Laned
<1>6. Sized(st)
  <2>1. st.order = none /\ st.traces = none
    BY <1>3
  <2>2. Cardinality({}) = 0
    BY FS_EmptySet
  <2>3. MaxEvents \in Nat /\ MaxTraces \in Nat
    BY StoreAssumption
  <2> QED
    BY <1>1, <2>1, <2>2, <2>3 DEF Sized
<1> QED
  BY <1>4, <1>5, <1>6 DEF Whole, st

LEMMA PageInitInv == PageInit => PageInv
<1> SUFFICES ASSUME PageInit PROVE PageInv
  OBVIOUS
<1>1. StreamInv
  <2>1. script \in Scripts /\ issued = 0 /\ at = [s \in Socket |-> 0] /\ pending = None /\ message = None /\ got = {}
    BY DEF PageInit
  <2>2. Len(script) \in Nat
    BY <2>1, ScriptAssumption
  <2> QED
    BY <2>1, <2>2 DEF StreamInv
<1>2. GoodPage(page)
  <2>1. page = [queue |-> <<>>, buffer |-> <<>>, store |-> EmptyStore, graphing |-> <<>>, timer |-> TRUE]
    BY DEF PageInit
  <2>2. EmptyStore \in Stores /\ Whole(EmptyStore) /\ Sized(EmptyStore) /\ <<>> \in Seq(Event)
    BY EmptyWhole DEF Whole
  <2> HIDE DEF EmptyStore
  <2> QED
    BY <2>1, <2>2 DEF GoodPage, Pages
<1>3. EndsKept
  BY DEF PageInit, EndsKept
<1> QED
  BY <1>1, <1>2, <1>3 DEF PageInv

LEMMA StreamStep == ASSUME StreamInv, PageNext PROVE StreamInv'
<1>1. /\ script \in Scripts /\ issued \in 0 .. Len(script) /\ at \in [Socket -> 0 .. issued]
      /\ pending \in Event \cup {None} /\ message \in Event \cup {None} /\ got \in SUBSET Event
  BY DEF StreamInv
<1>2. script \in Seq(Event) /\ Len(script) \in Nat
  BY <1>1, ScriptAssumption
<1>3. CASE Publish
  <2>1. /\ issued < Len(script) /\ issued' = issued + 1 /\ script' = script
        /\ at' = [s \in Socket |-> IF sock[s] = "open" THEN at[s] ELSE issued']
        /\ pending' = pending /\ message' = message /\ got' = got
    BY <1>3 DEF Publish, history
  <2>2. issued' \in 0 .. Len(script) /\ \A s \in Socket : at[s] \in 0 .. issued' /\ issued' \in 0 .. issued'
    BY <1>1, <1>2, <2>1
  <2>3. at' \in [Socket -> 0 .. issued']
    BY <2>1, <2>2
  <2> QED
    BY <1>1, <2>1, <2>2, <2>3 DEF StreamInv
<1>4. ASSUME NEW s \in Socket, OnMessage(s) PROVE StreamInv'
  <2>1. /\ at[s] < issued /\ at' = [at EXCEPT ![s] = at[s] + 1] /\ pending' = script[at'[s]]
        /\ script' = script /\ issued' = issued /\ message' = message /\ got' = got
    BY <1>4 DEF OnMessage, history
  <2>2. at[s] + 1 \in 0 .. issued /\ at[s] + 1 \in 1 .. Len(script) /\ at'[s] = at[s] + 1
    BY <1>1, <1>2, <2>1
  <2>3. at' \in [Socket -> 0 .. issued]
    BY <1>1, <2>1, <2>2
  <2>4. pending' \in Event
    BY <1>2, <2>1, <2>2
  <2> QED
    BY <1>1, <2>1, <2>3, <2>4 DEF StreamInv
<1>5. CASE Connection
  <2>1. /\ at' = [s \in Socket |-> IF sock'[s] = "open" /\ sock[s] = "open" THEN at[s] ELSE issued]
        /\ script' = script /\ issued' = issued /\ pending' = pending /\ message' = message /\ got' = got
    BY <1>5 DEF Connection, history
  <2>2. at' \in [Socket -> 0 .. issued]
    BY <1>1, <1>2, <2>1
  <2> QED
    BY <1>1, <2>1, <2>2 DEF StreamInv
<1>6. CASE Render
  <2>1. /\ pending # None /\ pending' = None /\ message' = pending /\ got' = got \cup {pending}
        /\ script' = script /\ issued' = issued /\ at' = at
    BY <1>6 DEF Render, backend
  <2> QED
    BY <1>1, <2>1 DEF StreamInv
<1>7. CASE Age
  BY <1>1, <1>7 DEF Age, history, StreamInv
<1>8. CASE FlushTick \/ PlayTick \/ GraphTick \/ Toggle \/ ToggleFollow
  <2>1. /\ script' = script /\ issued' = issued /\ at' = at /\ pending' = pending /\ message' = message /\ got' = got
    BY <1>8 DEF FlushTick, PlayTick, GraphTick, Toggle, ToggleFollow, backend, history
  <2> QED
    BY <1>1, <2>1 DEF StreamInv
<1>9. CASE (\E t \in Trace : Answer(t)) \/ (\E e \in Event : SelectEvent(e)) \/ (\E s \in Snapshots : AgentsArrive(s))
  <2>1. /\ script' = script /\ issued' = issued /\ at' = at /\ pending' = pending /\ message' = message /\ got' = got
    BY <1>9 DEF Answer, SelectEvent, AgentsArrive, backend, history
  <2> QED
    BY <1>1, <2>1 DEF StreamInv
<1> QED
  BY <1>3, <1>4, <1>5, <1>6, <1>7, <1>8, <1>9 DEF PageNext

(* A task that leaves ended runs ended, and stores what it takes from the  *)
(* buffer.                                                                 *)
LEMMA TaskStep ==
  ASSUME PageInv, NEW p, GoodPage(p), KeepsSettled(p.store, page.store), Task(p), got' = got,
         \/ p.buffer = page.buffer
         \/ \A e \in ToSet(page.buffer) : Ending(e) => Settled(p.store.runs, Info[e].trace)
  PROVE  GoodPage(page') /\ EndsKept'
<1>1. /\ page' = Committed(p, message, page) /\ lost' = lost \cup (ToSet(p.buffer) \ ToSet(page'.buffer))
      /\ message \in Event \cup {None} /\ got \in SUBSET Event
  BY DEF Task, PageInv, StreamInv
<1>2. Commits(page', p, message)
  BY <1>1, CommittedIs
<1>3. GoodPage(page') /\ page'.store.runs = p.store.runs
  BY <1>2 DEF Commits
<1>4. ASSUME NEW e \in got, Ending(e)
      PROVE  e \in lost' \/ e \in ToSet(page'.buffer) \/ Settled(page'.store.runs, Info[e].trace)
  <2>1. Info[e].trace \in Trace
    BY <1>1, InfoIs
  <2>2. e \in lost \/ e \in ToSet(page.buffer) \/ Settled(page.store.runs, Info[e].trace)
    BY <1>4 DEF PageInv, EndsKept
  <2>3. CASE e \in lost
    BY <1>1, <2>3
  <2>4. CASE Settled(page.store.runs, Info[e].trace)
    BY <1>3, <2>1, <2>4 DEF KeepsSettled
  <2>5. CASE e \in ToSet(page.buffer)
    <3>1. CASE p.buffer = page.buffer
      BY <1>1, <2>5, <3>1
    <3>2. CASE Settled(p.store.runs, Info[e].trace)
      BY <1>3, <3>2
    <3> QED
      BY <1>4, <2>5, <3>1, <3>2
  <2> QED
    BY <2>2, <2>3, <2>4, <2>5
<1> QED
  BY <1>3, <1>4 DEF EndsKept

LEMMA RenderStep ==
  ASSUME PageInv, Render
  PROVE  GoodPage(page') /\ EndsKept'
<1> DEFINE q == EventEffect(page, pending)
<1>1. /\ page' = Committed(q, pending, page) /\ lost' = lost \cup (ToSet(page.buffer) \ ToSet(page'.buffer))
      /\ pending \in Event /\ pending # None /\ got \in SUBSET Event /\ got' = got \cup {pending} /\ GoodPage(page)
  BY DEF Render, PageInv, StreamInv
<1>2. Commits(q, page, pending) /\ (Ending(pending) => pending \in ToSet(q.buffer)) /\ GoodPage(q)
  <2>1. Commits(q, page, pending) /\ (Ending(pending) => pending \in ToSet(q.buffer))
    BY <1>1, EventEffectIs
  <2> QED
    BY <2>1 DEF Commits
<1> HIDE DEF q
<1>3. Commits(page', q, pending)
  BY <1>1, <1>2, CommittedIs
<1>4. GoodPage(page') /\ page'.store.runs = page.store.runs
  BY <1>2, <1>3 DEF Commits
<1>5. ASSUME NEW e \in got', Ending(e)
      PROVE  e \in lost' \/ e \in ToSet(page'.buffer) \/ Settled(page'.store.runs, Info[e].trace)
  <2>1. CASE e = pending
    BY <1>2, <1>3, <1>5, <2>1 DEF Commits
  <2>2. CASE e \in got
    <3>1. e \in lost \/ e \in ToSet(page.buffer) \/ Settled(page.store.runs, Info[e].trace)
      BY <1>5, <2>2 DEF PageInv, EndsKept
    <3> QED
      BY <1>1, <1>4, <3>1
  <2> QED
    BY <1>1, <1>5, <2>1, <2>2
<1> QED
  BY <1>4, <1>5 DEF EndsKept

LEMMA FlushStep ==
  ASSUME PageInv, FlushTick
  PROVE  GoodPage(page') /\ EndsKept'
<1> DEFINE stale == ToSet(SubSeq(script, 1, old))
           st == CleanupStale(page.store, stale)
           full == AddBatch(st, page.buffer)
           p == IF st.mode = "PAUSED" THEN [page EXCEPT !.store = st]
                ELSE [page EXCEPT !.store = full, !.buffer = <<>>]
<1>1. Task(p) /\ got' = got /\ GoodPage(page)
  BY DEF FlushTick, PageInv, history
<1> HIDE DEF stale
<1>2. Whole(st) /\ Sized(st) /\ st.runs = page.store.runs
  BY <1>1, PageIs, CleanedUp
<1> HIDE DEF st
<1>3. CASE st.mode = "PAUSED"
  <2>1. p = [page EXCEPT !.store = st]
    BY <1>3
  <2> HIDE DEF p
  <2>2. GoodPage(p) /\ p.store = st /\ p.buffer = page.buffer
    BY <1>1, <1>2, <2>1, PageStored
  <2>3. KeepsSettled(p.store, page.store)
    BY <1>2, <2>2 DEF KeepsSettled
  <2> QED
    BY <1>1, <2>2, <2>3, TaskStep
<1>4. CASE st.mode # "PAUSED"
  <2>1. p = [page EXCEPT !.store = full, !.buffer = <<>>]
    BY <1>4
  <2> HIDE DEF p
  <2>2. page.buffer \in Seq(Event)
    BY <1>1, PageIs
  <2>3. /\ Whole(full) /\ Sized(full) /\ KeepsSettled(full, st)
        /\ \A e \in ToSet(page.buffer) : Ending(e) => Settled(full.runs, Info[e].trace)
    BY <1>2, <1>4, <2>2, StoringWhole
  <2> HIDE DEF full
  <2>4. p = [queue |-> page.queue, buffer |-> <<>>, store |-> full, graphing |-> page.graphing, timer |-> page.timer]
    BY <1>1, <2>1 DEF GoodPage, Pages
  <2>5. GoodPage(p) /\ p.store = full
    <3>1. full \in Stores /\ <<>> \in Seq(Event)
      BY <2>3 DEF Whole
    <3>2. p \in Pages
      BY <1>1, <2>4, <3>1, PageIs DEF Pages
    <3> QED
      BY <2>3, <2>4, <3>2 DEF GoodPage
  <2>6. KeepsSettled(p.store, page.store)
    BY <1>2, <2>3, <2>5 DEF KeepsSettled
  <2>7. \A e \in ToSet(page.buffer) : Ending(e) => Settled(p.store.runs, Info[e].trace)
    BY <2>3, <2>5
  <2> QED
    BY <1>1, <2>5, <2>6, <2>7, TaskStep
<1> QED
  BY <1>3, <1>4

(* A click, or the answer to Run.                                          *)
LEMMA ClickStep ==
  ASSUME PageInv, Toggle \/ ToggleFollow \/ (\E e \in Event : SelectEvent(e)) \/ (\E t \in Trace : Answer(t))
  PROVE  GoodPage(page') /\ EndsKept'
<1>0. GoodPage(page) /\ Whole(page.store) /\ Sized(page.store)
  BY PageIs DEF PageInv
<1>1. CASE Toggle
  <2> DEFINE st == Toggled(page.store)
             p == [page EXCEPT !.store = st]
  <2>1. Task(p) /\ got' = got
    BY <1>1 DEF Toggle, history
  <2>2. Whole(st) /\ Sized(st) /\ st.runs = page.store.runs
    BY <1>0, ToggledWhole
  <2> HIDE DEF st
  <2>3. GoodPage(p) /\ p.store = st /\ p.buffer = page.buffer
    BY <1>0, <2>2, PageStored
  <2> HIDE DEF p
  <2>4. KeepsSettled(p.store, page.store)
    BY <2>2, <2>3 DEF KeepsSettled
  <2> QED
    BY <2>1, <2>3, <2>4, TaskStep
<1>2. CASE ToggleFollow
  <2>1. Task(page) /\ got' = got /\ KeepsSettled(page.store, page.store)
    BY <1>2 DEF ToggleFollow, history, KeepsSettled
  <2> QED
    BY <1>0, <2>1, TaskStep
<1>3. ASSUME NEW e \in Event, SelectEvent(e) PROVE GoodPage(page') /\ EndsKept'
  <2> DEFINE st == [page.store EXCEPT !.selectedEvent = e]
             s == [page EXCEPT !.store = st]
             p == Selected(s, Info[e].trace)
  <2>1. Task(p) /\ got' = got /\ e \in page.store.events
    BY <1>3 DEF SelectEvent, history
  <2>2. Whole(st) /\ Sized(st) /\ st.runs = page.store.runs
    BY <1>0, <2>1, PointedWhole
  <2> HIDE DEF st
  <2>3. GoodPage(s) /\ s.store = st /\ s.buffer = page.buffer
    BY <1>0, <2>2, PageStored
  <2> HIDE DEF s
  <2>4. GoodPage(p) /\ p.store.runs = s.store.runs /\ p.buffer = s.buffer
    BY <2>3, InfoIs, SelectedIs
  <2> HIDE DEF p
  <2>5. KeepsSettled(p.store, page.store) /\ p.buffer = page.buffer
    BY <2>2, <2>3, <2>4 DEF KeepsSettled
  <2> QED
    BY <2>1, <2>4, <2>5, TaskStep
<1>4. ASSUME NEW t \in Trace, Answer(t) PROVE GoodPage(page') /\ EndsKept'
  <2>1. PICK status \in {"completed", "failed"}, n \in {None, 0, 1} :
          Task(Selected([page EXCEPT !.store = RunFromApi(page.store, t, status, n)], t))
    BY <1>4 DEF Answer
  <2> DEFINE st == RunFromApi(page.store, t, status, n)
             s == [page EXCEPT !.store = st]
             p == Selected(s, t)
  <2>2. Task(p) /\ got' = got
    BY <1>4, <2>1 DEF Answer
  <2>3. Whole(st) /\ Sized(st) /\ KeepsSettled(st, page.store)
    <3>1. n \in Nat \cup {None}
      OBVIOUS
    <3> QED
      BY <1>0, <3>1, ApiRunIs
  <2> HIDE DEF st
  <2>4. GoodPage(s) /\ s.store = st /\ s.buffer = page.buffer
    BY <1>0, <2>3, PageStored
  <2> HIDE DEF s
  <2>5. GoodPage(p) /\ p.store.runs = s.store.runs /\ p.buffer = s.buffer
    BY <2>4, SelectedIs
  <2> HIDE DEF p
  <2>6. KeepsSettled(p.store, page.store) /\ p.buffer = page.buffer
    BY <2>3, <2>4, <2>5 DEF KeepsSettled
  <2> QED
    BY <2>2, <2>5, <2>6, TaskStep
<1> QED
  BY <1>1, <1>2, <1>3, <1>4

(* What changes neither the buffer nor the store.                          *)
LEMMA QuietStep ==
  ASSUME PageInv, GoodPage(page'), page'.buffer = page.buffer, page'.store = page.store, got' = got,
         lost \subseteq lost'
  PROVE  EndsKept'
BY DEF PageInv, EndsKept

LEMMA PageNextInv == PageInv /\ [PageNext]_vars => PageInv'
<1> SUFFICES ASSUME PageInv, [PageNext]_vars PROVE PageInv'
  OBVIOUS
<1>0. GoodPage(page) /\ StreamInv
  BY DEF PageInv
<1>1. CASE PageNext
  <2>1. SUFFICES GoodPage(page') /\ EndsKept'
    BY <1>0, <1>1, StreamStep DEF PageInv
  <2>2. ASSUME page' = page, got' = got, lost \subseteq lost' PROVE GoodPage(page') /\ EndsKept'
    BY <1>0, <2>2, QuietStep
  <2>3. CASE Publish \/ Connection \/ Age \/ \E s \in Socket : OnMessage(s)
    <3>1. page' = page /\ got' = got /\ lost \subseteq lost'
      BY <2>3 DEF Publish, Connection, Age, OnMessage, history
    <3> QED
      BY <2>2, <3>1
  <2>4. CASE PlayTick
    <3>1. page.queue # <<>> /\ page' = [page EXCEPT !.queue = Tail(page.queue)] /\ got' = got /\ lost' = lost
      BY <2>4 DEF PlayTick, history
    <3>2. page' = [queue |-> Tail(page.queue), buffer |-> page.buffer, store |-> page.store, graphing |-> page.graphing,
                   timer |-> page.timer]
      BY <1>0, <3>1 DEF GoodPage, Pages
    <3>3. Tail(page.queue) \in Seq(Event)
      BY <1>0, <3>1, PageIs
    <3>4. page' \in Pages
      BY <1>0, <3>2, <3>3, PageIs DEF Pages
    <3>5. GoodPage(page') /\ page'.buffer = page.buffer /\ page'.store = page.store
      BY <1>0, <3>2, <3>4, PageIs DEF GoodPage
    <3> QED
      BY <3>1, <3>5, QuietStep
  <2>5. CASE GraphTick
    <3>1. page' = [page EXCEPT !.graphing = <<>>, !.timer = FALSE] /\ got' = got /\ lost' = lost
      BY <2>5 DEF GraphTick, history
    <3>2. page' = [queue |-> page.queue, buffer |-> page.buffer, store |-> page.store, graphing |-> <<>>, timer |-> FALSE]
      BY <1>0, <3>1 DEF GoodPage, Pages
    <3>3. page' \in Pages
      <4>1. <<>> \in Seq(Event)
        OBVIOUS
      <4> QED
        BY <1>0, <3>2, <4>1, PageIs DEF Pages
    <3>4. GoodPage(page') /\ page'.buffer = page.buffer /\ page'.store = page.store
      BY <1>0, <3>2, <3>3, PageIs DEF GoodPage
    <3> QED
      BY <3>1, <3>4, QuietStep
  <2>6. ASSUME NEW s \in Snapshots, AgentsArrive(s) PROVE GoodPage(page') /\ EndsKept'
    <3>1. page' = [page EXCEPT !.timer = TRUE] /\ got' = got /\ lost' = lost
      BY <2>6 DEF AgentsArrive, history
    <3>2. page' = [queue |-> page.queue, buffer |-> page.buffer, store |-> page.store, graphing |-> page.graphing, timer |-> TRUE]
      BY <1>0, <3>1 DEF GoodPage, Pages
    <3>3. page' \in Pages
      BY <1>0, <3>2, PageIs DEF Pages
    <3>4. GoodPage(page') /\ page'.buffer = page.buffer /\ page'.store = page.store
      BY <1>0, <3>2, <3>3, PageIs DEF GoodPage
    <3> QED
      BY <3>1, <3>4, QuietStep
  <2> QED
    BY <1>1, <2>3, <2>4, <2>5, <2>6, RenderStep, FlushStep, ClickStep DEF PageNext
<1>2. CASE UNCHANGED vars
  <2>1. UNCHANGED <<script, issued, at, pending, message, got, page, lost>>
    BY <1>2 DEF vars, backend, history
  <2>2. StreamInv'
    BY <1>0, <2>1 DEF StreamInv
  <2>3. EndsKept'
    BY <1>0, <2>1, QuietStep
  <2> QED
    BY <1>0, <2>1, <2>2, <2>3 DEF PageInv
<1> QED
  BY <1>1, <1>2

LEMMA PageInvariant == PageSpec => []PageInv
<1>1. PageInit => PageInv
  BY PageInitInv
<1>2. PageInv /\ [PageNext]_vars => PageInv'
  BY PageNextInv
<1> QED
  BY <1>1, <1>2, PTL DEF PageSpec

(* The indices of the store tell one story, for any events, batches and    *)
(* limits (addBatchEvents, evictOldestEvents, evictOldestTraces and        *)
(* cleanupStaleEventsInternal): what is proved of every function of the    *)
(* store is that it keeps Whole and Sized.                                 *)
THEOREM StoreAlwaysConsistent == PageSpec => []StoreConsistent
<1> DEFINE st == page.store
<1>1. ASSUME PageInv PROVE StoreConsistent
  <2>1. Whole(st) /\ Sized(st)
    BY <1>1, PageIs DEF PageInv
  <2> HIDE DEF st
  <2>2. st \in Stores /\ Enlisted(st) /\ Traced(st) /\ Pointed(st) /\ Laned(st)
    BY <2>1 DEF Whole
  <2>3. /\ \A t \in DOMAIN st.traces : st.traces[t] \subseteq st.events /\ st.traces[t] # {}
        /\ \A e \in st.events : \E t \in DOMAIN st.traces : e \in st.traces[t]
        /\ DOMAIN st.traces \subseteq ToSet(st.traceOrder)
    BY <2>2 DEF Traced, TracesOf
  <2>4. st.events = UNION Range(st.traces) /\ {} \notin Range(st.traces)
    <3>1. Range(st.traces) = {st.traces[t] : t \in DOMAIN st.traces}
      BY DEF Range
    <3> QED
      BY <2>3, <3>1
  <2>5. ASSUME NEW e \in st.events, Placed(e)
        PROVE  Cardinality({l \in Lanes : e \in st.lanes[l]}) + (IF e \in st.denied THEN 1 ELSE 0) = 1
    <3> DEFINE lanes == {l \in Lanes : e \in st.lanes[l]}
    <3>1. e \in Event /\ LaneOf(e) \in Lanes /\ Denied(e) \in BOOLEAN
      BY <2>2, StoreIs, InfoIs
    <3>2. CASE Denied(e)
      <4>1. lanes = {} /\ e \in st.denied
        BY <2>2, <2>5, <3>2 DEF Laned
      <4>2. Cardinality(lanes) = 0
        BY <4>1, FS_EmptySet
      <4> QED
        BY <4>1, <4>2
    <3>3. CASE ~Denied(e)
      <4>1. lanes = {LaneOf(e)} /\ e \notin st.denied
        BY <2>2, <2>5, <3>1, <3>3 DEF Laned
      <4>2. Cardinality(lanes) = 1
        BY <4>1, FS_Singleton
      <4> QED
        BY <4>1, <4>2
    <3> QED
      BY <3>2, <3>3
  <2> QED
    BY <2>1, <2>2, <2>3, <2>4, <2>5 DEF StoreConsistent, st, Enlisted, Pointed, Sized
<1> QED
  BY <1>1, PageInvariant, PTL

(* When nothing waits, a run whose end the page received is over in the    *)
(* history of runs, whatever the limits and the batches, unless its end    *)
(* was replaced or dropped: eviction and staleness leave the history alone *)
(* (upsertRunHistoryFromEvent) and a run that is over stays over.          *)
THEOREM RunsAlwaysSettle == PageSpec => []RunsSettle
<1>1. ASSUME PageInv PROVE RunsSettle
  <2> SUFFICES ASSUME Quiet, NEW e \in Ends PROVE Settled(page.store.runs, Info[e].trace)
    BY DEF RunsSettle, Settled
  <2>1. e \in got /\ e \notin lost /\ Ending(e)
    BY DEF Ends, Ending
  <2>2. ToSet(page.buffer) = {}
    BY DEF Quiet, ToSet
  <2> QED
    BY <1>1, <2>1, <2>2 DEF PageInv, EndsKept
<1> QED
  BY <1>1, PageInvariant, PTL

-----------------------------------------------------------------------------
(* The animation and the history of runs.  Both are told the messages in   *)
(* the order of the script, each through a list of its own; what is told   *)
(* stays told because nothing that comes after an end undoes it.           *)

Place(s, e) == CHOOSE i \in DOMAIN s : s[i] = e
SoFar(s, n) == {s[i] : i \in 1 .. n}
Kind(e) == Info[e].kind

(* The messages that say how a run stands.                                 *)
Telling == {e \in Event : Kind(e) \in {"STEP_STARTED", "SWARM_COMPLETED", "SWARM_FAILED"}}

(* Those of G that have left the list L.                                   *)
Through(L, G) == (G \cap Telling) \ ToSet(L)

(* L has messages of G in the order of the script, after those that have   *)
(* left it.                                                                *)
Lined(s, L) == \A i, j \in DOMAIN L : i <= j => Place(s, L[i]) <= Place(s, L[j])
InLine(s, L, G) ==
  /\ ToSet(L) \subseteq G /\ Lined(s, L)
  /\ \A d \in Through(L, G), x \in ToSet(L) : Place(s, d) < Place(s, x)

(* The picture m shows what e said of its run.                             *)
Shows(m, e) ==
  /\ Kind(e) = "STEP_STARTED" => m.at # NoNode
  /\ Kind(e) = "SWARM_COMPLETED" => \A x \in DOMAIN m.nodes : m.nodes[x] = "completed"
  /\ Kind(e) = "SWARM_FAILED" => DOMAIN m.nodes = {} \/ \E x \in DOMAIN m.nodes : m.nodes[x] = "failed"

(* The history of runs has what e said of its run.                         *)
Recorded(runs, e) ==
  /\ Kind(e) = "SWARM_COMPLETED" => Info[e].trace \in DOMAIN runs /\ runs[Info[e].trace].status = "completed"
  /\ Kind(e) = "SWARM_FAILED" => Info[e].trace \in DOMAIN runs /\ runs[Info[e].trace].status = "failed"

(* Only a message or an answer makes a run a failed one.                   *)
FailsTold(runs, G, answers) ==
  \A t \in DOMAIN runs : t \notin answers /\ runs[t].status = "failed" =>
    \E f \in G : Info[f].trace = t /\ Kind(f) \in {"SWARM_FAILED", "RESULT_FAILED"}

IsMotion(m) ==
  m = [nodes |-> m.nodes, retrying |-> m.retrying, edges |-> m.edges, paths |-> m.paths, at |-> m.at]

LEMMA PlaceIs ==
  ASSUME NEW s \in Scripts, NEW i \in 1 .. Len(s)
  PROVE  /\ s \in Seq(Event) /\ s[i] \in Event /\ Place(s, s[i]) = i
         /\ \A e \in ToSet(s) : Place(s, e) \in 1 .. Len(s) /\ s[Place(s, e)] = e
<1>1. s \in Seq(Event) /\ DOMAIN s = 1 .. Len(s) /\ \A a1, a2 \in DOMAIN s : s[a1] = s[a2] => a1 = a2
  BY ScriptAssumption DEF IsInjective
<1>2. ASSUME NEW e \in ToSet(s) PROVE Place(s, e) \in 1 .. Len(s) /\ s[Place(s, e)] = e
  <2>1. \E j \in DOMAIN s : s[j] = e
    BY <1>2 DEF ToSet
  <2> QED
    BY <1>1, <2>1 DEF Place
<1>3. s[i] \in ToSet(s)
  BY <1>1 DEF ToSet
<1>4. Place(s, s[i]) = i
  BY <1>1, <1>2, <1>3
<1> QED
  BY <1>1, <1>2, <1>4

(* What came first has the first places, one message more with the next.   *)
LEMMA SoFarIs ==
  ASSUME NEW s \in Scripts, NEW n \in 0 .. Len(s)
  PROVE  /\ s \in Seq(Event) /\ Len(s) \in Nat /\ SoFar(s, n) \subseteq ToSet(s) /\ SoFar(s, n) \subseteq Event
         /\ \A e \in ToSet(s) : e \in SoFar(s, n) <=> Place(s, e) <= n
         /\ SoFar(s, n) = ToSet(SubSeq(s, 1, n))
         /\ Cardinality(SoFar(s, n)) = n /\ IsFiniteSet(SoFar(s, n))
<1>1. s \in Seq(Event) /\ Len(s) \in Nat /\ DOMAIN s = 1 .. Len(s) /\ IsInjective(s)
  BY ScriptAssumption
<1>2. \A i \in 1 .. n : i \in 1 .. Len(s) /\ s[i] \in ToSet(s) /\ s[i] \in Event
  BY <1>1 DEF ToSet
<1>3. ASSUME NEW e \in ToSet(s) PROVE e \in SoFar(s, n) <=> Place(s, e) <= n
  <2>1. PICK j \in 1 .. Len(s) : s[j] = e
    BY <1>1 DEF ToSet
  <2>2. Place(s, e) = j /\ \A i \in 1 .. Len(s) : s[i] = e => i = j
    BY <2>1, PlaceIs
  <2> QED
    BY <1>1, <1>2, <2>1, <2>2 DEF SoFar
<1> DEFINE r == SubSeq(s, 1, n)
<1>4. r \in Seq(Event) /\ Len(r) = n /\ DOMAIN r = 1 .. n /\ \A i \in 1 .. n : r[i] = s[i]
  BY <1>1
<1> HIDE DEF r
<1>5. SoFar(s, n) = ToSet(r)
  BY <1>4 DEF SoFar, ToSet
<1>6. IsInjective(r)
  <2>1. \A i, j \in 1 .. Len(s) : s[i] = s[j] => i = j
    BY <1>1 DEF IsInjective
  <2> QED
    BY <1>2, <1>4, <2>1 DEF IsInjective
<1>7. Cardinality(ToSet(r)) = n /\ IsFiniteSet(ToSet(r))
  BY <1>4, <1>6, ListSize
<1>8. SoFar(s, n) \subseteq ToSet(s) /\ SoFar(s, n) \subseteq Event
  BY <1>2 DEF SoFar
<1> QED
  BY <1>1, <1>3, <1>5, <1>7, <1>8 DEF r

(* The message rendered next, if the messages come one by one.             *)
LEMMA NextMessage ==
  ASSUME NEW s \in Scripts, NEW n \in 0 .. Len(s), NEW e \in ToSet(s) \ SoFar(s, n),
         NEW G, G = SoFar(s, n) \cup {e}, G = ToSet(SubSeq(s, 1, Cardinality(G)))
  PROVE  n + 1 \in 0 .. Len(s) /\ e = s[n + 1] /\ G = SoFar(s, n + 1)
<1>1. s \in Seq(Event) /\ Len(s) \in Nat /\ Place(s, e) \in 1 .. Len(s) /\ s[Place(s, e)] = e /\ Place(s, e) > n
  <2>1. Len(s) \in Nat /\ (e \in SoFar(s, n) <=> Place(s, e) <= n) /\ s \in Seq(Event)
    BY SoFarIs
  <2>2. PICK j \in 1 .. Len(s) : s[j] = e
    BY <2>1 DEF ToSet
  <2>3. Place(s, e) \in 1 .. Len(s) /\ s[Place(s, e)] = e
    BY <2>2, PlaceIs
  <2> QED
    BY <2>1, <2>3
<1>2. n + 1 \in 0 .. Len(s) /\ n + 1 \in 1 .. Len(s)
  BY <1>1
<1>3. Cardinality(G) = n + 1
  <2>1. Cardinality(SoFar(s, n)) = n /\ IsFiniteSet(SoFar(s, n))
    BY SoFarIs
  <2>2. Cardinality(SoFar(s, n) \cup {e}) = Cardinality(SoFar(s, n)) + 1
    BY <2>1, FS_AddElement
  <2> QED
    BY <2>1, <2>2
<1>4. G = SoFar(s, n + 1)
  BY <1>2, <1>3, SoFarIs
<1>5. Place(s, e) <= n + 1
  BY <1>2, <1>4, SoFarIs
<1>6. Place(s, e) = n + 1
  BY <1>1, <1>5
<1> QED
  BY <1>1, <1>2, <1>4, <1>6

-----------------------------------------------------------------------------
(* A message put at the end of a list, some of whose first may go.         *)

Pushed(s, M, L, e) ==
  /\ M \in Seq(Event) /\ ToSet(M) \subseteq ToSet(L) \cup {e}
  /\ M = L \/ e \in ToSet(M)
  /\ Lined(s, L) /\ (\A x \in ToSet(L) : Place(s, x) <= Place(s, e)) => Lined(s, M)

LEMMA PushedTwice ==
  ASSUME NEW s, NEW e, NEW L, NEW M, NEW N, Pushed(s, M, L, e), Pushed(s, N, M, e), Place(s, e) \in Nat
  PROVE  Pushed(s, N, L, e)
BY DEF Pushed

LEMMA PushedLatest ==
  ASSUME NEW s, NEW L \in Seq(Event), NEW e \in Event, Place(s, e) \in Nat,
         NEW n \in Nat \ {0}, NEW M, M = Latest(Append(L, e), n)
  PROVE  Pushed(s, M, L, e) /\ e \in ToSet(M)
<1> DEFINE A == Append(L, e)
<1>1. A \in Seq(Event) /\ Len(A) = Len(L) + 1 /\ ToSet(A) = ToSet(L) \cup {e}
  BY Appended
<1>2. /\ Len(L) \in Nat /\ \A i \in 1 .. Len(L) : A[i] = L[i] /\ L[i] \in ToSet(L)
      /\ A[Len(A)] = e /\ DOMAIN L = 1 .. Len(L)
  BY DEF ToSet
<1>9. M = Latest(A, n) /\ Len(A) > 0
  BY <1>1, <1>2
<1> HIDE DEF A
<1>3. M \in Seq(Event) /\ ToSet(M) \subseteq ToSet(A) /\ e \in ToSet(M)
  BY <1>1, <1>2, <1>9, LatestFacts
<1>4. ASSUME Lined(s, L), \A x \in ToSet(L) : Place(s, x) <= Place(s, e) PROVE Lined(s, M)
  <2>1. \A i, j \in 1 .. Len(A) : i <= j => Place(s, A[i]) <= Place(s, A[j])
    <3> SUFFICES ASSUME NEW i \in 1 .. Len(A), NEW j \in 1 .. Len(A), i <= j
                 PROVE  Place(s, A[i]) <= Place(s, A[j])
      OBVIOUS
    <3>1. CASE j \in 1 .. Len(L)
      <4>1. i \in 1 .. Len(L)
        BY <1>2, <3>1
      <4> QED
        BY <1>2, <1>4, <3>1, <4>1 DEF Lined
    <3>2. CASE j = Len(A)
      <4>1. i \in 1 .. Len(L) \/ i = Len(A)
        BY <1>1, <1>2
      <4> QED
        BY <1>2, <1>4, <3>2, <4>1
    <3> QED
      BY <1>1, <1>2, <3>1, <3>2
  <2> DEFINE m == IF Len(A) > n THEN Len(A) - n + 1 ELSE 1
             k == Len(A) - m + 1
  <2>2. m \in Nat /\ m \in 1 .. Len(A) /\ k \in Nat
    BY <1>1, <1>2
  <2>3. M = SubSeq(A, m, Len(A))
    BY <1>9 DEF Latest
  <2> HIDE DEF m
  <2>4. DOMAIN M = 1 .. k /\ \A i \in 1 .. k : M[i] = A[m + i - 1] /\ m + i - 1 \in 1 .. Len(A)
    BY <1>1, <1>2, <2>2, <2>3
  <2> SUFFICES ASSUME NEW i \in 1 .. k, NEW j \in 1 .. k, i <= j PROVE Place(s, M[i]) <= Place(s, M[j])
    BY <2>4 DEF Lined
  <2>5. m + i - 1 <= m + j - 1
    BY <2>2
  <2> QED
    BY <2>1, <2>4, <2>5
<1> QED
  BY <1>1, <1>3, <1>4 DEF Pushed

LEMMA PushedAppend ==
  ASSUME NEW s, NEW L \in Seq(Event), NEW e \in Event, Place(s, e) \in Nat
  PROVE  Pushed(s, Append(L, e), L, e) /\ e \in ToSet(Append(L, e)) /\ ToSet(L) \subseteq ToSet(Append(L, e))
<1> DEFINE A == Append(L, e)
<1>1. A \in Seq(Event) /\ Len(A) \in Nat \ {0} /\ Len(A) = Len(L) + 1 /\ ToSet(A) = ToSet(L) \cup {e}
  BY Appended
<1>2. Latest(A, Len(A)) = A
  BY <1>1 DEF Latest
<1> QED
  BY <1>1, <1>2, PushedLatest

(* Such a list stays in line when the message is the last that came.       *)
LEMMA StaysInLine ==
  ASSUME NEW s \in Scripts, NEW n \in 1 .. Len(s), NEW m \in 0 .. n, NEW L \in Seq(Event), NEW M,
         InLine(s, L, SoFar(s, m)), SoFar(s, n) = SoFar(s, m) \cup {s[n]},
         Pushed(s, M, L, s[n]), ToSet(L) \subseteq ToSet(M),
         s[n] \in Telling \ SoFar(s, m) => s[n] \in ToSet(M)
  PROVE  InLine(s, M, SoFar(s, n)) /\ Through(M, SoFar(s, n)) \subseteq Through(L, SoFar(s, m))
<1> DEFINE e == s[n]
           G == SoFar(s, m)
           H == SoFar(s, n)
<1>1. /\ Len(s) \in Nat /\ n \in 0 .. Len(s) /\ m \in 0 .. Len(s) /\ s \in Seq(Event)
  BY ScriptAssumption
<1>2. /\ H \subseteq ToSet(s) /\ \A x \in ToSet(s) : Place(s, x) \in Nat /\ s[Place(s, x)] = x
      /\ Place(s, e) = n /\ \A x \in H : Place(s, x) <= n
  BY <1>1, SoFarIs, PlaceIs
<1>3. \A x \in H : x # e => Place(s, x) < n
  BY <1>1, <1>2
<1>4. /\ ToSet(L) \subseteq G /\ Lined(s, L) /\ H = G \cup {e}
      /\ \A d \in Through(L, G), x \in ToSet(L) : Place(s, d) < Place(s, x)
  BY DEF InLine
<1>5. ToSet(M) \subseteq ToSet(L) \cup {e} /\ (M = L \/ e \in ToSet(M)) /\ (e \in Telling \ G => e \in ToSet(M))
  BY DEF Pushed
<1>6. Lined(s, M)
  BY <1>2, <1>4 DEF Pushed
<1> HIDE DEF e, G, H
<1>7. Through(M, H) \subseteq Through(L, G)
  <2> SUFFICES ASSUME NEW d \in Through(M, H) PROVE d \in Through(L, G)
    OBVIOUS
  <2>1. d \in H /\ d \in Telling /\ d \notin ToSet(M) /\ d \notin ToSet(L)
    BY DEF Through, e
  <2>2. d \in G
    BY <1>4, <1>5, <2>1
  <2> QED
    BY <2>1, <2>2 DEF Through
<1>8. \A d \in Through(M, H), x \in ToSet(M) : Place(s, d) < Place(s, x)
  <2> SUFFICES ASSUME NEW d \in Through(M, H), NEW x \in ToSet(M) PROVE Place(s, d) < Place(s, x)
    OBVIOUS
  <2>1. CASE x \in ToSet(L)
    BY <1>4, <1>7, <2>1
  <2>2. CASE x = e
    <3>1. d # e /\ d \in H
      BY <2>2 DEF Through
    <3> QED
      BY <1>2, <1>3, <2>2, <3>1
  <2> QED
    BY <1>5, <2>1, <2>2
<1> QED
  BY <1>4, <1>5, <1>6, <1>7, <1>8 DEF InLine, G, H, e

-----------------------------------------------------------------------------
(* What a commit does to the two lists.                                    *)

Effected(s, r, p, e) ==
  /\ GoodPage(r) /\ r.store.runs = p.store.runs
  /\ IF e = None THEN r.queue = p.queue /\ r.buffer = p.buffer
     ELSE /\ Pushed(s, r.queue, p.queue, e) /\ ToSet(p.queue) \subseteq ToSet(r.queue)
          /\ Pushed(s, r.buffer, p.buffer, e)

LEMMA EffectedTwice ==
  ASSUME NEW s, NEW e, e # None => Place(s, e) \in Nat, NEW p, NEW q, NEW r, Effected(s, q, p, e), Effected(s, r, q, e)
  PROVE  Effected(s, r, p, e)
<1>1. CASE e = None
  BY <1>1 DEF Effected
<1>2. CASE e # None
  <2>1. Pushed(s, r.queue, p.queue, e) /\ Pushed(s, r.buffer, p.buffer, e)
    BY <1>2, PushedTwice DEF Effected
  <2> QED
    BY <1>2, <2>1 DEF Effected
<1> QED
  BY <1>1, <1>2

LEMMA Unaffected ==
  ASSUME NEW s, NEW e, NEW p, GoodPage(p), NEW r, GoodPage(r),
         r.store.runs = p.store.runs, r.queue = p.queue, r.buffer = p.buffer
  PROVE  Effected(s, r, p, e)
<1>1. p.queue \in Seq(Event) /\ p.buffer \in Seq(Event)
  BY PageIs
<1> QED
  BY <1>1 DEF Effected, Pushed

LEMMA SelectedLists ==
  ASSUME NEW p, GoodPage(p), NEW t \in Trace, NEW r, r = Selected(p, t)
  PROVE  GoodPage(r) /\ r.store.runs = p.store.runs /\ r.queue = p.queue /\ r.buffer = p.buffer
<1> DEFINE st == [p.store EXCEPT !.selectedTrace = t]
<1>1. r = [p EXCEPT !.store = st]
  BY DEF Selected
<1> HIDE DEF st
<1>2. r.queue = p.queue
  BY <1>1, PageIs
<1> QED
  BY <1>2, SelectedIs

(* The effect on a message: what tells how its run stands is in both lists.*)
LEMMA EffectLists ==
  ASSUME NEW s \in Scripts, NEW p, GoodPage(p), NEW e, e = None \/ (e \in ToSet(s)),
         NEW r, r = EventEffect(p, e)
  PROVE  /\ Effected(s, r, p, e)
         /\ e # None /\ e \in Telling => e \in ToSet(r.queue) /\ e \in ToSet(r.buffer)
<1>1. CASE e = None
  BY <1>1 DEF EventEffect, Effected
<1>2. CASE e # None
  <2> DEFINE kind == Info[e].kind
             queue == IF kind \in Visual THEN Append(p.queue, e) ELSE p.queue
             queued == IF kind \in Visual THEN [p EXCEPT !.queue = Append(p.queue, e)] ELSE p
             chosen == IF kind = "SWARM_STARTED" /\ p.store.selectedTrace = None
                       THEN Selected(queued, Info[e].trace) ELSE queued
             buffer == Latest(Append(chosen.buffer, e), MaxBuffer)
  <2>0. e \in Event /\ Info[e].trace \in Trace /\ MaxBuffer \in Nat \ {0} /\ Place(s, e) \in Nat
    <3>1. e \in ToSet(s) /\ s \in Seq(Event)
      BY <1>2, ScriptAssumption
    <3>2. PICK j \in 1 .. Len(s) : s[j] = e
      BY <3>1 DEF ToSet
    <3>3. e \in Event /\ Place(s, e) \in 1 .. Len(s)
      BY <3>1, <3>2, PlaceIs
    <3> QED
      BY <3>1, <3>3, InfoIs, BrowserAssumption
  <2>1. /\ queue \in Seq(Event) /\ Pushed(s, queue, p.queue, e) /\ ToSet(p.queue) \subseteq ToSet(queue)
        /\ e \in Telling => e \in ToSet(queue)
    <3>1. p.queue \in Seq(Event)
      BY PageIs
    <3>2. CASE kind \in Visual
      <4>1. /\ Pushed(s, Append(p.queue, e), p.queue, e) /\ e \in ToSet(Append(p.queue, e))
            /\ ToSet(p.queue) \subseteq ToSet(Append(p.queue, e))
        BY <2>0, <3>1, PushedAppend
      <4>2. Append(p.queue, e) \in Seq(Event)
        BY <2>0, <3>1
      <4> QED
        BY <3>2, <4>1, <4>2
    <3>3. CASE kind \notin Visual
      <4>1. e \notin Telling
        BY <3>3 DEF Telling, Kind, Visual, StepKinds
      <4> QED
        BY <3>1, <3>3, <4>1 DEF Pushed
    <3> QED
      BY <3>2, <3>3
  <2>2. GoodPage(queued) /\ queued.store = p.store /\ queued.buffer = p.buffer /\ queued.queue = queue
    <3>1. queued = [queue |-> queue, buffer |-> p.buffer, store |-> p.store, graphing |-> p.graphing,
                    timer |-> p.timer]
      <4>1. p = [queue |-> p.queue, buffer |-> p.buffer, store |-> p.store, graphing |-> p.graphing,
                 timer |-> p.timer]
        BY PageIs
      <4>2. CASE kind \in Visual
        <5>1. queued = [p EXCEPT !.queue = Append(p.queue, e)] /\ queue = Append(p.queue, e)
          BY <4>2
        <5> HIDE DEF queued, queue, kind
        <5> QED
          BY <4>1, <5>1
      <4>3. CASE kind \notin Visual
        BY <4>1, <4>3
      <4> QED
        BY <4>2, <4>3
    <3> HIDE DEF queued, queue
    <3>2. queued \in Pages
      BY <2>1, <3>1, PageIs DEF Pages
    <3> QED
      BY <3>1, <3>2, PageIs DEF GoodPage
  <2>3. r = IF kind = "ANOMALY" THEN queued ELSE [chosen EXCEPT !.buffer = buffer]
    BY <1>2 DEF EventEffect
  <2> HIDE DEF queue, queued
  <2>4. GoodPage(chosen) /\ chosen.store.runs = p.store.runs /\ chosen.buffer = p.buffer /\ chosen.queue = queue
    <3>1. /\ GoodPage(Selected(queued, Info[e].trace))
          /\ Selected(queued, Info[e].trace).store.runs = queued.store.runs
          /\ Selected(queued, Info[e].trace).buffer = queued.buffer
          /\ Selected(queued, Info[e].trace).queue = queued.queue
      BY <2>0, <2>2, SelectedLists
    <3> QED
      BY <2>2, <3>1
  <2> HIDE DEF chosen
  <2>5. buffer \in Seq(Event) /\ Pushed(s, buffer, p.buffer, e) /\ e \in ToSet(buffer)
    <3>1. Pushed(s, buffer, chosen.buffer, e) /\ e \in ToSet(buffer)
      BY <2>0, <2>4, PageIs, PushedLatest
    <3> QED
      BY <2>4, <3>1 DEF Pushed
  <2> HIDE DEF buffer
  <2>6. CASE kind = "ANOMALY"
    <3>1. r = queued /\ e \notin Telling
      BY <2>3, <2>6 DEF Telling, Kind
    <3>2. Pushed(s, p.buffer, p.buffer, e)
      BY PageIs DEF Pushed
    <3> QED
      BY <1>2, <2>1, <2>2, <3>1, <3>2 DEF Effected
  <2>7. CASE kind # "ANOMALY"
    <3>1. r = [queue |-> chosen.queue, buffer |-> buffer, store |-> chosen.store, graphing |-> chosen.graphing,
               timer |-> chosen.timer]
      BY <2>3, <2>4, <2>7, PageIs
    <3>2. r \in Pages
      BY <2>4, <2>5, <3>1, PageIs DEF Pages
    <3>3. GoodPage(r)
      BY <2>4, <3>1, <3>2, PageIs DEF GoodPage
    <3>4. r.queue = queue /\ r.buffer = buffer /\ r.store = chosen.store
      BY <2>4, <3>1
    <3> QED
      BY <1>2, <2>1, <2>4, <2>5, <3>3, <3>4 DEF Effected
  <2> QED
    BY <2>6, <2>7
<1> QED
  BY <1>1, <1>2

LEMMA FollowedLists ==
  ASSUME NEW s, NEW e, NEW p, GoodPage(p), NEW r, r = Followed(p)
  PROVE  Effected(s, r, p, e)
<1> DEFINE latest == Last(p.store.order)
<1>1. CASE r = p
  BY <1>1, Unaffected
<1>2. CASE r # p
  <2>1. p.store.order # <<>> /\ r = Selected(p, Info[latest].trace)
    BY <1>2 DEF Followed
  <2>2. p.store.order \in Seq(Event)
    BY PageIs, StoreIs
  <2>3. latest \in Event
    BY <2>1, <2>2 DEF Last
  <2> HIDE DEF latest
  <2>4. Info[latest].trace \in Trace
    BY <2>3, InfoIs
  <2>5. GoodPage(r) /\ r.store.runs = p.store.runs /\ r.queue = p.queue /\ r.buffer = p.buffer
    BY <2>1, <2>4, SelectedLists
  <2> QED
    BY <2>5, Unaffected
<1> QED
  BY <1>1, <1>2

LEMMA GraphingLists ==
  ASSUME NEW s, NEW e, NEW p, GoodPage(p), NEW r, r = Graphing(p)
  PROVE  Effected(s, r, p, e)
<1> DEFINE new == {x \in p.store.events : Info[x].kind \in Topological} \ (drawn \cup ToSet(p.graphing))
           graphing == p.graphing \o Keep(p.store.order, new)
<1>1. r = [p EXCEPT !.graphing = graphing, !.timer = TRUE]
  BY DEF Graphing
<1> HIDE DEF graphing
<1>2. r.queue = p.queue /\ r.buffer = p.buffer /\ r.store = p.store
  BY <1>1, PageIs
<1>3. GoodPage(r)
  BY GraphingIs DEF Commits
<1> QED
  BY <1>2, <1>3, Unaffected

LEMMA CommittedLists ==
  ASSUME NEW s \in Scripts, NEW p, GoodPage(p), NEW e, e = None \/ e \in ToSet(s), NEW before,
         NEW r, r = Committed(p, e, before)
  PROVE  Effected(s, r, p, e)
<1> DEFINE chosen == IF p.store.selectedTrace # before.store.selectedTrace THEN EventEffect(p, e) ELSE p
           informed == IF p.store.order # before.store.order \/ follow' # follow THEN Followed(chosen) ELSE chosen
           last == IF informed.store.selectedTrace # p.store.selectedTrace THEN EventEffect(informed, e) ELSE informed
<1>0. \A q : GoodPage(q) => Effected(s, q, q, e)
  BY Unaffected
<1>9. e # None => Place(s, e) \in Nat
  <2> SUFFICES ASSUME e \in ToSet(s) PROVE Place(s, e) \in Nat
    OBVIOUS
  <2>1. PICK j \in DOMAIN s : s[j] = e
    BY DEF ToSet
  <2>2. DOMAIN s = 1 .. Len(s)
    BY ScriptAssumption
  <2>3. Place(s, e) \in 1 .. Len(s)
    BY <2>1, <2>2, PlaceIs
  <2> QED
    BY <2>3
<1>1. Effected(s, chosen, p, e)
  BY <1>0, EffectLists
<1>2. GoodPage(chosen)
  BY <1>1 DEF Effected
<1> HIDE DEF chosen
<1>3. Effected(s, informed, chosen, e)
  BY <1>0, <1>2, FollowedLists
<1>4. GoodPage(informed)
  BY <1>3 DEF Effected
<1> HIDE DEF informed
<1>5. Effected(s, last, informed, e)
  BY <1>0, <1>4, EffectLists
<1>6. GoodPage(last)
  BY <1>5 DEF Effected
<1>7. r = IF p.store.order # before.store.order THEN Graphing(last) ELSE last
  BY DEF Committed, last, informed, chosen
<1> HIDE DEF last
<1>8. Effected(s, r, last, e)
  BY <1>0, <1>6, <1>7, GraphingLists
<1>10. Effected(s, informed, p, e)
  BY <1>1, <1>3, <1>9, EffectedTwice
<1>11. Effected(s, last, p, e)
  BY <1>5, <1>9, <1>10, EffectedTwice
<1> QED
  BY <1>8, <1>9, <1>11, EffectedTwice

-----------------------------------------------------------------------------
(* What one message makes of the picture and of the run of its trace.      *)

LEMMA NodeIs ==
  ASSUME NEW m, IsMotion(m), NEW n, NEW state, NEW r, r = Node(m, n, state)
  PROVE  /\ IsMotion(r) /\ r.at = m.at /\ r.paths = m.paths
         /\ DOMAIN r.nodes = DOMAIN m.nodes \cup {n} /\ r.nodes[n] = state
<1> DEFINE nodes == [x \in DOMAIN m.nodes \cup {n} |-> IF x = n THEN state ELSE m.nodes[x]]
<1>1. r = [m EXCEPT !.nodes = nodes]
  BY DEF Node
<1>2. DOMAIN nodes = DOMAIN m.nodes \cup {n} /\ nodes[n] = state
  OBVIOUS
<1> HIDE DEF nodes
<1>3. r = [nodes |-> nodes, retrying |-> m.retrying, edges |-> m.edges, paths |-> m.paths, at |-> m.at]
  BY <1>1 DEF IsMotion
<1> QED
  BY <1>2, <1>3 DEF IsMotion

LEMMA LineDrawn ==
  ASSUME NEW m, IsMotion(m), NEW from, NEW to, NEW state, NEW r, r = Edge(m, from, to, state)
  PROVE  IsMotion(r) /\ r.at = m.at /\ r.nodes = m.nodes
<1> DEFINE edges == (<<from, to>> :> state) @@ m.edges
           paths == IF <<from, to>> \in ToSet(m.paths) THEN m.paths ELSE Append(m.paths, <<from, to>>)
<1>1. r = m \/ r = [m EXCEPT !.edges = edges, !.paths = paths]
  BY DEF Edge
<1> HIDE DEF edges, paths
<1>2. CASE r = m
  BY <1>2
<1>3. CASE r = [m EXCEPT !.edges = edges, !.paths = paths]
  <2>1. r = [nodes |-> m.nodes, retrying |-> m.retrying, edges |-> edges, paths |-> paths, at |-> m.at]
    BY <1>3 DEF IsMotion
  <2> QED
    BY <2>1 DEF IsMotion
<1> QED
  BY <1>1, <1>2, <1>3

(* Without a step that started there is no node.                           *)
Founded(m) == m.at = NoNode => DOMAIN m.nodes = {}

IsMoved(r, m, kind, n) ==
  /\ IsMotion(r) /\ Founded(r)
  /\ kind = "STEP_STARTED" => r.at = n
  /\ kind # "STEP_STARTED" => r.at = m.at
  /\ kind = "SWARM_COMPLETED" => \A x \in DOMAIN r.nodes : r.nodes[x] = "completed"
  /\ kind = "SWARM_FAILED" => DOMAIN r.nodes = {} \/ \E x \in DOMAIN r.nodes : r.nodes[x] = "failed"
  /\ kind \notin StepKinds \cup {"SWARM_COMPLETED", "SWARM_FAILED"} => r = m

(* Whatever a message makes of a picture is a picture.                     *)
LEMMA MovedTyped ==
  ASSUME NEW m, IsMotion(m), NEW kind, NEW n, NEW r, r = Moved(m, kind, n)
  PROVE  IsMotion(r) /\ r.at = IF kind = "STEP_STARTED" THEN n ELSE m.at
<1>1. CASE kind = "STEP_STARTED"
  <2> DEFINE left == IF m.at \in {NoNode, n} THEN m ELSE Node(m, m.at, "completed")
             node == Node(left, n, "active")
             edge == Edge(node, m.at, n, "flowing")
  <2>1. r = [edge EXCEPT !.at = n, !.retrying = edge.retrying \ {n}]
    BY <1>1 DEF Moved, Started
  <2>2. IsMotion(left)
    BY NodeIs
  <2> HIDE DEF left
  <2>3. IsMotion(node)
    BY <2>2, NodeIs
  <2> HIDE DEF node
  <2>4. IsMotion(edge)
    BY <2>3, LineDrawn
  <2> HIDE DEF edge
  <2>5. r = [nodes |-> edge.nodes, retrying |-> edge.retrying \ {n}, edges |-> edge.edges, paths |-> edge.paths, at |-> n]
    BY <2>1, <2>4 DEF IsMotion
  <2>6. IsMotion(r) /\ r.at = n
    BY <2>5 DEF IsMotion
  <2> QED
    BY <1>1, <2>6
<1>2. CASE kind = "STEP_COMPLETED"
  <2> DEFINE into == SelectSeq(m.paths, LAMBDA e : e[2] = n)
             node == Node(m, n, "completed")
             done == [node EXCEPT !.retrying = node.retrying \ {n}]
  <2>1. r = IF into = <<>> THEN done ELSE Edge(done, into[1][1], n, "completed")
    BY <1>2 DEF Moved, Completed
  <2>2. IsMotion(node) /\ node.at = m.at
    BY NodeIs
  <2> HIDE DEF node, into
  <2>3. PICK d : d = done
    OBVIOUS
  <2>6. d = [nodes |-> node.nodes, retrying |-> node.retrying \ {n}, edges |-> node.edges, paths |-> node.paths,
             at |-> node.at]
    BY <2>2, <2>3 DEF IsMotion
  <2>4. IsMotion(d) /\ d.at = m.at
    BY <2>2, <2>6 DEF IsMotion
  <2> HIDE DEF done
  <2>5. IsMotion(r) /\ r.at = m.at
    BY <2>1, <2>3, <2>4, LineDrawn
  <2> QED
    BY <1>2, <2>5
<1>3. CASE kind = "STEP_FAILED"
  <2>1. r = Edge(Node(m, n, "failed"), m.at, n, "failed")
    BY <1>3 DEF Moved, Failed
  <2>2. IsMotion(Node(m, n, "failed")) /\ Node(m, n, "failed").at = m.at
    BY NodeIs
  <2>3. IsMotion(r) /\ r.at = m.at
    BY <2>1, <2>2, LineDrawn
  <2> QED
    BY <1>3, <2>3
<1>4. CASE kind = "STEP_RETRY"
  <2> DEFINE node == Node(m, n, "active")
  <2>1. r = [node EXCEPT !.retrying = node.retrying \cup {n}]
    BY <1>4 DEF Moved, Retried
  <2>2. IsMotion(node) /\ node.at = m.at
    BY NodeIs
  <2> HIDE DEF node
  <2>3. r = [nodes |-> node.nodes, retrying |-> node.retrying \cup {n}, edges |-> node.edges, paths |-> node.paths,
             at |-> node.at]
    BY <2>1, <2>2 DEF IsMotion
  <2>4. IsMotion(r) /\ r.at = m.at
    BY <2>2, <2>3 DEF IsMotion
  <2> QED
    BY <1>4, <2>4
<1>5. CASE kind = "SWARM_COMPLETED"
  <2> DEFINE nodes == [x \in DOMAIN m.nodes |-> "completed"]
  <2>1. r = [m EXCEPT !.nodes = nodes]
    BY <1>5 DEF Moved, Ended, AllCompleted
  <2> HIDE DEF nodes
  <2>2. r = [nodes |-> nodes, retrying |-> m.retrying, edges |-> m.edges, paths |-> m.paths, at |-> m.at]
    BY <2>1 DEF IsMotion
  <2>3. nodes = [x \in DOMAIN nodes |-> nodes[x]]
    BY DEF nodes
  <2> QED
    BY <1>5, <2>2, <2>3 DEF IsMotion
<1>6. CASE kind = "SWARM_FAILED"
  <2>1. r = IF m.at = NoNode THEN m ELSE Node(m, m.at, "failed")
    BY <1>6 DEF Moved, EndedFailed
  <2> QED
    BY <1>6, <2>1, NodeIs
<1>7. CASE kind \notin StepKinds \cup {"SWARM_COMPLETED", "SWARM_FAILED"}
  BY <1>7 DEF Moved, StepKinds
<1> QED
  BY <1>1, <1>2, <1>3, <1>4, <1>5, <1>6, <1>7 DEF StepKinds

LEMMA MovedIs ==
  ASSUME NEW m, IsMotion(m), Founded(m), NEW n, n # NoNode, NEW kind, NEW r, r = Moved(m, kind, n),
         kind \in StepKinds \ {"STEP_STARTED"} => m.at # NoNode
  PROVE  IsMoved(r, m, kind, n)
<1>0. IsMotion(r) /\ r.at = IF kind = "STEP_STARTED" THEN n ELSE m.at
  BY MovedTyped
<1>1. CASE kind \in StepKinds
  BY <1>0, <1>1 DEF IsMoved, Founded, StepKinds
<1>2. CASE kind = "SWARM_COMPLETED"
  <2> DEFINE nodes == [x \in DOMAIN m.nodes |-> "completed"]
  <2>1. r = [m EXCEPT !.nodes = nodes]
    BY <1>2 DEF Moved, Ended, AllCompleted
  <2>2. DOMAIN nodes = DOMAIN m.nodes /\ \A x \in DOMAIN nodes : nodes[x] = "completed"
    OBVIOUS
  <2> HIDE DEF nodes
  <2>3. r.nodes = nodes
    BY <2>1 DEF IsMotion
  <2> QED
    BY <1>0, <1>2, <2>2, <2>3 DEF IsMoved, Founded, StepKinds
<1>3. CASE kind = "SWARM_FAILED"
  <2>1. r = IF m.at = NoNode THEN m ELSE Node(m, m.at, "failed")
    BY <1>3 DEF Moved, EndedFailed
  <2>2. CASE m.at = NoNode
    BY <1>3, <2>1, <2>2 DEF IsMoved, Founded, StepKinds
  <2>3. CASE m.at # NoNode
    <3>1. IsMotion(r) /\ r.at = m.at /\ DOMAIN r.nodes = DOMAIN m.nodes \cup {m.at} /\ r.nodes[m.at] = "failed"
      BY <2>1, <2>3, NodeIs
    <3> QED
      BY <1>3, <2>3, <3>1 DEF IsMoved, Founded, StepKinds
  <2> QED
    BY <2>2, <2>3
<1>4. CASE kind \notin StepKinds \cup {"SWARM_COMPLETED", "SWARM_FAILED"}
  <2>1. r = m
    BY <1>4 DEF Moved, StepKinds
  <2> QED
    BY <1>4, <2>1 DEF IsMoved, StepKinds
<1> QED
  BY <1>1, <1>2, <1>3, <1>4 DEF StepKinds

LEMMA ToldStatus ==
  ASSUME NEW run \in Runs, NEW e \in Event
  PROVE  /\ Kind(e) = "RESULT_OK" => Told(run, e).status = "completed"
         /\ Kind(e) \in {"RESULT_FAILED", "SWARM_FAILED"} => Told(run, e).status = "failed"
         /\ Kind(e) = "SWARM_COMPLETED" =>
              Told(run, e).status = IF run.status = "failed" THEN "failed" ELSE "completed"
         /\ Told(run, e).status = "failed" => run.status = "failed" \/ Kind(e) \in {"RESULT_FAILED", "SWARM_FAILED"}
<1>1. run = [status |-> run.status, ended |-> run.ended, steps |-> run.steps]
  BY DEF Runs
<1> DEFINE k == Info[e].kind
           r == Told(run, e)
<1>2. CASE k = "SWARM_STARTED"
  <2>1. r = [run EXCEPT !.status = "running"]
    BY <1>2 DEF Told
  <2> QED
    BY <1>1, <1>2, <2>1 DEF Kind
<1>3. CASE k = "RESULT_OK"
  <2>1. r = [run EXCEPT !.status = "completed", !.ended = TRUE]
    BY <1>3 DEF Told
  <2> QED
    BY <1>1, <1>3, <2>1 DEF Kind
<1>4. CASE k \in {"RESULT_FAILED", "SWARM_FAILED"}
  <2>1. r = [run EXCEPT !.status = "failed", !.ended = TRUE]
    BY <1>4 DEF Told
  <2> QED
    BY <1>1, <1>4, <2>1 DEF Kind
<1>5. CASE k = "SWARM_COMPLETED"
  <2>1. r = [run EXCEPT !.ended = TRUE, !.status = IF run.status = "failed" THEN run.status ELSE "completed"]
    BY <1>5 DEF Told
  <2>2. r.status = IF run.status = "failed" THEN run.status ELSE "completed"
    BY <1>1, <2>1
  <2> QED
    BY <1>5, <2>2 DEF Kind
<1>6. CASE k \notin {"SWARM_STARTED", "RESULT_OK", "RESULT_FAILED", "SWARM_FAILED", "SWARM_COMPLETED"}
  <2>1. r = [run EXCEPT !.steps = Append(run.steps, e)]
    BY <1>6 DEF Told
  <2> QED
    BY <1>1, <1>6, <2>1 DEF Kind
<1> QED
  BY <1>2, <1>3, <1>4, <1>5, <1>6

(* The history of runs after e, which changes the run of its trace alone.  *)
LEMMA RunTold ==
  ASSUME NEW runs \in TraceMaps(Runs), NEW e \in Event, NEW after, after = RunAfter(runs, e)
  PROVE  /\ DOMAIN after \subseteq DOMAIN runs \cup {Info[e].trace}
         /\ \A u \in DOMAIN runs : u \in DOMAIN after /\ (u # Info[e].trace => after[u] = runs[u])
         /\ Silent(e) => after = runs
         /\ ~Silent(e) => Info[e].trace \in DOMAIN after
                          /\ after[Info[e].trace] = Told(RunOf(runs, Info[e].trace), e)
         /\ RunOf(runs, Info[e].trace) \in Runs
         /\ RunOf(runs, Info[e].trace).status = "failed" =>
              Info[e].trace \in DOMAIN runs /\ runs[Info[e].trace].status = "failed"
<1> DEFINE t == Info[e].trace
           run == RunOf(runs, t)
           v == Told(run, e)
<1>1. t \in Trace /\ DOMAIN runs \in SUBSET Trace /\ runs \in [DOMAIN runs -> Runs]
  BY InfoIs, TraceMapIs
<1>2. run \in Runs
  BY <1>1, EmptySeq DEF RunOf, Runs
<1>3. v \in Runs
  BY <1>2, ToldEnded
<1>4. run.status = "failed" => t \in DOMAIN runs /\ runs[t].status = "failed"
  BY DEF RunOf
<1>5. CASE Silent(e)
  BY <1>2, <1>4, <1>5 DEF RunAfter
<1>6. CASE ~Silent(e)
  <2>1. after = Put(runs, t, v)
    BY <1>6 DEF RunAfter
  <2>2. HasPut(after, runs, t, v)
    <3> HIDE DEF t, v
    <3> QED
      BY <1>1, <1>3, <2>1, PutIs
  <2> QED
    BY <1>2, <1>4, <1>6, <2>2 DEF HasPut
<1> QED
  BY <1>5, <1>6

-----------------------------------------------------------------------------
(* What comes in the order the backend publishes.                          *)

LEMMA PlaceOf ==
  ASSUME NEW s \in Scripts, NEW e \in ToSet(s)
  PROVE  /\ Place(s, e) \in 1 .. Len(s) /\ Place(s, e) \in Nat /\ s[Place(s, e)] = e /\ e \in Event
         /\ DOMAIN s = 1 .. Len(s) /\ Len(s) \in Nat
<1>1. s \in Seq(Event) /\ DOMAIN s = 1 .. Len(s) /\ Len(s) \in Nat
  BY ScriptAssumption
<1>2. PICK j \in 1 .. Len(s) : s[j] = e
  BY <1>1 DEF ToSet
<1>3. Place(s, e) \in 1 .. Len(s) /\ s[Place(s, e)] = e /\ e \in Event
  BY <1>2, PlaceIs
<1> QED
  BY <1>1, <1>3

LEMMA AfterTheEnd ==
  ASSUME RunsInOrder, NEW s \in Scripts, NEW d \in ToSet(s), NEW e \in ToSet(s), Info[d].trace = Info[e].trace,
         Place(s, d) < Place(s, e)
  PROVE  /\ Kind(d) = "SWARM_COMPLETED" => Silent(e) \/ Kind(e) = "RESULT_OK"
         /\ Kind(d) = "SWARM_FAILED" => Silent(e) \/ Kind(e) = "RESULT_FAILED"
<1> DEFINE i == Place(s, d)
           j == Place(s, e)
<1>1. i \in Nat /\ i \in 1 .. Len(s) /\ s[i] = d /\ j \in DOMAIN s /\ j \in Nat /\ s[j] = e
  BY PlaceOf
<1>2. i \in 1 .. (j - 1)
  BY <1>1
<1> HIDE DEF i, j
<1>3. /\ Silent(s[j]) \/ Info[s[j]].kind = "RESULT_FAILED" \/
           \A k \in 1 .. (j - 1) : ~(Info[s[k]].trace = Info[s[j]].trace /\ Info[s[k]].kind \in {"SWARM_FAILED"})
      /\ Silent(s[j]) \/ Info[s[j]].kind = "RESULT_OK" \/
           \A k \in 1 .. (j - 1) : ~(Info[s[k]].trace = Info[s[j]].trace /\ Info[s[k]].kind \in {"SWARM_COMPLETED"})
  BY <1>1 DEF RunsInOrder
<1> QED
  BY <1>1, <1>2, <1>3 DEF Kind

LEMMA EndedOneWay ==
  ASSUME RunsInOrder, NEW s \in Scripts, NEW d \in ToSet(s), NEW e \in ToSet(s), Info[d].trace = Info[e].trace,
         Kind(d) = "SWARM_COMPLETED"
  PROVE  Kind(e) \notin {"SWARM_FAILED", "RESULT_FAILED"}
<1> DEFINE i == Place(s, d)
           j == Place(s, e)
<1>1. i \in DOMAIN s /\ s[i] = d /\ j \in DOMAIN s /\ s[j] = e
  BY PlaceOf
<1> HIDE DEF i, j
<1>2. Info[s[j]].kind \in {"SWARM_FAILED", "RESULT_FAILED"} =>
        \A k \in DOMAIN s : ~(Info[s[k]].trace = Info[s[j]].trace /\ Info[s[k]].kind \in {"SWARM_COMPLETED"})
  BY <1>1 DEF RunsInOrder
<1> QED
  BY <1>1, <1>2 DEF Kind

LEMMA StartedFirst ==
  ASSUME RunsInOrder, NEW s \in Scripts, NEW e \in ToSet(s), Kind(e) \in StepKinds
  PROVE  \E d \in ToSet(s) : Kind(d) = "STEP_STARTED" /\ Info[d].trace = Info[e].trace /\ Place(s, d) <= Place(s, e)
<1> DEFINE j == Place(s, e)
<1>1. j \in DOMAIN s /\ j \in 1 .. Len(s) /\ s[j] = e /\ DOMAIN s = 1 .. Len(s) /\ Len(s) \in Nat
  BY PlaceOf
<1> HIDE DEF j
<1>2. PICK i \in 1 .. j : Info[s[i]].trace = Info[s[j]].trace /\ Info[s[i]].kind \in {"STEP_STARTED"}
  BY <1>1 DEF RunsInOrder, Kind
<1>3. i \in 1 .. Len(s) /\ i <= j
  BY <1>1, <1>2
<1>4. s[i] \in ToSet(s) /\ Place(s, s[i]) = i
  BY <1>1, <1>3, PlaceIs DEF ToSet
<1> QED
  BY <1>1, <1>2, <1>3, <1>4 DEF Kind, j

(* The first of a list leaves it.                                          *)
LEMMA HeadLeaves ==
  ASSUME NEW s \in Scripts, NEW G \in SUBSET ToSet(s), NEW L \in Seq(Event), L # <<>>, InLine(s, L, G)
  PROVE  /\ InLine(s, Tail(L), G) /\ Head(L) \in G
         /\ \A d \in Through(Tail(L), G) : d = Head(L) \/ (d \in Through(L, G) /\ Place(s, d) < Place(s, Head(L)))
         /\ \A d \in G \cap Telling : Place(s, d) < Place(s, Head(L)) => d \in Through(L, G)
<1> DEFINE T == Tail(L)
           e == Head(L)
<1>1. /\ Len(L) \in Nat /\ 1 \in 1 .. Len(L) /\ DOMAIN L = 1 .. Len(L) /\ e = L[1]
      /\ DOMAIN T = 1 .. (Len(L) - 1) /\ \A i \in 1 .. (Len(L) - 1) : T[i] = L[i + 1] /\ i + 1 \in 1 .. Len(L)
  OBVIOUS
<1>2. \A i \in 1 .. Len(L) : i = 1 \/ (i - 1 \in 1 .. (Len(L) - 1) /\ (i - 1) + 1 = i)
  BY <1>1
<1>3. /\ ToSet(L) \subseteq G
      /\ \A i, j \in 1 .. Len(L) : i <= j => Place(s, L[i]) <= Place(s, L[j])
      /\ \A d \in Through(L, G), x \in ToSet(L) : Place(s, d) < Place(s, x)
  BY <1>1 DEF InLine, Lined
<1> HIDE DEF T, e
<1>4. ToSet(T) \subseteq ToSet(L) /\ e \in ToSet(L) /\ ToSet(L) \subseteq ToSet(T) \cup {e}
  <2>1. \A i \in 1 .. Len(L) : L[i] \in ToSet(T) \cup {e}
    <3> SUFFICES ASSUME NEW i \in 1 .. Len(L), i # 1 PROVE L[i] \in ToSet(T)
      BY <1>1
    <3>1. i - 1 \in DOMAIN T /\ T[i - 1] = L[i]
      BY <1>1, <1>2
    <3> QED
      BY <3>1 DEF ToSet
  <2>2. \A i \in 1 .. Len(L) : L[i] \in ToSet(L)
    BY <1>1 DEF ToSet
  <2>3. \A i \in DOMAIN T : T[i] \in ToSet(L)
    BY <1>1, <2>2
  <2>4. ToSet(T) = {T[i] : i \in DOMAIN T} /\ ToSet(L) = {L[i] : i \in 1 .. Len(L)}
    BY <1>1 DEF ToSet
  <2> HIDE DEF ToSet
  <2> QED
    BY <1>1, <2>1, <2>2, <2>3, <2>4
<1>5. \A x \in ToSet(L) : Place(s, e) <= Place(s, x)
  <2> SUFFICES ASSUME NEW i \in 1 .. Len(L) PROVE Place(s, L[1]) <= Place(s, L[i])
    BY <1>1 DEF ToSet
  <2> QED
    BY <1>1, <1>3
<1>6. \A x \in G : Place(s, x) \in Nat /\ s[Place(s, x)] = x
  BY PlaceOf
<1>7. Lined(s, T)
  <2> SUFFICES ASSUME NEW i \in 1 .. (Len(L) - 1), NEW j \in 1 .. (Len(L) - 1), i <= j
               PROVE  Place(s, T[i]) <= Place(s, T[j])
    BY <1>1 DEF Lined
  <2>1. i + 1 <= j + 1
    OBVIOUS
  <2> QED
    BY <1>1, <1>3, <2>1
<1>8. \A d \in Through(T, G) : d = e \/ (d \in Through(L, G) /\ Place(s, d) < Place(s, e))
  BY <1>3, <1>4 DEF Through
<1>9. \A d \in Through(T, G), x \in ToSet(T) : Place(s, d) < Place(s, x)
  <2> SUFFICES ASSUME NEW d \in Through(T, G), NEW x \in ToSet(T) PROVE Place(s, d) < Place(s, x)
    OBVIOUS
  <2>1. CASE d = e
    <3>1. x # e /\ x \in G /\ e \in G /\ Place(s, e) <= Place(s, x)
      BY <1>3, <1>4, <1>5, <2>1 DEF Through
    <3> QED
      BY <1>6, <2>1, <3>1
  <2>2. CASE d # e
    BY <1>3, <1>4, <1>8, <2>2
  <2> QED
    BY <2>1, <2>2
<1>10. ASSUME NEW d \in G \cap Telling, Place(s, d) < Place(s, e) PROVE d \in Through(L, G)
  <2>1. d \notin ToSet(L)
    BY <1>3, <1>4, <1>5, <1>6, <1>10
  <2> QED
    BY <2>1 DEF Through
<1>11. InLine(s, T, G)
  BY <1>3, <1>4, <1>7, <1>9 DEF InLine
<1> QED
  BY <1>3, <1>4, <1>8, <1>10, <1>11 DEF T, e

(* The pictures once the animation plays e.                                *)
Played(m, e) == [m EXCEPT ![Info[e].trace] = Moved(m[Info[e].trace], Info[e].kind, StepOf[e])]

(* The picture moves with the message that left the list: what was shown   *)
(* of its run is shown still.                                              *)
LEMMA PlayShows ==
  ASSUME RunsInOrder, NEW s \in Scripts, NEW n \in 0 .. Len(s), NEW G, G = SoFar(s, n), NEW L \in Seq(Event), L # <<>>,
         InLine(s, L, G), NEW m, NEW r,
         m = [t \in Trace |-> m[t]], \A t \in Trace : IsMotion(m[t]) /\ Founded(m[t]),
         \A d \in Through(L, G) : Shows(m[Info[d].trace], d),
         r = Played(m, Head(L))
  PROVE  /\ \A t \in Trace : Founded(r[t])
         /\ \A d \in Through(Tail(L), G) : Shows(r[Info[d].trace], d)
<1> DEFINE e == Head(L)
           t == Info[e].trace
           w == Moved(m[t], Info[e].kind, StepOf[e])
<1>1. /\ G \in SUBSET ToSet(s) /\ \A x \in ToSet(s) : x \in G <=> Place(s, x) <= n
  BY SoFarIs
<1>2. /\ InLine(s, Tail(L), G) /\ e \in G
      /\ \A d \in Through(Tail(L), G) : d = e \/ (d \in Through(L, G) /\ Place(s, d) < Place(s, e))
      /\ \A d \in G \cap Telling : Place(s, d) < Place(s, e) => d \in Through(L, G)
  BY <1>1, HeadLeaves
<1> HIDE DEF e
<1>3. e \in ToSet(s) /\ e \in Event /\ t \in Trace /\ StepOf[e] # NoNode /\ Place(s, e) \in Nat /\ Place(s, e) <= n
  BY <1>1, <1>2, PlaceOf, InfoIs, StepAssumption
<1>4. r[t] = w /\ \A u \in Trace : u # t => r[u] = m[u]
  BY <1>3 DEF e, Played
<1>5. Info[e].kind \in StepKinds \ {"STEP_STARTED"} => m[t].at # NoNode
  <2> SUFFICES ASSUME Info[e].kind \in StepKinds, Info[e].kind # "STEP_STARTED" PROVE m[t].at # NoNode
    OBVIOUS
  <2>1. PICK d \in ToSet(s) : Kind(d) = "STEP_STARTED" /\ Info[d].trace = t /\ Place(s, d) <= Place(s, e)
    BY <1>3, StartedFirst DEF Kind
  <2>2. d # e /\ d \in Event /\ Place(s, d) \in Nat /\ s[Place(s, d)] = d /\ s[Place(s, e)] = e
    BY <1>3, <2>1, PlaceOf DEF Kind
  <2>3. Place(s, d) # Place(s, e)
    BY <2>2
  <2>4. Place(s, d) < Place(s, e) /\ Place(s, d) <= n
    BY <1>3, <2>1, <2>2, <2>3
  <2>5. d \in Through(L, G)
    BY <1>1, <1>2, <2>1, <2>2, <2>4 DEF Telling
  <2> QED
    BY <2>1, <2>5 DEF Shows
<1>6. /\ Founded(w)
      /\ Info[e].kind = "STEP_STARTED" => w.at = StepOf[e]
      /\ Info[e].kind # "STEP_STARTED" => w.at = m[t].at
      /\ Info[e].kind = "SWARM_COMPLETED" => \A x \in DOMAIN w.nodes : w.nodes[x] = "completed"
      /\ Info[e].kind = "SWARM_FAILED" => DOMAIN w.nodes = {} \/ \E x \in DOMAIN w.nodes : w.nodes[x] = "failed"
      /\ Info[e].kind \notin StepKinds \cup {"SWARM_COMPLETED", "SWARM_FAILED"} => w = m[t]
  <2>1. PICK mt, kind, step : mt = m[t] /\ kind = Info[e].kind /\ step = StepOf[e]
    OBVIOUS
  <2>2. w = Moved(mt, kind, step)
    BY <2>1
  <2>3. IsMotion(mt) /\ Founded(mt) /\ step # NoNode /\ (kind \in StepKinds \ {"STEP_STARTED"} => mt.at # NoNode)
    BY <1>3, <1>5, <2>1
  <2> HIDE DEF w
  <2>4. IsMoved(w, mt, kind, step)
    BY <2>2, <2>3, MovedIs
  <2> QED
    BY <2>1, <2>4 DEF IsMoved
<1> HIDE DEF w
<1>7. ASSUME NEW d \in Through(Tail(L), G) PROVE Shows(r[Info[d].trace], d)
  <2>1. CASE d = e
    BY <1>3, <1>4, <1>6, <2>1 DEF Shows, Kind, t
  <2>2. CASE d # e /\ Info[d].trace = t
    <3>1. d \in Through(L, G) /\ Place(s, d) < Place(s, e) /\ d \in ToSet(s) /\ Shows(m[t], d)
      BY <1>1, <1>2, <1>7, <2>2 DEF Through
    <3>2. CASE Kind(d) = "STEP_STARTED"
      <4>1. m[t].at # NoNode /\ w.at # NoNode
        BY <1>3, <1>6, <3>1, <3>2 DEF Shows
      <4> QED
        BY <1>4, <2>2, <3>2, <4>1 DEF Shows
    <3>3. CASE Kind(d) \in {"SWARM_COMPLETED", "SWARM_FAILED"}
      <4>1. Silent(e) \/ Kind(e) \in {"RESULT_OK", "RESULT_FAILED"}
        BY <1>3, <2>2, <3>1, <3>3, AfterTheEnd
      <4>2. Info[e].kind \notin StepKinds \cup {"SWARM_COMPLETED", "SWARM_FAILED"}
        BY <4>1 DEF Silent, Kind, Indexed, StepKinds
      <4> QED
        BY <1>4, <1>6, <2>2, <3>1, <4>2
    <3> QED
      BY <1>7, <3>2, <3>3 DEF Through, Telling
  <2>3. CASE Info[d].trace # t
    <3>1. d \in Through(L, G) /\ d \in Event
      BY <1>2, <1>7, <2>3 DEF Through, Telling
    <3>2. Info[d].trace \in Trace
      BY <3>1, InfoIs
    <3> QED
      BY <1>4, <2>3, <3>1, <3>2
  <2> QED
    BY <2>1, <2>2, <2>3
<1>8. \A u \in Trace : Founded(r[u])
  BY <1>4, <1>6
<1> QED
  BY <1>7, <1>8

(* The run is told the message: what was recorded of it is recorded still. *)
LEMMA TellingOne ==
  ASSUME RunsInOrder, NEW s \in Scripts, NEW G \in SUBSET ToSet(s), NEW e \in G, NEW A,
         NEW runs \in TraceMaps(Runs), NEW after, after = RunAfter(runs, e), FailsTold(runs, G, A)
  PROVE  /\ FailsTold(after, G, A)
         /\ Info[e].trace \notin A => Recorded(after, e)
         /\ \A d \in G : Recorded(runs, d) /\ Place(s, d) < Place(s, e) => Recorded(after, d)
<1> DEFINE t == Info[e].trace
           run == RunOf(runs, t)
           v == Told(run, e)
<1>0. e \in Event /\ e \in ToSet(s)
  BY PlaceOf
<1>1. /\ DOMAIN after \subseteq DOMAIN runs \cup {t}
      /\ \A u \in DOMAIN runs : u \in DOMAIN after /\ (u # t => after[u] = runs[u])
      /\ Silent(e) => after = runs
      /\ ~Silent(e) => t \in DOMAIN after /\ after[t] = v
      /\ run \in Runs
      /\ run.status = "failed" => t \in DOMAIN runs /\ runs[t].status = "failed"
  BY <1>0, RunTold
<1>2. /\ Kind(e) = "RESULT_OK" => v.status = "completed"
      /\ Kind(e) \in {"RESULT_FAILED", "SWARM_FAILED"} => v.status = "failed"
      /\ Kind(e) = "SWARM_COMPLETED" => v.status = IF run.status = "failed" THEN "failed" ELSE "completed"
      /\ v.status = "failed" => run.status = "failed" \/ Kind(e) \in {"RESULT_FAILED", "SWARM_FAILED"}
  BY <1>0, <1>1, ToldStatus
<1> HIDE DEF v, run
<1>3. FailsTold(after, G, A)
  <2> SUFFICES ASSUME NEW u \in DOMAIN after, u \notin A, after[u].status = "failed"
               PROVE  \E f \in G : Info[f].trace = u /\ Kind(f) \in {"SWARM_FAILED", "RESULT_FAILED"}
    BY DEF FailsTold
  <2>1. CASE u \in DOMAIN runs /\ runs[u].status = "failed"
    BY <2>1 DEF FailsTold
  <2>2. CASE ~(u \in DOMAIN runs /\ runs[u].status = "failed")
    <3>1. ~Silent(e) /\ u = t
      BY <1>1, <2>2
    <3>2. Kind(e) \in {"RESULT_FAILED", "SWARM_FAILED"}
      BY <1>1, <1>2, <2>2, <3>1
    <3> QED
      BY <3>1, <3>2
  <2> QED
    BY <2>1, <2>2
<1>4. ASSUME t \notin A PROVE Recorded(after, e)
  <2>1. CASE Kind(e) = "SWARM_COMPLETED"
    <3>1. ~Silent(e)
      BY <2>1 DEF Silent, Kind, Indexed
    <3>2. run.status # "failed"
      <4> SUFFICES ASSUME run.status = "failed" PROVE FALSE
        OBVIOUS
      <4>1. PICK f \in G : Info[f].trace = t /\ Kind(f) \in {"SWARM_FAILED", "RESULT_FAILED"}
        BY <1>1, <1>4 DEF FailsTold
      <4> QED
        BY <1>0, <2>1, <4>1, EndedOneWay
    <3> QED
      BY <1>1, <1>2, <2>1, <3>1, <3>2 DEF Recorded
  <2>2. CASE Kind(e) = "SWARM_FAILED"
    <3>1. ~Silent(e)
      BY <2>2 DEF Silent, Kind, Indexed
    <3> QED
      BY <1>1, <1>2, <2>2, <3>1 DEF Recorded
  <2> QED
    BY <2>1, <2>2 DEF Recorded
<1>5. ASSUME NEW d \in G, Recorded(runs, d), Place(s, d) < Place(s, e) PROVE Recorded(after, d)
  <2>1. CASE Info[d].trace # t
    BY <1>1, <1>5, <2>1 DEF Recorded
  <2>2. CASE Info[d].trace = t
    <3>1. /\ Kind(d) = "SWARM_COMPLETED" => Silent(e) \/ Kind(e) = "RESULT_OK"
          /\ Kind(d) = "SWARM_FAILED" => Silent(e) \/ Kind(e) = "RESULT_FAILED"
      BY <1>0, <1>5, <2>2, AfterTheEnd
    <3>2. CASE Silent(e)
      BY <1>1, <1>5, <3>2
    <3>3. CASE ~Silent(e)
      BY <1>1, <1>2, <2>2, <3>1, <3>3 DEF Recorded
    <3> QED
      BY <3>2, <3>3
  <2> QED
    BY <2>1, <2>2
<1> QED
  BY <1>3, <1>4, <1>5

(* All of a list is told, one after the other.                             *)
LEMMA TellingAll ==
  ASSUME RunsInOrder, NEW s \in Scripts, NEW G \in SUBSET ToSet(s), NEW L \in Seq(Event), InLine(s, L, G), NEW A,
         NEW st, Whole(st), FailsTold(st.runs, G, A),
         \A e \in Through(L, G) : Info[e].trace \notin A => Recorded(st.runs, e),
         NEW r, r = FoldLeft(Added, st, L)
  PROVE  /\ FailsTold(r.runs, G, A)
         /\ \A e \in G \cap Telling : Info[e].trace \notin A => Recorded(r.runs, e)
<1> DEFINE n == Len(L)
<1>1. PICK t : AddedBy(t, st, L)
  BY AddedPasses
<1>2. /\ t[0] = st /\ t[n] = r /\ \A k \in 0 .. n : t[k] \in Stores
      /\ \A k \in 1 .. n : t[k] = Added(t[k - 1], L[k])
  BY <1>1 DEF AddedBy
<1>3. /\ n \in Nat /\ DOMAIN L = 1 .. n /\ \A k \in 1 .. n : L[k] \in Event /\ L[k] \in ToSet(L)
      /\ ToSet(L) = {L[k] : k \in 1 .. n}
  BY DEF ToSet
<1>4. /\ ToSet(L) \subseteq G /\ \A i, j \in 1 .. n : i <= j => Place(s, L[i]) <= Place(s, L[j])
      /\ \A d \in Through(L, G), x \in ToSet(L) : Place(s, d) < Place(s, x)
  BY <1>3 DEF InLine, Lined
<1>5. \A x \in G : Place(s, x) \in Nat /\ s[Place(s, x)] = x
  BY PlaceOf
<1> DEFINE Told1(k) == Through(L, G) \cup {L[i] : i \in 1 .. k}
           Good(k) == /\ FailsTold(t[k].runs, G, A)
                      /\ \A d \in Told1(k) : Info[d].trace \notin A => Recorded(t[k].runs, d)
           P == {k \in Nat : k <= n => Good(k)}
<1> HIDE DEF n
<1>6. 0 \in P
  <2>1. \A i \in 1 .. 0 : FALSE
    OBVIOUS
  <2> QED
    BY <1>2, <2>1
<1>7. ASSUME NEW k \in Nat, k <= n => Good(k), k + 1 <= n PROVE Good(k + 1)
  <2>1. k + 1 \in 1 .. n /\ (k + 1) - 1 = k /\ k \in 0 .. n /\ k <= n
    BY <1>3, <1>7
  <2>2. t[k + 1] = Added(t[k], L[k + 1]) /\ t[k] \in Stores /\ L[k + 1] \in Event /\ L[k + 1] \in G
    BY <1>2, <1>3, <1>4, <2>1
  <2>3. FailsTold(t[k].runs, G, A) /\ \A d \in Told1(k) : Info[d].trace \notin A => Recorded(t[k].runs, d)
    BY <1>7, <2>1
  <2>4. Told1(k + 1) \subseteq Told1(k) \cup {L[k + 1]}
    <3>1. \A i \in 1 .. (k + 1) : i \in 1 .. k \/ i = k + 1
      OBVIOUS
    <3> QED
      BY <3>1
  <2>5. \A d \in Told1(k) : d \in G /\ (d = L[k + 1] \/ Place(s, d) < Place(s, L[k + 1]))
    <3> SUFFICES ASSUME NEW d \in Told1(k) PROVE d \in G /\ (d = L[k + 1] \/ Place(s, d) < Place(s, L[k + 1]))
      OBVIOUS
    <3>1. CASE d \in Through(L, G)
      BY <1>3, <1>4, <2>1, <3>1 DEF Through
    <3>2. CASE d \notin Through(L, G)
      <4>1. PICK i \in 1 .. k : d = L[i]
        BY <3>2
      <4>2. i \in 1 .. n /\ i <= k + 1
        BY <1>3, <2>1, <4>1
      <4>3. d \in G /\ Place(s, d) <= Place(s, L[k + 1])
        BY <1>3, <1>4, <2>1, <4>1, <4>2
      <4> QED
        BY <1>5, <2>2, <4>3
    <3> QED
      BY <3>1, <3>2
  <2> HIDE DEF Told1
  <2>6. PICK e, w, v : e = L[k + 1] /\ w = t[k + 1] /\ v = t[k]
    OBVIOUS
  <2>7. w.runs = RunAfter(v.runs, e) /\ v.runs \in TraceMaps(Runs)
    <3>1. IsAdded(w, v, e)
      BY <2>2, <2>6, AddedIs
    <3> QED
      BY <2>2, <2>6, <3>1, StoreIs DEF IsAdded
  <2>8. /\ FailsTold(w.runs, G, A)
        /\ Info[e].trace \notin A => Recorded(w.runs, e)
        /\ \A d \in G : Recorded(v.runs, d) /\ Place(s, d) < Place(s, e) => Recorded(w.runs, d)
    <3>1. PICK old1, new : old1 = v.runs /\ new = w.runs
      OBVIOUS
    <3>2. new = RunAfter(old1, e) /\ old1 \in TraceMaps(Runs) /\ FailsTold(old1, G, A) /\ e \in G
      BY <2>2, <2>3, <2>6, <2>7, <3>1
    <3>3. /\ FailsTold(new, G, A)
          /\ Info[e].trace \notin A => Recorded(new, e)
          /\ \A d \in G : Recorded(old1, d) /\ Place(s, d) < Place(s, e) => Recorded(new, d)
      BY <3>2, TellingOne
    <3> QED
      BY <3>1, <3>3
  <2> QED
    BY <2>3, <2>4, <2>5, <2>6, <2>8
<1>8. P = Nat
  <2> HIDE DEF Good
  <2>1. P \in SUBSET Nat /\ \A k \in P : k + 1 \in P
    BY <1>7
  <2> HIDE DEF P
  <2> QED
    BY <1>6, <2>1, NumbersByStep
<1>9. Good(n)
  <2> HIDE DEF Good
  <2> QED
    BY <1>3, <1>8
<1>10. G \cap Telling \subseteq Told1(n)
  BY <1>3 DEF Through
<1> QED
  BY <1>2, <1>9, <1>10

(* What is stored of a list is told, whatever is evicted.                  *)
LEMMA StoringTells ==
  ASSUME RunsInOrder, NEW s \in Scripts, NEW G \in SUBSET ToSet(s), NEW L \in Seq(Event), InLine(s, L, G), NEW A,
         NEW st, Whole(st), Sized(st), st.mode # "PAUSED", FailsTold(st.runs, G, A),
         \A e \in Through(L, G) : Info[e].trace \notin A => Recorded(st.runs, e),
         NEW r, r = AddBatch(st, L)
  PROVE  /\ FailsTold(r.runs, G, A)
         /\ \A e \in G \cap Telling : Info[e].trace \notin A => Recorded(r.runs, e)
<1>1. CASE L = <<>>
  BY <1>1 DEF AddBatch, Through, ToSet
<1>2. CASE L # <<>>
  <2> DEFINE a1 == FoldLeft(Added, st, L)
             a2 == EvictOldestEvents(a1)
  <2>1. r = EvictOldestTraces(a2)
    BY <1>2 DEF AddBatch
  <2>2. Whole(a1)
    BY Batched
  <2>3. /\ FailsTold(a1.runs, G, A)
        /\ \A e \in G \cap Telling : Info[e].trace \notin A => Recorded(a1.runs, e)
    BY TellingAll
  <2> HIDE DEF a1
  <2>4. Whole(a2) /\ Len(a2.order) <= MaxEvents /\ a2.runs = a1.runs
    BY <2>2, EventsEvicted
  <2> HIDE DEF a2
  <2>5. r.runs = a2.runs
    BY <2>1, <2>4, TracesEvicted
  <2> QED
    BY <2>3, <2>4, <2>5
<1> QED
  BY <1>1, <1>2

-----------------------------------------------------------------------------
(* Every step keeps the two views with the messages.                       *)

StraightInv ==
  /\ \E n \in 0 .. Len(script) : got = SoFar(script, n) /\ message = IF n = 0 THEN None ELSE script[n]
  /\ InLine(script, page.queue, got) /\ InLine(script, page.buffer, got)
  /\ \A t \in Trace : Founded(motion[t])
  /\ \A e \in Through(page.queue, got) : Shows(motion[Info[e].trace], e)
  /\ \A e \in Through(page.buffer, got) : Info[e].trace \notin answered => Recorded(page.store.runs, e)
  /\ FailsTold(page.store.runs, got, answered)

ViewsInv ==
  /\ straight \in BOOLEAN /\ pending \in ToSet(script) \cup {None}
  /\ motion = [t \in Trace |-> motion[t]] /\ \A t \in Trace : IsMotion(motion[t])
  /\ straight /\ lost = {} => StraightInv

LEMMA Lists ==
  ASSUME NEW p, GoodPage(p), NEW st, Whole(st), Sized(st), NEW r, r = [p EXCEPT !.store = st]
  PROVE  GoodPage(r) /\ r.store = st /\ r.queue = p.queue /\ r.buffer = p.buffer
<1>1. r = [queue |-> p.queue, buffer |-> p.buffer, store |-> st, graphing |-> p.graphing, timer |-> p.timer]
  BY PageIs
<1> QED
  BY <1>1, PageStored

(* A list that has what the message may have put at its end.               *)
LEMMA MessageInLine ==
  ASSUME NEW s \in Scripts, NEW n \in 1 .. Len(s), NEW L \in Seq(Event), NEW M, InLine(s, L, SoFar(s, n)),
         Pushed(s, M, L, s[n]), ToSet(L) \subseteq ToSet(M)
  PROVE  InLine(s, M, SoFar(s, n)) /\ Through(M, SoFar(s, n)) \subseteq Through(L, SoFar(s, n))
<1>1. Len(s) \in Nat
  BY ScriptAssumption
<1>2. n \in 0 .. n /\ s[n] \in SoFar(s, n)
  BY <1>1 DEF SoFar
<1>3. SoFar(s, n) = SoFar(s, n) \cup {s[n]}
  BY <1>2
<1> QED
  BY <1>2, <1>3, StaysInLine

LEMMA TaskViews ==
  ASSUME PageInv, StraightInv, script' = script, message' = message, got' = got, motion' = motion,
         answered \subseteq answered', NEW p, GoodPage(p), Task(p), lost' = {},
         p.queue = page.queue, InLine(script, p.buffer, got), FailsTold(p.store.runs, got, answered'),
         \A e \in Through(p.buffer, got) : Info[e].trace \notin answered' => Recorded(p.store.runs, e)
  PROVE  StraightInv'
<1>1. /\ page' = Committed(p, message, page) /\ ToSet(p.buffer) \subseteq ToSet(page'.buffer)
      /\ script \in Scripts /\ GoodPage(page)
  BY DEF Task, PageInv, StreamInv
<1>2. PICK n \in 0 .. Len(script) : got = SoFar(script, n) /\ message = IF n = 0 THEN None ELSE script[n]
  BY DEF StraightInv
<1>3. Len(script) \in Nat /\ script \in Seq(Event) /\ None \notin Event
  BY <1>1, ScriptAssumption, StoreAssumption
<1>4. n # 0 => n \in 1 .. Len(script) /\ script[n] \in ToSet(script) /\ script[n] \in Event
  BY <1>3 DEF ToSet
<1>5. Effected(script, page', p, message)
  BY <1>1, <1>2, <1>4, CommittedLists
<1>6. GoodPage(page') /\ page'.store.runs = p.store.runs /\ p.queue \in Seq(Event) /\ p.buffer \in Seq(Event)
  BY <1>5, PageIs DEF Effected
<1>7. /\ InLine(script, page'.queue, got) /\ Through(page'.queue, got) \subseteq Through(p.queue, got)
      /\ InLine(script, page'.buffer, got) /\ Through(page'.buffer, got) \subseteq Through(p.buffer, got)
  <2>1. InLine(script, p.queue, got)
    BY DEF StraightInv
  <2>2. CASE n = 0
    <3>1. page'.queue = p.queue /\ page'.buffer = p.buffer
      BY <1>2, <1>5, <2>2 DEF Effected
    <3> QED
      BY <2>1, <3>1
  <2>3. CASE n # 0
    <3>1. /\ Pushed(script, page'.queue, p.queue, script[n]) /\ ToSet(p.queue) \subseteq ToSet(page'.queue)
          /\ Pushed(script, page'.buffer, p.buffer, script[n])
      BY <1>2, <1>3, <1>4, <1>5, <2>3 DEF Effected
    <3> QED
      BY <1>1, <1>2, <1>4, <1>6, <2>1, <2>3, <3>1, MessageInLine
  <2> QED
    BY <2>2, <2>3
<1>8. \A e \in Through(page'.queue, got) : Shows(motion[Info[e].trace], e)
  BY <1>7 DEF StraightInv
<1>9. /\ FailsTold(page'.store.runs, got, answered')
      /\ \A e \in Through(page'.buffer, got) : Info[e].trace \notin answered' => Recorded(page'.store.runs, e)
  BY <1>6, <1>7
<1>10. \A t \in Trace : Founded(motion[t])
  BY DEF StraightInv
<1> QED
  BY <1>2, <1>7, <1>8, <1>9, <1>10 DEF StraightInv

LEMMA FlushViews ==
  ASSUME RunsInOrder, PageInv, StraightInv, FlushTick, lost' = {}
  PROVE  StraightInv'
<1> DEFINE stale == ToSet(SubSeq(script, 1, old))
           st == CleanupStale(page.store, stale)
           full == AddBatch(st, page.buffer)
           p == IF st.mode = "PAUSED" THEN [page EXCEPT !.store = st]
                ELSE [page EXCEPT !.store = full, !.buffer = <<>>]
<1>1. /\ Task(p) /\ got' = got /\ script' = script /\ message' = message /\ motion' = motion /\ answered' = answered
      /\ GoodPage(page) /\ script \in Scripts
  BY DEF FlushTick, PageInv, StreamInv, history, backend, views
<1> HIDE DEF stale
<1>2. Whole(st) /\ Sized(st) /\ st.runs = page.store.runs
  BY <1>1, PageIs, CleanedUp
<1> HIDE DEF st
<1>3. /\ InLine(script, page.buffer, got) /\ FailsTold(st.runs, got, answered)
      /\ \A e \in Through(page.buffer, got) : Info[e].trace \notin answered => Recorded(st.runs, e)
  BY <1>2 DEF StraightInv
<1>4. got \in SUBSET ToSet(script)
  <2>1. PICK n \in 0 .. Len(script) : got = SoFar(script, n)
    BY DEF StraightInv
  <2> QED
    BY <1>1, <2>1, SoFarIs
<1>5. CASE st.mode = "PAUSED"
  <2>1. p = [page EXCEPT !.store = st]
    BY <1>5
  <2> HIDE DEF p
  <2>2. GoodPage(p) /\ p.store = st /\ p.queue = page.queue /\ p.buffer = page.buffer
    BY <1>1, <1>2, <2>1, Lists
  <2> QED
    BY <1>1, <1>3, <2>2, TaskViews
<1>6. CASE st.mode # "PAUSED"
  <2>1. p = [page EXCEPT !.store = full, !.buffer = <<>>]
    BY <1>6
  <2> HIDE DEF p
  <2>2. page.buffer \in Seq(Event)
    BY <1>1, PageIs
  <2>3. Whole(full) /\ Sized(full)
    BY <1>2, <1>6, <2>2, StoringWhole
  <2>4. /\ FailsTold(full.runs, got, answered)
        /\ \A e \in got \cap Telling : Info[e].trace \notin answered => Recorded(full.runs, e)
    BY <1>1, <1>2, <1>3, <1>4, <1>6, <2>2, StoringTells
  <2> HIDE DEF full
  <2>5. p = [queue |-> page.queue, buffer |-> <<>>, store |-> full, graphing |-> page.graphing, timer |-> page.timer]
    BY <1>1, <2>1 DEF GoodPage, Pages
  <2>6. GoodPage(p) /\ p.store = full /\ p.queue = page.queue /\ p.buffer = <<>>
    <3>1. full \in Stores /\ <<>> \in Seq(Event)
      BY <2>3 DEF Whole
    <3>2. p \in Pages
      BY <1>1, <2>5, <3>1, PageIs DEF Pages
    <3> QED
      BY <2>3, <2>5, <3>2 DEF GoodPage
  <2>7. /\ InLine(script, p.buffer, got) /\ FailsTold(p.store.runs, got, answered')
        /\ \A e \in Through(p.buffer, got) : Info[e].trace \notin answered' => Recorded(p.store.runs, e)
    <3>1. ToSet(p.buffer) = {} /\ DOMAIN p.buffer = {}
      BY <2>6 DEF ToSet
    <3>2. InLine(script, p.buffer, got)
      BY <3>1 DEF InLine, Lined
    <3>3. Through(p.buffer, got) \subseteq got \cap Telling
      BY DEF Through
    <3> QED
      BY <1>1, <2>4, <2>6, <3>2, <3>3
  <2> QED
    BY <1>1, <2>6, <2>7, TaskViews
<1> QED
  BY <1>5, <1>6

(* The answer to Run is about one run.                                     *)
LEMMA ApiRunElsewhere ==
  ASSUME NEW st, Whole(st), Sized(st), NEW t \in Trace, NEW status \in {"completed", "failed"}, NEW n \in Nat \cup {None},
         NEW r, r = RunFromApi(st, t, status, n)
  PROVE  \A u \in Trace : u # t => /\ u \in DOMAIN r.runs <=> u \in DOMAIN st.runs
                                   /\ u \in DOMAIN r.runs => r.runs[u] = st.runs[u]
<1> DEFINE steps == IF n = None THEN RunOf(st.runs, t).steps ELSE [i \in 1..n |-> "api"]
           run == [status |-> status, ended |-> TRUE, steps |-> steps]
           runs == Put(st.runs, t, run)
<1>1. r = [st EXCEPT !.runs = runs]
  BY DEF RunFromApi
<1> HIDE DEF run
<1>2. runs = [x \in DOMAIN st.runs \cup {t} |-> IF x \in {t} THEN run ELSE st.runs[x]]
  <2>1. DOMAIN [y \in {t} |-> run] = {t} /\ \A x \in {t} : [y \in {t} |-> run][x] = run
    OBVIOUS
  <2> QED
    BY <2>1 DEF Put, Over
<1> HIDE DEF runs
<1>3. r.runs = runs
  <2>1. st \in Stores
    BY DEF Whole
  <2> QED
    BY <1>1, <2>1 DEF Stores
<1> QED
  BY <1>2, <1>3

LEMMA ClickViews ==
  ASSUME PageInv, StraightInv, Toggle \/ ToggleFollow \/ (\E e \in Event : SelectEvent(e)) \/ (\E t \in Trace : Answer(t)),
         lost' = {}
  PROVE  StraightInv'
<1>0. GoodPage(page) /\ Whole(page.store) /\ Sized(page.store) /\ script \in Scripts
  BY PageIs DEF PageInv, StreamInv
<1>1. got' = got /\ script' = script /\ message' = message /\ motion' = motion /\ answered \subseteq answered'
  BY DEF Toggle, ToggleFollow, SelectEvent, Answer, history, backend, views
<1>2. /\ InLine(script, page.buffer, got)
      /\ FailsTold(page.store.runs, got, answered) /\ FailsTold(page.store.runs, got, answered')
      /\ \A e \in Through(page.buffer, got) : Info[e].trace \notin answered => Recorded(page.store.runs, e)
  <2>1. FailsTold(page.store.runs, got, answered)
    BY DEF StraightInv
  <2> QED
    BY <1>1, <2>1 DEF StraightInv, FailsTold
<1>3. ASSUME NEW p, GoodPage(p), Task(p), p.queue = page.queue, p.buffer = page.buffer, p.store.runs = page.store.runs
      PROVE  StraightInv'
  <2>1. \A e \in Through(p.buffer, got) : Info[e].trace \notin answered' => Recorded(p.store.runs, e)
    BY <1>1, <1>2, <1>3
  <2>2. InLine(script, p.buffer, got) /\ FailsTold(p.store.runs, got, answered')
    BY <1>2, <1>3
  <2> QED
    BY <1>1, <1>3, <2>1, <2>2, TaskViews
<1>4. CASE Toggle
  <2> DEFINE st == Toggled(page.store)
             p == [page EXCEPT !.store = st]
  <2>1. Task(p)
    BY <1>4 DEF Toggle
  <2>2. Whole(st) /\ Sized(st) /\ st.runs = page.store.runs
    BY <1>0, ToggledWhole
  <2> HIDE DEF st
  <2>3. GoodPage(p) /\ p.store = st /\ p.queue = page.queue /\ p.buffer = page.buffer
    BY <1>0, <2>2, Lists
  <2> HIDE DEF p
  <2> QED
    BY <1>3, <2>1, <2>2, <2>3
<1>5. CASE ToggleFollow
  <2>1. Task(page)
    BY <1>5 DEF ToggleFollow
  <2> QED
    BY <1>0, <1>3, <2>1
<1>6. ASSUME NEW e \in Event, SelectEvent(e) PROVE StraightInv'
  <2> DEFINE st == [page.store EXCEPT !.selectedEvent = e]
             s == [page EXCEPT !.store = st]
             p == Selected(s, Info[e].trace)
  <2>1. Task(p) /\ e \in page.store.events
    BY <1>6 DEF SelectEvent
  <2>2. Whole(st) /\ Sized(st) /\ st.runs = page.store.runs
    BY <1>0, <2>1, PointedWhole
  <2> HIDE DEF st
  <2>3. GoodPage(s) /\ s.store = st /\ s.queue = page.queue /\ s.buffer = page.buffer
    BY <1>0, <2>2, Lists
  <2> HIDE DEF s
  <2>4. GoodPage(p) /\ p.store.runs = s.store.runs /\ p.queue = s.queue /\ p.buffer = s.buffer
    BY <2>3, InfoIs, SelectedLists
  <2> HIDE DEF p
  <2> QED
    BY <1>3, <2>1, <2>2, <2>3, <2>4
<1>7. ASSUME NEW t \in Trace, Answer(t) PROVE StraightInv'
  <2>1. PICK status \in {"completed", "failed"}, n \in {None, 0, 1} :
          Task(Selected([page EXCEPT !.store = RunFromApi(page.store, t, status, n)], t))
    BY <1>7 DEF Answer
  <2> DEFINE st == RunFromApi(page.store, t, status, n)
             s == [page EXCEPT !.store = st]
             p == Selected(s, t)
  <2>2. Task(p) /\ answered' = answered \cup {t}
    BY <1>7, <2>1 DEF Answer
  <2>3. Whole(st) /\ Sized(st)
    <3>1. n \in Nat \cup {None}
      OBVIOUS
    <3> QED
      BY <1>0, <3>1, ApiRunIs
  <2>4. \A u \in Trace : u # t => /\ u \in DOMAIN st.runs <=> u \in DOMAIN page.store.runs
                                  /\ u \in DOMAIN st.runs => st.runs[u] = page.store.runs[u]
    <3>1. n \in Nat \cup {None}
      OBVIOUS
    <3> QED
      BY <1>0, <3>1, ApiRunElsewhere
  <2>5. DOMAIN st.runs \subseteq Trace
    BY <2>3, StoreIs, TraceMapIs DEF Whole
  <2> HIDE DEF st
  <2>6. GoodPage(s) /\ s.store = st /\ s.queue = page.queue /\ s.buffer = page.buffer
    BY <1>0, <2>3, Lists
  <2> HIDE DEF s
  <2>7. GoodPage(p) /\ p.store.runs = s.store.runs /\ p.queue = s.queue /\ p.buffer = s.buffer
    BY <2>6, SelectedLists
  <2> HIDE DEF p
  <2>8. FailsTold(st.runs, got, answered')
    BY <1>2, <2>2, <2>4, <2>5 DEF FailsTold
  <2>9. \A e \in Through(page.buffer, got) : Info[e].trace \notin answered' => Recorded(st.runs, e)
    <3> SUFFICES ASSUME NEW e \in Through(page.buffer, got), Info[e].trace \notin answered' PROVE Recorded(st.runs, e)
      OBVIOUS
    <3>1. e \in Event
      BY DEF Through, Telling
    <3>2. Info[e].trace \in Trace /\ Info[e].trace # t /\ Recorded(page.store.runs, e)
      BY <1>2, <2>2, <3>1, InfoIs
    <3> QED
      BY <2>4, <3>2 DEF Recorded
  <2> QED
    BY <1>1, <1>2, <2>2, <2>6, <2>7, <2>8, <2>9, TaskViews
<1> QED
  BY <1>4, <1>5, <1>6, <1>7

LEMMA RenderViews ==
  ASSUME PageInv, ViewsInv, StraightInv, Render, straight', lost' = {}
  PROVE  StraightInv'
<1>1. /\ page' = Committed(EventEffect(page, pending), pending, page)
      /\ ToSet(page.buffer) \subseteq ToSet(page'.buffer)
      /\ pending # None /\ message' = pending /\ got' = got \cup {pending} /\ pending \notin got
      /\ got' = ToSet(SubSeq(script, 1, Cardinality(got')))
      /\ script' = script /\ motion' = motion /\ answered' = answered
      /\ GoodPage(page) /\ script \in Scripts /\ pending \in ToSet(script)
  BY DEF Render, PageInv, StreamInv, ViewsInv, backend, views
<1>2. PICK n \in 0 .. Len(script) : got = SoFar(script, n)
  BY DEF StraightInv
<1>3. n + 1 \in 0 .. Len(script) /\ pending = script[n + 1] /\ got' = SoFar(script, n + 1)
  <2>1. PICK G : G = got'
    OBVIOUS
  <2>2. G = SoFar(script, n) \cup {pending} /\ G = ToSet(SubSeq(script, 1, Cardinality(G)))
        /\ pending \in ToSet(script) \ SoFar(script, n)
    BY <1>1, <1>2, <2>1
  <2>3. n + 1 \in 0 .. Len(script) /\ pending = script[n + 1] /\ G = SoFar(script, n + 1)
    BY <1>1, <2>2, NextMessage
  <2> QED
    BY <2>1, <2>3
<1>4. n \in Nat /\ n + 1 # 0 /\ n \in 0 .. (n + 1) /\ n + 1 \in 1 .. Len(script)
  BY <1>3
<1> DEFINE q == EventEffect(page, pending)
<1>5. /\ Effected(script, q, page, pending)
      /\ pending \in Telling => pending \in ToSet(q.queue) /\ pending \in ToSet(q.buffer)
  BY <1>1, EffectLists
<1> HIDE DEF q
<1>6. Effected(script, page', q, pending)
  BY <1>1, <1>5, CommittedLists DEF q, Effected
<1>7. Effected(script, page', page, pending)
  <2>1. Place(script, pending) \in Nat
    BY <1>1, PlaceOf
  <2> QED
    BY <1>5, <1>6, <2>1, EffectedTwice
<1>8. /\ Pushed(script, page'.queue, page.queue, script[n + 1]) /\ ToSet(page.queue) \subseteq ToSet(page'.queue)
      /\ Pushed(script, page'.buffer, page.buffer, script[n + 1]) /\ page'.store.runs = page.store.runs
      /\ ToSet(q.queue) \subseteq ToSet(page'.queue)
      /\ page'.buffer = q.buffer \/ script[n + 1] \in ToSet(page'.buffer)
  BY <1>1, <1>3, <1>6, <1>7 DEF Effected, Pushed
<1>9. script[n + 1] \in Telling => script[n + 1] \in ToSet(page'.queue) /\ script[n + 1] \in ToSet(page'.buffer)
  BY <1>3, <1>5, <1>8
<1>10. SoFar(script, n + 1) = SoFar(script, n) \cup {script[n + 1]}
  BY <1>1, <1>2, <1>3
<1>11. /\ InLine(script, page'.queue, got') /\ Through(page'.queue, got') \subseteq Through(page.queue, got)
       /\ InLine(script, page'.buffer, got') /\ Through(page'.buffer, got') \subseteq Through(page.buffer, got)
  <2>1. page.queue \in Seq(Event) /\ page.buffer \in Seq(Event)
    BY <1>1, PageIs
  <2>2. InLine(script, page.queue, SoFar(script, n)) /\ InLine(script, page.buffer, SoFar(script, n))
    BY <1>2 DEF StraightInv
  <2>3. /\ InLine(script, page'.queue, SoFar(script, n + 1))
        /\ Through(page'.queue, SoFar(script, n + 1)) \subseteq Through(page.queue, SoFar(script, n))
    BY <1>1, <1>4, <1>8, <1>9, <1>10, <2>1, <2>2, StaysInLine
  <2>4. /\ InLine(script, page'.buffer, SoFar(script, n + 1))
        /\ Through(page'.buffer, SoFar(script, n + 1)) \subseteq Through(page.buffer, SoFar(script, n))
    BY <1>1, <1>4, <1>8, <1>9, <1>10, <2>1, <2>2, StaysInLine
  <2> QED
    BY <1>2, <1>3, <2>3, <2>4
<1>12. \A e \in Through(page'.queue, got') : Shows(motion[Info[e].trace], e)
  BY <1>11 DEF StraightInv
<1>13. \A e \in Through(page'.buffer, got') : Info[e].trace \notin answered => Recorded(page'.store.runs, e)
  BY <1>8, <1>11 DEF StraightInv
<1>14. FailsTold(page'.store.runs, got', answered)
  BY <1>1, <1>8 DEF StraightInv, FailsTold
<1>15. \A t \in Trace : Founded(motion[t])
  BY DEF StraightInv
<1> QED
  BY <1>1, <1>3, <1>4, <1>11, <1>12, <1>13, <1>14, <1>15 DEF StraightInv

LEMMA PlayViews ==
  ASSUME RunsInOrder, PageInv, ViewsInv, PlayTick
  PROVE  /\ motion' = [t \in Trace |-> motion'[t]] /\ \A t \in Trace : IsMotion(motion'[t])
         /\ straight /\ lost = {} => StraightInv'
<1> DEFINE e == Head(page.queue)
           w == Moved(motion[Info[e].trace], Info[e].kind, StepOf[e])
<1>1. /\ page.queue # <<>> /\ motion' = [motion EXCEPT ![Info[e].trace] = w]
      /\ page' = [page EXCEPT !.queue = Tail(page.queue)]
      /\ got' = got /\ script' = script /\ message' = message /\ answered' = answered
      /\ GoodPage(page) /\ script \in Scripts
  BY DEF PlayTick, PageInv, StreamInv, history, backend
<1>2. page'.queue = Tail(page.queue) /\ page'.buffer = page.buffer /\ page'.store = page.store
  BY <1>1, PageIs
<1>3. motion = [t \in Trace |-> motion[t]] /\ \A t \in Trace : IsMotion(motion[t])
  BY DEF ViewsInv
<1>4. page.queue \in Seq(Event) /\ e \in Event
  BY <1>1, PageIs
<1>5. Info[e].trace \in Trace
  BY <1>4, InfoIs
<1>6. IsMotion(w)
  <2>1. PICK m1 : m1 = motion[Info[e].trace]
    OBVIOUS
  <2>2. IsMotion(m1)
    BY <1>3, <1>5, <2>1
  <2>3. IsMotion(Moved(m1, Info[e].kind, StepOf[e]))
    BY <2>2, MovedTyped
  <2> QED
    BY <2>1, <2>3
<1>7. motion' = [t \in Trace |-> motion'[t]] /\ \A t \in Trace : IsMotion(motion'[t])
  <2> HIDE DEF w, e
  <2>1. motion' = [t \in Trace |-> IF t = Info[e].trace THEN w ELSE motion[t]]
    BY <1>1, <1>3, <1>5
  <2> QED
    BY <1>3, <1>6, <2>1
<1>8. ASSUME StraightInv PROVE StraightInv'
  <2>1. PICK n \in 0 .. Len(script) : got = SoFar(script, n) /\ message = IF n = 0 THEN None ELSE script[n]
    BY <1>8 DEF StraightInv
  <2>2. /\ InLine(script, page.queue, got) /\ \A t \in Trace : Founded(motion[t])
        /\ \A d \in Through(page.queue, got) : Shows(motion[Info[d].trace], d)
    BY <1>8 DEF StraightInv
  <2>3. InLine(script, Tail(page.queue), got)
    <3>1. got \in SUBSET ToSet(script)
      BY <1>1, <2>1, SoFarIs
    <3> QED
      BY <1>1, <1>4, <2>2, <3>1, HeadLeaves
  <2>4. PICK r : r = motion'
    OBVIOUS
  <2>5. /\ \A t \in Trace : Founded(r[t])
        /\ \A d \in Through(Tail(page.queue), got) : Shows(r[Info[d].trace], d)
    <3>1. PICK Q, mo, G : Q = page.queue /\ mo = motion /\ G = got
      OBVIOUS
    <3>2. /\ Q \in Seq(Event) /\ Q # <<>> /\ G = SoFar(script, n) /\ InLine(script, Q, G)
          /\ mo = [t \in Trace |-> mo[t]] /\ \A t \in Trace : IsMotion(mo[t]) /\ Founded(mo[t])
          /\ \A d \in Through(Q, G) : Shows(mo[Info[d].trace], d)
          /\ r = Played(mo, Head(Q))
      BY <1>1, <1>3, <1>4, <2>1, <2>2, <2>4, <3>1 DEF Played
    <3>3. /\ \A t \in Trace : Founded(r[t])
          /\ \A d \in Through(Tail(Q), G) : Shows(r[Info[d].trace], d)
      BY <1>1, <3>2, PlayShows
    <3> QED
      BY <3>1, <3>3
  <2>6. /\ InLine(script, page.buffer, got) /\ FailsTold(page.store.runs, got, answered)
        /\ \A d \in Through(page.buffer, got) : Info[d].trace \notin answered => Recorded(page.store.runs, d)
    BY <1>8 DEF StraightInv
  <2> HIDE DEF e, w
  <2> QED
    BY <1>1, <1>2, <2>1, <2>3, <2>4, <2>5, <2>6 DEF StraightInv
<1> QED
  BY <1>7, <1>8 DEF ViewsInv

LEMMA ViewsInitInv == PageInit => ViewsInv
<1> SUFFICES ASSUME PageInit PROVE ViewsInv
  OBVIOUS
<1>1. /\ script \in Scripts /\ message = None /\ pending = None /\ got = {} /\ straight = TRUE /\ answered = {}
      /\ motion = [t \in Trace |-> EmptyMotion]
      /\ page = [queue |-> <<>>, buffer |-> <<>>, store |-> EmptyStore, graphing |-> <<>>, timer |-> TRUE]
  BY DEF PageInit
<1>2. Len(script) \in Nat /\ 0 \in 0 .. Len(script) /\ SoFar(script, 0) = {}
  BY <1>1, ScriptAssumption DEF SoFar
<1>3. IsMotion(EmptyMotion) /\ EmptyMotion.at = NoNode /\ DOMAIN EmptyMotion.nodes = {}
  BY DEF EmptyMotion, IsMotion
<1> HIDE DEF EmptyMotion
<1>4. \A t \in Trace : motion[t] = EmptyMotion
  BY <1>1
<1>5. /\ page.queue = <<>> /\ page.buffer = <<>> /\ page.store.runs = <<>> /\ DOMAIN <<>> = {}
      /\ ToSet(<<>>) = {}
  BY <1>1 DEF EmptyStore, ToSet
<1>6. InLine(script, page.queue, got) /\ InLine(script, page.buffer, got)
  BY <1>1, <1>5 DEF InLine, Lined
<1>7. Through(page.queue, got) = {} /\ Through(page.buffer, got) = {} /\ FailsTold(page.store.runs, got, answered)
  BY <1>1, <1>5 DEF Through, FailsTold
<1>8. StraightInv
  BY <1>1, <1>2, <1>3, <1>4, <1>6, <1>7 DEF StraightInv, Founded
<1> QED
  BY <1>1, <1>3, <1>4, <1>8 DEF ViewsInv

LEMMA ViewsStep == ASSUME RunsInOrder, PageInv, ViewsInv, [PageNext]_vars PROVE ViewsInv'
<1>0. /\ straight \in BOOLEAN /\ pending \in ToSet(script) \cup {None}
      /\ motion = [t \in Trace |-> motion[t]] /\ \A t \in Trace : IsMotion(motion[t])
      /\ straight /\ lost = {} => StraightInv
  BY DEF ViewsInv
<1>1. ASSUME motion' = motion, straight' = straight, script' = script, pending' = pending, lost \subseteq lost',
             straight /\ lost' = {} /\ StraightInv => StraightInv'
      PROVE  ViewsInv'
  <2>1. straight' /\ lost' = {} => StraightInv'
    BY <1>0, <1>1
  <2> QED
    BY <1>0, <1>1, <2>1 DEF ViewsInv
<1>2. ASSUME UNCHANGED <<script, message, got, motion, answered>>, page'.queue = page.queue,
             page'.buffer = page.buffer, page'.store = page.store, StraightInv
      PROVE  StraightInv'
  BY <1>2 DEF StraightInv
<1>3. CASE Publish \/ Connection \/ Age \/ GraphTick \/ (\E s \in Snapshots : AgentsArrive(s)) \/ UNCHANGED vars
  <2>1. UNCHANGED <<script, message, got, motion, answered, straight, pending, lost>>
    BY <1>3 DEF Publish, Connection, Age, GraphTick, AgentsArrive, vars, history, backend, views
  <2>2. page'.queue = page.queue /\ page'.buffer = page.buffer /\ page'.store = page.store
    <3>1. GoodPage(page)
      BY DEF PageInv
    <3>2. \/ page' = page \/ page' = [page EXCEPT !.graphing = <<>>, !.timer = FALSE]
          \/ page' = [page EXCEPT !.timer = TRUE]
      BY <1>3 DEF Publish, Connection, Age, GraphTick, AgentsArrive, vars
    <3>3. PICK p : p = page
      OBVIOUS
    <3>4. p = [queue |-> p.queue, buffer |-> p.buffer, store |-> p.store, graphing |-> p.graphing, timer |-> p.timer]
      BY <3>1, <3>3, PageIs
    <3> QED
      BY <3>2, <3>3, <3>4
  <2> QED
    BY <1>1, <1>2, <2>1, <2>2
<1>4. ASSUME NEW s \in Socket, OnMessage(s) PROVE ViewsInv'
  <2>1. /\ UNCHANGED <<script, message, got, motion, answered, straight, page>> /\ lost \subseteq lost'
        /\ at[s] < issued /\ at' = [at EXCEPT ![s] = at[s] + 1] /\ pending' = script[at'[s]]
    BY <1>4 DEF OnMessage, history, views
  <2>2. script \in Scripts /\ issued \in 0 .. Len(script) /\ at \in [Socket -> 0 .. issued]
    BY DEF PageInv, StreamInv
  <2>3. at'[s] \in 1 .. Len(script) /\ DOMAIN script = 1 .. Len(script)
    BY <2>1, <2>2, ScriptAssumption
  <2>4. pending' \in ToSet(script)
    BY <2>1, <2>3 DEF ToSet
  <2>5. straight /\ lost' = {} => StraightInv'
    BY <1>0, <1>2, <2>1
  <2> QED
    BY <1>0, <2>1, <2>4, <2>5 DEF ViewsInv
<1>5. CASE Render
  <2>1. /\ script' = script /\ motion' = motion /\ pending' = None /\ straight' \in BOOLEAN /\ (straight' => straight)
        /\ lost \subseteq lost'
    BY <1>0, <1>5 DEF Render, backend, views
  <2>2. straight' /\ lost' = {} => StraightInv'
    BY <1>0, <1>5, <2>1, RenderViews
  <2> QED
    BY <1>0, <2>1, <2>2 DEF ViewsInv
<1>6. CASE FlushTick
  <2>1. UNCHANGED <<script, motion, straight, pending>> /\ lost \subseteq lost'
    BY <1>6 DEF FlushTick, Task, history, backend, views
  <2> QED
    BY <1>1, <1>6, <2>1, FlushViews
<1>7. CASE Toggle \/ ToggleFollow \/ (\E e \in Event : SelectEvent(e)) \/ (\E t \in Trace : Answer(t))
  <2>1. UNCHANGED <<script, motion, straight, pending>> /\ lost \subseteq lost'
    BY <1>7 DEF Toggle, ToggleFollow, SelectEvent, Answer, Task, history, backend, views
  <2> QED
    BY <1>1, <1>7, <2>1, ClickViews
<1>8. CASE PlayTick
  <2>1. UNCHANGED <<script, straight, pending, lost>>
    BY <1>8 DEF PlayTick, history, backend
  <2> QED
    BY <1>0, <1>8, <2>1, PlayViews DEF ViewsInv
<1> QED
  BY <1>3, <1>4, <1>5, <1>6, <1>7, <1>8 DEF PageNext

(* The animation and the history of runs say the same of how a run ended   *)
(* once both are through, for any events, limits, clicks and answers, if   *)
(* the messages came one by one in the order the backend publishes them    *)
(* (useBufferedStream, the playback queue, eventToMotionMapper and         *)
(* upsertRunHistoryFromEvent): whichever is paused, delayed, evicted or    *)
(* told the same message twice.                                            *)
THEOREM ViewsAlwaysAgree == RunsInOrder => (PageSpec => []ViewsAgree)
<1> SUFFICES ASSUME RunsInOrder PROVE PageSpec => []ViewsAgree
  OBVIOUS
<1>1. ASSUME PageInv, ViewsInv PROVE ViewsAgree
  <2> SUFFICES ASSUME Quiet, straight, lost = {}, NEW e \in Ends, Info[e].trace \notin answered
               PROVE  LET states == Range(motion[Info[e].trace].nodes)
                      IN IF page.store.runs[Info[e].trace].status = "completed"
                         THEN states \subseteq {"completed"} ELSE states = {} \/ "failed" \in states
    BY DEF ViewsAgree
  <2>1. StraightInv
    BY <1>1 DEF ViewsInv
  <2>2. e \in got /\ e \in Event /\ Kind(e) \in {"SWARM_COMPLETED", "SWARM_FAILED"} /\ e \in Telling
    BY <1>1 DEF Ends, Kind, Telling, PageInv, StreamInv
  <2>3. e \in Through(page.queue, got) /\ e \in Through(page.buffer, got)
    BY <2>2 DEF Through, Quiet, ToSet
  <2>4. Shows(motion[Info[e].trace], e) /\ Recorded(page.store.runs, e)
    BY <2>1, <2>3 DEF StraightInv
  <2> DEFINE nodes == motion[Info[e].trace].nodes
  <2>5. Range(nodes) = {nodes[x] : x \in DOMAIN nodes}
    BY DEF Range
  <2>6. CASE Kind(e) = "SWARM_COMPLETED"
    BY <2>4, <2>5, <2>6 DEF Shows, Recorded
  <2>7. CASE Kind(e) = "SWARM_FAILED"
    BY <2>4, <2>5, <2>7 DEF Shows, Recorded
  <2> QED
    BY <2>2, <2>6, <2>7
<1>2. PageInit => ViewsInv
  BY ViewsInitInv
<1>3. PageInv /\ ViewsInv /\ [PageNext]_vars => ViewsInv'
  BY ViewsStep
<1> QED
  BY <1>1, <1>2, <1>3, PageInvariant, PTL DEF PageSpec

-----------------------------------------------------------------------------
(* The graph                                                               *)

Maps(A, V) == UNION {[D -> V] : D \in SUBSET A}

(* Every agent an event or a snapshot may name, and what is shown of one.  *)
Named ==
  {Says[e].agent : e \in Event} \cup {Says[e].from : e \in Event} \cup {Says[e].to : e \in Event}
    \cup UNION {DOMAIN s : s \in Snapshots}
Shown ==
  {"FAILED", "DEGRADED", "ACTIVE"} \cup UNION {{s[a] : a \in DOMAIN s} : s \in Snapshots}
Lines == Named \X Named \X {"TASK_HANDOFF", "FLOW_EVENT"}

Graphs ==
  [nodes : Maps(Named, Shown), edges : Maps(Lines, Nat), unresolved : SUBSET Event, last : Maps(Trace, Named)]

HandoffsOf(D) == {e \in D : IsHandoff(e)}
HandoffLines(edges) == {x \in DOMAIN edges : x[3] = "TASK_HANDOFF"}
Drawings(edges) == SumOver(edges, HandoffLines(edges))

(* What g makes of the events D that it was given: each handoff is drawn   *)
(* once or waits.                                                          *)
Accounts(g, D) ==
  /\ g \in Graphs /\ IsFiniteSet(DOMAIN g.edges)
  /\ D \in SUBSET Event /\ IsFiniteSet(D) /\ g.unresolved \subseteq HandoffsOf(D)
  /\ Drawings(g.edges) + Cardinality(g.unresolved) = Cardinality(HandoffsOf(D))

LEMMA MapIs ==
  ASSUME NEW A, NEW V, NEW f
  PROVE  f \in Maps(A, V) <=> DOMAIN f \in SUBSET A /\ f \in [DOMAIN f -> V]
<1>1. ASSUME f \in Maps(A, V) PROVE DOMAIN f \in SUBSET A /\ f \in [DOMAIN f -> V]
  <2>1. PICK D \in SUBSET A : f \in [D -> V]
    BY <1>1 DEF Maps
  <2>2. DOMAIN f = D
    BY <2>1
  <2> QED
    BY <2>1, <2>2
<1>2. ASSUME DOMAIN f \in SUBSET A, f \in [DOMAIN f -> V] PROVE f \in Maps(A, V)
  BY <1>2 DEF Maps
<1> QED
  BY <1>1, <1>2

IntoMap(g, A, V) == DOMAIN g \in SUBSET A /\ \A x \in DOMAIN g : g[x] \in V
IsOver(r, f, g) ==
  /\ DOMAIN r = DOMAIN f \cup DOMAIN g
  /\ \A x \in DOMAIN r : r[x] = IF x \in DOMAIN g THEN g[x] ELSE f[x]

LEMMA OverIs ==
  ASSUME NEW A, NEW V, NEW f \in Maps(A, V), NEW g, IntoMap(g, A, V)
  PROVE  Over(f, g) \in Maps(A, V) /\ IsOver(Over(f, g), f, g)
<1>0. DOMAIN g \in SUBSET A /\ \A x \in DOMAIN g : g[x] \in V
  BY DEF IntoMap
<1> DEFINE r == Over(f, g)
<1>1. DOMAIN f \in SUBSET A /\ f \in [DOMAIN f -> V]
  BY MapIs
<1>2. r = [x \in DOMAIN f \cup DOMAIN g |-> IF x \in DOMAIN g THEN g[x] ELSE f[x]]
  BY DEF Over
<1> HIDE DEF r
<1>3. DOMAIN r = DOMAIN f \cup DOMAIN g /\ r \in [DOMAIN r -> V]
  BY <1>0, <1>1, <1>2
<1>4. r \in Maps(A, V)
  BY <1>0, <1>1, <1>3, MapIs
<1>5. IsOver(r, f, g)
  BY <1>2, <1>3 DEF IsOver
<1> QED
  BY <1>4, <1>5 DEF r

PutIn(r, f, x, v, A, V) ==
  /\ r \in Maps(A, V) /\ DOMAIN r = DOMAIN f \cup {x} /\ r[x] = v
  /\ \A y \in DOMAIN f \ {x} : r[y] = f[y]

LEMMA PutInMap ==
  ASSUME NEW A, NEW V, NEW f \in Maps(A, V), NEW x \in A, NEW v \in V
  PROVE  PutIn(Put(f, x, v), f, x, v, A, V)
<1> DEFINE g == [y \in {x} |-> v]
           r == Put(f, x, v)
<1>1. DOMAIN g = {x} /\ g[x] = v
  OBVIOUS
<1>2. r = Over(f, g)
  BY DEF Put
<1> HIDE DEF g, r
<1>4. IntoMap(g, A, V)
  BY <1>1 DEF IntoMap
<1>5. r \in Maps(A, V) /\ IsOver(r, f, g)
  BY <1>2, <1>4, OverIs
<1>3. /\ r \in Maps(A, V) /\ DOMAIN r = DOMAIN f \cup DOMAIN g
      /\ \A y \in DOMAIN r : r[y] = IF y \in DOMAIN g THEN g[y] ELSE f[y]
  BY <1>5 DEF IsOver
<1>6. PutIn(r, f, x, v, A, V)
  BY <1>1, <1>3 DEF PutIn
<1> QED
  BY <1>6 DEF r

LEMMA GraphIs ==
  ASSUME NEW g \in Graphs
  PROVE  /\ g = [nodes |-> g.nodes, edges |-> g.edges, unresolved |-> g.unresolved, last |-> g.last]
         /\ g.nodes \in Maps(Named, Shown) /\ g.edges \in Maps(Lines, Nat)
         /\ g.unresolved \in SUBSET Event /\ g.last \in Maps(Trace, Named)
BY DEF Graphs

LEMMA NamesIs ==
  ASSUME NEW e \in Event
  PROVE  /\ Says[e].agent \in Named /\ Says[e].from \in Named /\ Says[e].to \in Named
         /\ Agents(e) \in SUBSET Named /\ Info[e].trace \in Trace
  BY StoreAssumption DEF Named, Agents

(* A graph with finitely many lines, and what is drawn of one: nothing     *)
(* without its ends, else once more.                                       *)
Drawable(g) == g \in Graphs /\ IsFiniteSet(DOMAIN g.edges)
LineTypes == {"TASK_HANDOFF", "FLOW_EVENT"}
DrawnFrom(r, g, from, to, type) ==
  /\ Drawable(r) /\ r.nodes = g.nodes /\ r.unresolved = g.unresolved /\ r.last = g.last
  /\ Drawings(g.edges) \in Int /\ Drawings(r.edges) \in Int
  /\ Drawings(r.edges) = Drawings(g.edges)
       + (IF type = "TASK_HANDOFF" /\ {from, to} \subseteq DOMAIN g.nodes THEN 1 ELSE 0)

LEMMA EdgeIs ==
  ASSUME NEW g, Drawable(g), NEW from \in Named, NEW to \in Named, NEW type \in LineTypes
  PROVE  DrawnFrom(EdgeDrawn(g, from, to, type), g, from, to, type)
<1>0. g \in Graphs /\ IsFiniteSet(DOMAIN g.edges)
  BY DEF Drawable
<1> DEFINE x == <<from, to, type>>
           f == g.edges
           v == 1 + IF x \in DOMAIN f THEN f[x] ELSE 0
           h == Put(f, x, v)
           r == EdgeDrawn(g, from, to, type)
<1>1. /\ g = [nodes |-> g.nodes, edges |-> f, unresolved |-> g.unresolved, last |-> g.last]
      /\ f \in Maps(Lines, Nat)
  BY <1>0, GraphIs
<1>2. x \in Lines /\ x[3] = type
  BY DEF Lines, LineTypes
<1>3. DOMAIN f \in SUBSET Lines /\ f \in [DOMAIN f -> Nat]
  BY <1>1, MapIs
<1> HIDE DEF f, x
<1>4. v \in Nat
  BY <1>3
<1>5. IsFiniteSet(HandoffLines(f)) /\ (\A y \in HandoffLines(f) : f[y] \in Int) /\ Drawings(f) \in Int
  <2>1. IsFiniteSet(DOMAIN f)
    BY <1>0 DEF f
  <2>2. HandoffLines(f) \in SUBSET DOMAIN f
    BY DEF HandoffLines
  <2>3. IsFiniteSet(HandoffLines(f)) /\ \A y \in HandoffLines(f) : f[y] \in Int
    BY <1>3, <2>1, <2>2, FS_Subset
  <2> QED
    BY <2>3, SumInt DEF Drawings
<1>6. CASE ~({from, to} \subseteq DOMAIN g.nodes)
  <2>1. r = g
    BY <1>6 DEF EdgeDrawn
  <2> HIDE DEF r
  <2>2. DrawnFrom(r, g, from, to, type)
    BY <1>5, <1>6, <2>1 DEF f, DrawnFrom
  <2> QED
    BY <2>2 DEF r
<1>7. CASE {from, to} \subseteq DOMAIN g.nodes
  <2>1. r = [g EXCEPT !.edges = h]
    BY <1>7, Zenon DEF EdgeDrawn, h, v, x, f
  <2>2. /\ h \in Maps(Lines, Nat) /\ DOMAIN h = DOMAIN f \cup {x} /\ h[x] = v
        /\ \A y \in DOMAIN f \ {x} : h[y] = f[y]
    <3> HIDE DEF v
    <3>1. PutIn(h, f, x, v, Lines, Nat)
      BY <1>1, <1>2, <1>4, PutInMap
    <3> HIDE DEF h
    <3> QED
      BY <3>1 DEF PutIn
  <2>3. IsFiniteSet(DOMAIN h)
    <3>1. IsFiniteSet(DOMAIN f)
      BY <1>0 DEF f
    <3> HIDE DEF h
    <3> QED
      BY <2>2, <3>1, FS_AddElement
  <2>4. Drawings(h) \in Int /\ Drawings(h) = Drawings(f) + (IF type = "TASK_HANDOFF" THEN 1 ELSE 0)
    <3> HIDE DEF h
    <3>1. CASE type = "TASK_HANDOFF"
      <4> DEFINE S == HandoffLines(f)
      <4>1. HandoffLines(h) = S \cup {x}
        BY <1>2, <2>2, <3>1 DEF HandoffLines
      <4>2. x \in S <=> x \in DOMAIN f
        BY <1>2, <3>1 DEF HandoffLines
      <4>3. h[x] \in Int /\ \A y \in S \ {x} : h[y] = f[y]
        BY <1>4, <2>2 DEF HandoffLines
      <4> HIDE DEF S, v
      <4>4. /\ SumOver(h, S \cup {x}) \in Int
            /\ SumOver(h, S \cup {x}) = SumOver(f, S) + h[x] - (IF x \in S THEN f[x] ELSE 0)
        BY <1>5, <4>3, SumWith DEF S
      <4>5. PICK c : c = IF x \in S THEN f[x] ELSE 0
        OBVIOUS
      <4>6. h[x] = 1 + c /\ c \in Int
        BY <1>3, <2>2, <4>2, <4>5 DEF v
      <4>7. SumOver(f, S) \in Int
        BY <1>5 DEF Drawings, S
      <4>8. SumOver(h, S \cup {x}) = SumOver(f, S) + 1
        BY <4>4, <4>5, <4>6, <4>7
      <4> QED
        BY <3>1, <4>1, <4>4, <4>8 DEF Drawings, S
    <3>2. CASE type # "TASK_HANDOFF"
      <4>1. HandoffLines(h) = HandoffLines(f) /\ \A y \in HandoffLines(f) : h[y] = f[y]
        BY <1>2, <2>2, <3>2 DEF HandoffLines
      <4>2. SumOver(h, HandoffLines(f)) = SumOver(f, HandoffLines(f))
        BY <1>5, <4>1, SumSame
      <4> QED
        BY <1>5, <3>2, <4>1, <4>2 DEF Drawings
    <3> QED
      BY <3>1, <3>2
  <2> HIDE DEF h, v, r
  <2>5. r = [nodes |-> g.nodes, edges |-> h, unresolved |-> g.unresolved, last |-> g.last]
    BY <1>1, <2>1
  <2>6. r \in Graphs
    BY <1>0, <2>2, <2>5, GraphIs DEF Graphs
  <2>7. DrawnFrom(r, g, from, to, type)
    BY <1>5, <1>7, <2>3, <2>4, <2>5, <2>6 DEF f, DrawnFrom, Drawable
  <2> QED
    BY <2>7 DEF r
<1> QED
  BY <1>6, <1>7

LEMMA UpsertedIs ==
  ASSUME NEW g \in Graphs, NEW e \in Event, NEW r, r = Upserted(g, e)
  PROVE  /\ r \in Graphs /\ DOMAIN r.nodes = DOMAIN g.nodes \cup Agents(e)
         /\ r.edges = g.edges /\ r.unresolved = g.unresolved /\ r.last = g.last
<1> DEFINE hint(a) == CASE Info[e].kind = "STEP_FAILED" /\ a = Says[e].agent -> "FAILED"
                        [] Info[e].kind = "ANOMALY" -> "DEGRADED"
                        [] a \in DOMAIN g.nodes -> g.nodes[a]
                        [] OTHER -> "ACTIVE"
           hints == [a \in Agents(e) |-> hint(a)]
           nodes == Over(g.nodes, hints)
<1>1. /\ g = [nodes |-> g.nodes, edges |-> g.edges, unresolved |-> g.unresolved, last |-> g.last]
      /\ g.nodes \in Maps(Named, Shown) /\ g.nodes \in [DOMAIN g.nodes -> Shown]
  BY GraphIs, MapIs
<1>2. r = [g EXCEPT !.nodes = nodes]
  BY Zenon DEF Upserted
<1>3. {"FAILED", "DEGRADED", "ACTIVE"} \subseteq Shown
  BY DEF Shown
<1>4. \A a \in Agents(e) : hint(a) \in Shown
  BY <1>1, <1>3
<1>5. DOMAIN hints = Agents(e) /\ IntoMap(hints, Named, Shown)
  <2>1. Agents(e) \in SUBSET Named
    BY NamesIs
  <2> HIDE DEF hint
  <2> QED
    BY <1>4, <2>1 DEF IntoMap
<1> HIDE DEF hint, hints
<1>9. nodes = Over(g.nodes, hints)
  OBVIOUS
<1> HIDE DEF nodes
<1>10. nodes \in Maps(Named, Shown) /\ IsOver(nodes, g.nodes, hints)
  BY <1>1, <1>5, <1>9, OverIs
<1>6. nodes \in Maps(Named, Shown) /\ DOMAIN nodes = DOMAIN g.nodes \cup Agents(e)
  BY <1>5, <1>10 DEF IsOver
<1>7. r = [nodes |-> nodes, edges |-> g.edges, unresolved |-> g.unresolved, last |-> g.last]
  BY <1>1, <1>2
<1>8. r \in Graphs
  BY <1>6, <1>7, GraphIs DEF Graphs
<1> QED
  BY <1>6, <1>7, <1>8

(* A graph that differs in what waits, or in the last agent of a trace.    *)
Waiting(g, u) == [g EXCEPT !.unresolved = u]
WaitsFor(r, g, u) == r \in Graphs /\ r.nodes = g.nodes /\ r.edges = g.edges /\ r.unresolved = u

LEMMA WaitingIs ==
  ASSUME NEW g \in Graphs, NEW u \in SUBSET Event
  PROVE  WaitsFor(Waiting(g, u), g, u)
<1> DEFINE r == Waiting(g, u)
<1>1. g = [nodes |-> g.nodes, edges |-> g.edges, unresolved |-> g.unresolved, last |-> g.last]
  BY GraphIs
<1>2. r = [nodes |-> g.nodes, edges |-> g.edges, unresolved |-> u, last |-> g.last]
  BY <1>1 DEF Waiting
<1> HIDE DEF r
<1>3. WaitsFor(r, g, u)
  BY <1>2, GraphIs DEF Graphs, WaitsFor
<1> QED
  BY <1>3 DEF r

LedTo(g, t, a) == [g EXCEPT !.last = Put(g.last, t, a)]

LEMMA LedIs ==
  ASSUME NEW g \in Graphs, NEW t \in Trace, NEW a \in Named
  PROVE  WaitsFor(LedTo(g, t, a), g, g.unresolved)
<1> DEFINE l == Put(g.last, t, a)
           r == LedTo(g, t, a)
<1>1. /\ g = [nodes |-> g.nodes, edges |-> g.edges, unresolved |-> g.unresolved, last |-> g.last]
      /\ g.last \in Maps(Trace, Named)
  BY GraphIs
<1>2. l \in Maps(Trace, Named)
  BY <1>1, PutInMap DEF PutIn
<1> HIDE DEF l
<1>3. r = [nodes |-> g.nodes, edges |-> g.edges, unresolved |-> g.unresolved, last |-> l]
  BY <1>1 DEF l, LedTo
<1> HIDE DEF r
<1>4. WaitsFor(r, g, g.unresolved)
  BY <1>2, <1>3, GraphIs DEF Graphs, WaitsFor
<1> QED
  BY <1>4 DEF r

(* One handoff more that was given, and one less or more that waits.       *)
LEMMA CountsWith ==
  ASSUME NEW D, IsFiniteSet(D), NEW e, e \notin D
  PROVE  /\ IsFiniteSet(D \cup {e}) /\ Cardinality(HandoffsOf(D)) \in Nat /\ IsFiniteSet(HandoffsOf(D))
         /\ HandoffsOf(D) \subseteq HandoffsOf(D \cup {e})
         /\ Cardinality(HandoffsOf(D \cup {e})) = Cardinality(HandoffsOf(D)) + (IF IsHandoff(e) THEN 1 ELSE 0)
<1>1. IsFiniteSet(HandoffsOf(D)) /\ e \notin HandoffsOf(D)
  <2>1. HandoffsOf(D) \in SUBSET D
    BY DEF HandoffsOf
  <2> QED
    BY <2>1, FS_Subset
<1>2. HandoffsOf(D \cup {e}) = IF IsHandoff(e) THEN HandoffsOf(D) \cup {e} ELSE HandoffsOf(D)
  BY DEF HandoffsOf
<1>3. Cardinality(HandoffsOf(D)) \in Nat /\ Cardinality(HandoffsOf(D) \cup {e}) = Cardinality(HandoffsOf(D)) + 1
  BY <1>1, FS_CardinalityType, FS_AddElement
<1>4. IsFiniteSet(D \cup {e})
  BY FS_AddElement
<1>5. CASE IsHandoff(e)
  BY <1>1, <1>2, <1>3, <1>4, <1>5
<1>6. CASE ~IsHandoff(e)
  BY <1>1, <1>2, <1>3, <1>4, <1>6
<1> QED
  BY <1>5, <1>6

(* One turn of the loop: a handoff is drawn or waits.                      *)
TakesOne(r, g, e) ==
  /\ Drawable(r) /\ Drawings(g.edges) \in Int /\ Drawings(r.edges) \in Int
  /\ ~IsHandoff(e) => r.unresolved = g.unresolved /\ Drawings(r.edges) = Drawings(g.edges)
  /\ IsHandoff(e) => \/ r.unresolved = g.unresolved \ {e} /\ Drawings(r.edges) = Drawings(g.edges) + 1
                     \/ r.unresolved = g.unresolved \cup {e} /\ Drawings(r.edges) = Drawings(g.edges)

LEMMA AppliedIs ==
  ASSUME NEW g, Drawable(g), NEW e \in Event, NEW r, r = Applied(g, e)
  PROVE  TakesOne(r, g, e)
<1> DEFINE now == Upserted(g, e)
           t == Info[e].trace
           a == Says[e].agent
           drawing == EdgeDrawn(now, Says[e].from, Says[e].to, "TASK_HANDOFF")
           before == IF t \in DOMAIN g.last THEN g.last[t] ELSE a
           flow == EdgeDrawn(now, before, a, "FLOW_EVENT")
           led == IF before = a THEN now ELSE flow
<1>0. g \in Graphs /\ IsFiniteSet(DOMAIN g.edges) /\ "FLOW_EVENT" \in LineTypes /\ "TASK_HANDOFF" \in LineTypes
  BY DEF Drawable, LineTypes
<1>1. /\ Drawable(now) /\ now \in Graphs /\ DOMAIN now.nodes = DOMAIN g.nodes \cup Agents(e)
      /\ now.edges = g.edges /\ now.unresolved = g.unresolved /\ now.last = g.last
  BY <1>0, UpsertedIs DEF Drawable
<1>2. /\ Says[e].from \in Named /\ Says[e].to \in Named /\ a \in Named /\ t \in Trace /\ before \in Named
  <2>1. g.last \in [DOMAIN g.last -> Named]
    BY <1>0, GraphIs, MapIs
  <2> QED
    BY <2>1, NamesIs
<1>3. g.unresolved \in SUBSET Event
  BY <1>0, GraphIs
<1>9. DrawnFrom(drawing, now, Says[e].from, Says[e].to, "TASK_HANDOFF") /\ DrawnFrom(flow, now, before, a, "FLOW_EVENT")
  <2> HIDE DEF now, before, a
  <2> QED
    BY <1>0, <1>1, <1>2, EdgeIs
<1>4. Drawings(g.edges) \in Int
  <2> HIDE DEF now, drawing
  <2> QED
    BY <1>1, <1>9 DEF DrawnFrom
<1>5. CASE IsHandoff(e) /\ {Says[e].from, Says[e].to} \subseteq DOMAIN g.nodes
  <2> DEFINE u == drawing.unresolved \ {e}
  <2>1. r = Waiting(drawing, u)
    BY <1>5, Zenon DEF Applied, Waiting
  <2>2. {Says[e].from, Says[e].to} \subseteq DOMAIN now.nodes
    BY <1>1, <1>5
  <2> HIDE DEF now, drawing
  <2>3. /\ drawing \in Graphs /\ IsFiniteSet(DOMAIN drawing.edges) /\ drawing.unresolved = now.unresolved
        /\ Drawings(drawing.edges) \in Int /\ Drawings(drawing.edges) = Drawings(now.edges) + 1
    BY <1>9, <2>2 DEF DrawnFrom, Drawable
  <2>4. u \in SUBSET Event
    BY <1>1, <1>3, <2>3
  <2>5. u = g.unresolved \ {e}
    BY <1>1, <2>3
  <2> HIDE DEF u
  <2>6. WaitsFor(r, drawing, u)
    BY <2>1, <2>3, <2>4, WaitingIs
  <2> QED
    BY <1>1, <1>4, <1>5, <2>3, <2>5, <2>6 DEF WaitsFor, TakesOne, Drawable
<1>6. CASE IsHandoff(e) /\ ~({Says[e].from, Says[e].to} \subseteq DOMAIN g.nodes)
  <2> DEFINE u == now.unresolved \cup {e}
  <2>1. r = Waiting(now, u)
    BY <1>6, Zenon DEF Applied, Waiting
  <2> HIDE DEF now
  <2>2. u \in SUBSET Event /\ u = g.unresolved \cup {e}
    BY <1>1, <1>3
  <2> HIDE DEF u
  <2>3. WaitsFor(r, now, u)
    BY <1>1, <2>1, <2>2, WaitingIs
  <2> QED
    BY <1>0, <1>1, <1>4, <1>6, <2>2, <2>3 DEF WaitsFor, TakesOne, Drawable
<1>7. CASE ~IsHandoff(e) /\ (~IsStep(e) \/ a = None)
  <2>1. r = now
    BY <1>7, Zenon DEF Applied
  <2> HIDE DEF now
  <2> QED
    BY <1>1, <1>4, <1>7, <2>1 DEF TakesOne
<1>8. CASE ~IsHandoff(e) /\ IsStep(e) /\ a # None
  <2>1. r = LedTo(led, t, a)
    BY <1>8, Zenon DEF Applied, LedTo
  <2> HIDE DEF now, flow, before
  <2>2. /\ Drawable(flow) /\ flow.unresolved = now.unresolved
        /\ Drawings(flow.edges) \in Int /\ Drawings(flow.edges) = Drawings(now.edges)
    BY <1>1, <1>4, <1>9 DEF DrawnFrom
  <2>3. /\ Drawable(led) /\ led.unresolved = now.unresolved /\ Drawings(led.edges) = Drawings(now.edges)
    BY <1>1, <2>2
  <2> HIDE DEF led, a
  <2>4. WaitsFor(r, led, led.unresolved)
    BY <1>2, <2>1, <2>3, LedIs DEF Drawable
  <2> QED
    BY <1>1, <1>4, <1>8, <2>3, <2>4 DEF WaitsFor, TakesOne, Drawable
<1> QED
  BY <1>5, <1>6, <1>7, <1>8

(* Every event that is given is accounted for, and none twice.             *)
LEMMA AccountsIs ==
  ASSUME NEW g, NEW D, Accounts(g, D)
  PROVE  /\ g \in Graphs /\ IsFiniteSet(DOMAIN g.edges) /\ Drawable(g) /\ D \in SUBSET Event /\ IsFiniteSet(D)
         /\ g.unresolved \in SUBSET HandoffsOf(D) /\ g.unresolved \in SUBSET D /\ IsFiniteSet(g.unresolved)
         /\ Cardinality(g.unresolved) \in Nat /\ (\A e \in g.unresolved : IsHandoff(e) /\ e \in Event)
         /\ Drawings(g.edges) + Cardinality(g.unresolved) = Cardinality(HandoffsOf(D))
<1>1. g.unresolved \in SUBSET D
  BY DEF Accounts, HandoffsOf
<1>2. IsFiniteSet(g.unresolved)
  BY <1>1, FS_Subset DEF Accounts
<1>3. Cardinality(g.unresolved) \in Nat
  BY <1>2, FS_CardinalityType
<1> QED
  BY <1>1, <1>2, <1>3 DEF Accounts, Drawable, HandoffsOf

LEMMA AccountedStep ==
  ASSUME NEW g, NEW D, Accounts(g, D), NEW e \in Event, e \notin D
  PROVE  Accounts(Applied(g, e), D \cup {e})
<1> DEFINE r == Applied(g, e)
           u == g.unresolved
           more == D \cup {e}
<1>1. /\ Drawable(g) /\ D \in SUBSET Event /\ IsFiniteSet(D) /\ u \in SUBSET HandoffsOf(D) /\ u \in SUBSET D
      /\ IsFiniteSet(u) /\ Cardinality(u) \in Nat
      /\ Drawings(g.edges) + Cardinality(u) = Cardinality(HandoffsOf(D))
  BY AccountsIs
<1>2. TakesOne(r, g, e)
  BY <1>1, AppliedIs
<1> HIDE DEF r, u
<1>3. /\ Drawable(r) /\ Drawings(g.edges) \in Int /\ Drawings(r.edges) \in Int
      /\ ~IsHandoff(e) => r.unresolved = u /\ Drawings(r.edges) = Drawings(g.edges)
      /\ IsHandoff(e) => \/ r.unresolved = u \ {e} /\ Drawings(r.edges) = Drawings(g.edges) + 1
                         \/ r.unresolved = u \cup {e} /\ Drawings(r.edges) = Drawings(g.edges)
  BY <1>2 DEF TakesOne, u
<1>4. /\ IsFiniteSet(more) /\ Cardinality(HandoffsOf(D)) \in Nat /\ HandoffsOf(D) \subseteq HandoffsOf(more)
      /\ Cardinality(HandoffsOf(more)) = Cardinality(HandoffsOf(D)) + (IF IsHandoff(e) THEN 1 ELSE 0)
  BY <1>1, CountsWith
<1>5. e \notin u /\ u \ {e} = u /\ (IsHandoff(e) => e \in HandoffsOf(more))
  BY <1>1 DEF HandoffsOf
<1>6. Cardinality(u \cup {e}) = Cardinality(u) + 1
  BY <1>1, <1>5, FS_AddElement
<1>7. more \in SUBSET Event /\ u \subseteq HandoffsOf(more)
  BY <1>1, <1>4
<1> HIDE DEF more
<1>8. r.unresolved \subseteq HandoffsOf(more) /\ Drawings(r.edges) + Cardinality(r.unresolved) = Cardinality(HandoffsOf(more))
  <2> DEFINE c == Cardinality(u)
             w == Cardinality(r.unresolved)
             m == Cardinality(HandoffsOf(more))
             d == Cardinality(HandoffsOf(D))
  <2>1. CASE ~IsHandoff(e)
    <3>1. r.unresolved = u /\ w = c /\ m = d /\ Drawings(r.edges) = Drawings(g.edges)
      BY <1>3, <1>4, <2>1
    <3> QED
      BY <1>1, <1>7, <3>1
  <2>2. CASE IsHandoff(e) /\ r.unresolved = u /\ Drawings(r.edges) = Drawings(g.edges) + 1
    <3>1. w = c /\ m = d + 1
      BY <1>4, <2>2
    <3> QED
      BY <1>1, <1>3, <1>4, <1>7, <2>2, <3>1
  <2>3. CASE IsHandoff(e) /\ r.unresolved = u \cup {e} /\ Drawings(r.edges) = Drawings(g.edges)
    <3>1. w = c + 1 /\ m = d + 1
      BY <1>4, <1>6, <2>3
    <3>2. r.unresolved \subseteq HandoffsOf(more)
      BY <1>5, <1>7, <2>3
    <3> QED
      BY <1>1, <1>3, <1>4, <2>3, <3>1, <3>2
  <2> QED
    BY <1>3, <1>5, <2>1, <2>2, <2>3
<1>9. Accounts(r, more)
  BY <1>3, <1>4, <1>7, <1>8 DEF Accounts, Drawable
<1> QED
  BY <1>9 DEF r, more

(* A handoff that waited is drawn, or waits on.                            *)
ResolvesOne(r, g, e) ==
  /\ Drawable(r) /\ Drawings(g.edges) \in Int /\ Drawings(r.edges) \in Int
  /\ \/ r.unresolved = g.unresolved \ {e} /\ Drawings(r.edges) = Drawings(g.edges) + 1
     \/ r.unresolved = g.unresolved /\ Drawings(r.edges) = Drawings(g.edges)

LEMMA ResolvedIs ==
  ASSUME NEW g, Drawable(g), NEW e \in Event
  PROVE  ResolvesOne(Resolved(g, e), g, e)
<1> DEFINE r == Resolved(g, e)
           drawing == EdgeDrawn(g, Says[e].from, Says[e].to, "TASK_HANDOFF")
           u == drawing.unresolved \ {e}
<1>1. "TASK_HANDOFF" \in LineTypes /\ Says[e].from \in Named /\ Says[e].to \in Named
  BY NamesIs DEF LineTypes
<1>2. DrawnFrom(drawing, g, Says[e].from, Says[e].to, "TASK_HANDOFF")
  BY <1>1, EdgeIs
<1>3. CASE {Says[e].from, Says[e].to} \subseteq DOMAIN g.nodes
  <2>1. r = Waiting(drawing, u)
    BY <1>3, Zenon DEF Resolved, Waiting
  <2> HIDE DEF r, drawing
  <2>2. /\ Drawable(drawing) /\ drawing.unresolved = g.unresolved
        /\ Drawings(g.edges) \in Int /\ Drawings(drawing.edges) = Drawings(g.edges) + 1
    BY <1>2, <1>3 DEF DrawnFrom
  <2>3. u = g.unresolved \ {e} /\ u \in SUBSET Event
    BY <2>2, GraphIs DEF Drawable
  <2> HIDE DEF u
  <2>4. WaitsFor(r, drawing, u)
    BY <2>1, <2>2, <2>3, WaitingIs DEF Drawable
  <2>5. ResolvesOne(r, g, e)
    BY <2>2, <2>3, <2>4 DEF WaitsFor, ResolvesOne, Drawable
  <2> QED
    BY <2>5 DEF r
<1>4. CASE ~({Says[e].from, Says[e].to} \subseteq DOMAIN g.nodes)
  <2>1. r = g
    BY <1>4 DEF Resolved
  <2>2. Drawings(g.edges) \in Int
    <3> HIDE DEF drawing
    <3> QED
      BY <1>2 DEF DrawnFrom
  <2> HIDE DEF r
  <2>3. ResolvesOne(r, g, e)
    BY <2>1, <2>2 DEF ResolvesOne
  <2> QED
    BY <2>3 DEF r
<1> QED
  BY <1>3, <1>4

LEMMA ResolvedStep ==
  ASSUME NEW g, NEW D, Accounts(g, D), NEW e \in g.unresolved
  PROVE  Accounts(Resolved(g, e), D) /\ g.unresolved \ {e} \subseteq Resolved(g, e).unresolved
<1> DEFINE r == Resolved(g, e)
           u == g.unresolved
<1>1. /\ Drawable(g) /\ D \in SUBSET Event /\ IsFiniteSet(D) /\ u \in SUBSET HandoffsOf(D)
      /\ IsFiniteSet(u) /\ Cardinality(u) \in Nat /\ e \in Event
      /\ Drawings(g.edges) + Cardinality(u) = Cardinality(HandoffsOf(D))
  BY AccountsIs
<1>2. ResolvesOne(r, g, e)
  BY <1>1, ResolvedIs
<1> HIDE DEF r
<1>3. Cardinality(u \ {e}) = Cardinality(u) - 1
  BY <1>1, FS_RemoveElement
<1> HIDE DEF u
<1>4. /\ Drawable(r) /\ Drawings(g.edges) \in Int /\ Drawings(r.edges) \in Int
      /\ \/ r.unresolved = u \ {e} /\ Drawings(r.edges) = Drawings(g.edges) + 1
         \/ r.unresolved = u /\ Drawings(r.edges) = Drawings(g.edges)
  BY <1>2 DEF ResolvesOne, u
<1>5. /\ r.unresolved \subseteq HandoffsOf(D) /\ u \ {e} \subseteq r.unresolved
      /\ Drawings(r.edges) + Cardinality(r.unresolved) = Cardinality(HandoffsOf(D))
  <2>1. CASE r.unresolved = u \ {e} /\ Drawings(r.edges) = Drawings(g.edges) + 1
    <3>1. Cardinality(r.unresolved) = Cardinality(u) - 1
      BY <1>3, <2>1
    <3>2. Drawings(r.edges) + Cardinality(r.unresolved) = Drawings(g.edges) + Cardinality(u)
      BY <1>1, <1>4, <2>1, <3>1
    <3> QED
      BY <1>1, <2>1, <3>2
  <2>2. CASE r.unresolved = u /\ Drawings(r.edges) = Drawings(g.edges)
    BY <1>1, <2>2
  <2> QED
    BY <1>4, <2>1, <2>2
<1>6. Accounts(r, D)
  BY <1>1, <1>4, <1>5 DEF Accounts, Drawable
<1> QED
  BY <1>5, <1>6 DEF r, u

AppliedBy(t, g, batch) ==
  /\ t \in [0 .. Len(batch) -> {v \in Graphs : Drawable(v)}] /\ t[0] = g /\ t[Len(batch)] = FoldLeft(Applied, g, batch)
  /\ \A k \in 1 .. Len(batch) : t[k] = Applied(t[k - 1], batch[k])

LEMMA AppliedPasses == ASSUME NEW g, Drawable(g), NEW batch \in Seq(Event) PROVE \E t : AppliedBy(t, g, batch)
<1> DEFINE n == Len(batch)
           V == {v \in Graphs : Drawable(v)}
           D == DOMAIN batch
           F == [p \in (1 .. n) \X V |-> Applied(p[2], batch[p[1]])]
           iter[s \in SUBSET D] == IF s = {} THEN g ELSE LET x == Max(s) IN Applied(iter[s \ {x}], batch[x])
           Is(h) == h = [s \in SUBSET D |-> IF s = {} THEN g ELSE LET x == Max(s) IN Applied(h[s \ {x}], batch[x])]
<1>1. n \in Nat /\ D = 1 .. n /\ g \in V
  BY DEF Drawable
<1>2. \A i \in 1 .. n, v \in V : Applied(v, batch[i]) \in V
  <2> SUFFICES ASSUME NEW i \in 1 .. n, NEW v \in V PROVE Applied(v, batch[i]) \in V
    OBVIOUS
  <2>1. Drawable(v) /\ batch[i] \in Event
    OBVIOUS
  <2>2. Drawable(Applied(v, batch[i]))
    BY <2>1, AppliedIs DEF TakesOne
  <2> QED
    BY <2>2 DEF Drawable
<1>3. F \in [(1 .. n) \X V -> V] /\ \A i \in 1 .. n, v \in V : F[i, v] = Applied(v, batch[i])
  <2> HIDE DEF V, n
  <2> QED
    BY <1>2
<1>4. FoldLeft(Applied, g, batch) = iter[D]
  BY Zenon DEF FoldLeft, MapThenFoldSet
<1>5. Is(iter)
  <2>1. iter = CHOOSE h : Is(h)
    BY Zenon
  <2> HIDE DEF n, V, F, iter, D
  <2>2. PICK f \in [SUBSET (1 .. n) -> V] : Folded(f, n, g, F)
    BY <1>1, <1>3, Foldable
  <2>3. \A s \in SUBSET (1 .. n) : s # {} => Max(s) \in 1 .. n /\ s \ {Max(s)} \in SUBSET (1 .. n)
    BY <1>1, GreatestOf
  <2>4. \A s \in SUBSET D : f[s] = IF s = {} THEN g ELSE Applied(f[s \ {Max(s)}], batch[Max(s)])
    BY <1>1, <1>3, <2>2, <2>3 DEF Folded
  <2>5. Is(f)
    BY <1>1, <2>2, <2>4
  <2> HIDE DEF Is
  <2> QED
    BY <2>1, <2>5, Zenon
<1>6. Folds(iter, n, g, F, V)
  <2> HIDE DEF n, V, F, iter, D
  <2>1. \A s \in SUBSET (1 .. n) : s # {} => Max(s) \in 1 .. n
    BY <1>1, GreatestOf
  <2> QED
    BY <1>1, <1>3, <1>5, <2>1 DEF Folds
<1> HIDE DEF n, V, F, iter, D
<1>7. PICK t : Passes(t, iter, n, g, F, V)
  BY <1>1, <1>3, <1>6, PassesThrough
<1>8. \A k \in 1 .. n : t[k] = Applied(t[k - 1], batch[k])
  <2>1. \A k \in 1 .. n : k - 1 \in 0 .. n
    BY <1>1
  <2> QED
    BY <1>3, <1>7, <2>1 DEF Passes
<1> QED
  BY <1>1, <1>4, <1>7, <1>8 DEF n, V, Passes, AppliedBy

ResolvedBy(t, g, batch) ==
  /\ t \in [0 .. Len(batch) -> {v \in Graphs : Drawable(v)}] /\ t[0] = g /\ t[Len(batch)] = FoldLeft(Resolved, g, batch)
  /\ \A k \in 1 .. Len(batch) : t[k] = Resolved(t[k - 1], batch[k])

LEMMA ResolvedPasses == ASSUME NEW g, Drawable(g), NEW batch \in Seq(Event) PROVE \E t : ResolvedBy(t, g, batch)
<1> DEFINE n == Len(batch)
           V == {v \in Graphs : Drawable(v)}
           D == DOMAIN batch
           F == [p \in (1 .. n) \X V |-> Resolved(p[2], batch[p[1]])]
           iter[s \in SUBSET D] == IF s = {} THEN g ELSE LET x == Max(s) IN Resolved(iter[s \ {x}], batch[x])
           Is(h) == h = [s \in SUBSET D |-> IF s = {} THEN g ELSE LET x == Max(s) IN Resolved(h[s \ {x}], batch[x])]
<1>1. n \in Nat /\ D = 1 .. n /\ g \in V
  BY DEF Drawable
<1>2. \A i \in 1 .. n, v \in V : Resolved(v, batch[i]) \in V
  <2> SUFFICES ASSUME NEW i \in 1 .. n, NEW v \in V PROVE Resolved(v, batch[i]) \in V
    OBVIOUS
  <2>1. Drawable(v) /\ batch[i] \in Event
    OBVIOUS
  <2>2. Drawable(Resolved(v, batch[i]))
    BY <2>1, ResolvedIs DEF ResolvesOne
  <2> QED
    BY <2>2 DEF Drawable
<1>3. F \in [(1 .. n) \X V -> V] /\ \A i \in 1 .. n, v \in V : F[i, v] = Resolved(v, batch[i])
  <2> HIDE DEF V, n
  <2> QED
    BY <1>2
<1>4. FoldLeft(Resolved, g, batch) = iter[D]
  BY Zenon DEF FoldLeft, MapThenFoldSet
<1>5. Is(iter)
  <2>1. iter = CHOOSE h : Is(h)
    BY Zenon
  <2> HIDE DEF n, V, F, iter, D
  <2>2. PICK f \in [SUBSET (1 .. n) -> V] : Folded(f, n, g, F)
    BY <1>1, <1>3, Foldable
  <2>3. \A s \in SUBSET (1 .. n) : s # {} => Max(s) \in 1 .. n /\ s \ {Max(s)} \in SUBSET (1 .. n)
    BY <1>1, GreatestOf
  <2>4. \A s \in SUBSET D : f[s] = IF s = {} THEN g ELSE Resolved(f[s \ {Max(s)}], batch[Max(s)])
    BY <1>1, <1>3, <2>2, <2>3 DEF Folded
  <2>5. Is(f)
    BY <1>1, <2>2, <2>4
  <2> HIDE DEF Is
  <2> QED
    BY <2>1, <2>5, Zenon
<1>6. Folds(iter, n, g, F, V)
  <2> HIDE DEF n, V, F, iter, D
  <2>1. \A s \in SUBSET (1 .. n) : s # {} => Max(s) \in 1 .. n
    BY <1>1, GreatestOf
  <2> QED
    BY <1>1, <1>3, <1>5, <2>1 DEF Folds
<1> HIDE DEF n, V, F, iter, D
<1>7. PICK t : Passes(t, iter, n, g, F, V)
  BY <1>1, <1>3, <1>6, PassesThrough
<1>8. \A k \in 1 .. n : t[k] = Resolved(t[k - 1], batch[k])
  <2>1. \A k \in 1 .. n : k - 1 \in 0 .. n
    BY <1>1
  <2> QED
    BY <1>3, <1>7, <2>1 DEF Passes
<1> QED
  BY <1>1, <1>4, <1>7, <1>8 DEF n, V, Passes, ResolvedBy

LEMMA AllTaken ==
  ASSUME NEW g, NEW D, Accounts(g, D), NEW batch \in Seq(Event), IsInjective(batch), ToSet(batch) \cap D = {}
  PROVE  Accounts(FoldLeft(Applied, g, batch), D \cup ToSet(batch))
<1> DEFINE n == Len(batch)
           First(k) == {batch[i] : i \in 1 .. k}
           last == FoldLeft(Applied, g, batch)
<1>0. Drawable(g)
  BY AccountsIs
<1>1. PICK t : AppliedBy(t, g, batch)
  BY <1>0, AppliedPasses
<1> HIDE DEF last
<1>2. t[0] = g /\ t[n] = last /\ \A k \in 1 .. n : t[k] = Applied(t[k - 1], batch[k])
  BY <1>1 DEF AppliedBy, last
<1>3. n \in Nat /\ DOMAIN batch = 1 .. n /\ \A k \in 1 .. n : batch[k] \in Event
  OBVIOUS
<1>4. First(n) = ToSet(batch) /\ First(0) = {} /\ \A k \in Nat : First(k + 1) = First(k) \cup {batch[k + 1]}
  <2>1. First(n) = ToSet(batch) /\ First(0) = {}
    BY <1>3 DEF ToSet
  <2>2. ASSUME NEW k \in Nat PROVE First(k + 1) = First(k) \cup {batch[k + 1]}
    <3>1. \A i : i \in 1 .. k + 1 <=> i \in 1 .. k \/ i = k + 1
      OBVIOUS
    <3> QED
      BY <3>1
  <2> QED
    BY <2>1, <2>2
<1>5. ASSUME NEW k \in Nat, k + 1 <= n PROVE batch[k + 1] \notin First(k)
  BY <1>3, <1>5 DEF IsInjective
<1>6. ASSUME NEW k \in Nat, k + 1 <= n PROVE batch[k + 1] \notin D
  BY <1>3, <1>6 DEF ToSet
<1> DEFINE Good(k) == Accounts(t[k], D \cup First(k))
           P == {k \in Nat : k <= n => Good(k)}
<1> HIDE DEF n, First
<1>7. 0 \in P
  <2>1. D \cup First(0) = D
    BY <1>4
  <2> QED
    BY <1>2, <2>1
<1>8. ASSUME NEW k \in Nat, k <= n => Good(k), k + 1 <= n PROVE Good(k + 1)
  <2> DEFINE E == D \cup First(k)
  <2>1. k + 1 \in 1 .. n /\ (k + 1) - 1 = k /\ k <= n
    BY <1>3, <1>8
  <2>2. t[k + 1] = Applied(t[k], batch[k + 1]) /\ batch[k + 1] \in Event
    BY <1>2, <1>3, <2>1
  <2>3. Accounts(t[k], E)
    BY <1>8, <2>1
  <2>4. batch[k + 1] \notin E /\ D \cup First(k + 1) = E \cup {batch[k + 1]}
    BY <1>4, <1>5, <1>6, <1>8
  <2> HIDE DEF E
  <2>5. Accounts(Applied(t[k], batch[k + 1]), E \cup {batch[k + 1]})
    BY <2>2, <2>3, <2>4, AccountedStep
  <2> QED
    BY <2>2, <2>4, <2>5
<1>9. P = Nat
  <2> HIDE DEF Good
  <2>1. P \in SUBSET Nat /\ \A k \in P : k + 1 \in P
    BY <1>8
  <2> HIDE DEF P
  <2> QED
    BY <1>7, <2>1, NumbersByStep
<1>10. Good(n)
  <2> HIDE DEF Good
  <2> QED
    BY <1>3, <1>9
<1> QED
  BY <1>2, <1>4, <1>10 DEF last

LEMMA AllResolved ==
  ASSUME NEW g, NEW D, Accounts(g, D), NEW batch \in Seq(g.unresolved), IsInjective(batch)
  PROVE  Accounts(FoldLeft(Resolved, g, batch), D)
<1> DEFINE n == Len(batch)
           last == FoldLeft(Resolved, g, batch)
<1>0. Drawable(g) /\ g.unresolved \in SUBSET Event
  BY AccountsIs
<1>1. PICK t : ResolvedBy(t, g, batch)
  <2>1. batch \in Seq(Event)
    BY <1>0
  <2> QED
    BY <1>0, <2>1, ResolvedPasses
<1> HIDE DEF last
<1>2. t[0] = g /\ t[n] = last /\ \A k \in 1 .. n : t[k] = Resolved(t[k - 1], batch[k])
  BY <1>1 DEF ResolvedBy, last
<1>3. n \in Nat /\ DOMAIN batch = 1 .. n /\ \A k \in 1 .. n : batch[k] \in g.unresolved
  OBVIOUS
<1>4. \A i, j \in 1 .. n : i # j => batch[i] # batch[j]
  BY <1>3 DEF IsInjective
<1> DEFINE Good(k) == Accounts(t[k], D) /\ \A i \in 1 .. n : i > k => batch[i] \in t[k].unresolved
           P == {k \in Nat : k <= n => Good(k)}
<1> HIDE DEF n
<1>5. 0 \in P
  BY <1>2, <1>3
<1>6. ASSUME NEW k \in Nat, k <= n => Good(k), k + 1 <= n PROVE Good(k + 1)
  <2>1. k + 1 \in 1 .. n /\ (k + 1) - 1 = k /\ k <= n /\ k + 1 > k
    BY <1>3, <1>6
  <2> DEFINE now == t[k]
             x == batch[k + 1]
  <2>2. t[k + 1] = Resolved(now, x) /\ Accounts(now, D) /\ x \in now.unresolved
    BY <1>2, <1>6, <2>1
  <2> HIDE DEF now, x
  <2>3. Accounts(Resolved(now, x), D) /\ now.unresolved \ {x} \subseteq Resolved(now, x).unresolved
    BY <2>2, ResolvedStep
  <2>4. ASSUME NEW i \in 1 .. n, i > k + 1 PROVE batch[i] \in t[k + 1].unresolved
    <3>1. i > k /\ i # k + 1
      BY <1>3, <2>4
    <3>2. batch[i] \in now.unresolved /\ batch[i] # x
      BY <1>4, <1>6, <2>1, <3>1 DEF now, x
    <3> QED
      BY <2>2, <2>3, <3>2
  <2> QED
    BY <2>2, <2>3, <2>4
<1>7. P = Nat
  <2> HIDE DEF Good
  <2>1. P \in SUBSET Nat /\ \A k \in P : k + 1 \in P
    BY <1>6
  <2> HIDE DEF P
  <2> QED
    BY <1>5, <2>1, NumbersByStep
<1>8. Good(n)
  <2> HIDE DEF Good
  <2> QED
    BY <1>3, <1>7
<1> QED
  BY <1>2, <1>8 DEF last

LEMMA BatchAccounted ==
  ASSUME NEW g, NEW D, Accounts(g, D), NEW batch \in Seq(Event), IsInjective(batch), ToSet(batch) \cap D = {}
  PROVE  Accounts(GraphApply(g, batch), D \cup ToSet(batch))
<1>1. CASE batch = <<>>
  <2>1. ToSet(batch) = {}
    BY <1>1 DEF ToSet
  <2>2. GraphApply(g, batch) = g /\ D \cup ToSet(batch) = D
    BY <1>1, <2>1 DEF GraphApply
  <2> QED
    BY <2>2
<1>2. CASE batch # <<>>
  <2> DEFINE after == FoldLeft(Applied, g, batch)
             E == D \cup ToSet(batch)
             W == g.unresolved \cap after.unresolved
             waits == SetToSeq(W)
             last == FoldLeft(Resolved, after, waits)
  <2>1. GraphApply(g, batch) = last
    BY <1>2 DEF GraphApply
  <2>2. Accounts(after, E)
    BY AllTaken
  <2> HIDE DEF after, E, last, waits
  <2>3. IsFiniteSet(W) /\ W \subseteq after.unresolved
    <3>1. IsFiniteSet(after.unresolved)
      BY <2>2, AccountsIs
    <3> QED
      BY <3>1, FS_Subset
  <2> HIDE DEF W
  <2>4. waits \in Seq(W) /\ IsInjective(waits)
    BY <2>3, SequenceOf DEF waits
  <2>5. waits \in Seq(after.unresolved)
    BY <2>3, <2>4
  <2>6. Accounts(last, E)
    BY <2>2, <2>4, <2>5, AllResolved DEF last
  <2> QED
    BY <2>1, <2>6 DEF E
<1> QED
  BY <1>1, <1>2

LEMMA SnapshotAccounted ==
  ASSUME NEW g, NEW D, Accounts(g, D), NEW s \in Snapshots \cup {<<>>}
  PROVE  Accounts(GraphSnapshot(g, s), D)
<1> DEFINE nodes == Over(g.nodes, s)
           r == GraphSnapshot(g, s)
<1>1. /\ g = [nodes |-> g.nodes, edges |-> g.edges, unresolved |-> g.unresolved, last |-> g.last]
      /\ g.nodes \in Maps(Named, Shown) /\ g \in Graphs
  BY GraphIs DEF Accounts
<1>2. IntoMap(s, Named, Shown)
  <2>1. CASE s \in Snapshots
    BY <2>1 DEF IntoMap, Named, Shown
  <2>2. CASE s = <<>>
    BY <2>2 DEF IntoMap
  <2> QED
    BY <2>1, <2>2
<1>3. nodes \in Maps(Named, Shown)
  BY <1>1, <1>2, OverIs
<1> HIDE DEF nodes
<1>4. r = [nodes |-> nodes, edges |-> g.edges, unresolved |-> g.unresolved, last |-> g.last]
  BY <1>1 DEF GraphSnapshot, nodes
<1> HIDE DEF r
<1>5. r \in Graphs
  BY <1>1, <1>3, <1>4, GraphIs DEF Graphs
<1>6. Accounts(r, D)
  BY <1>4, <1>5 DEF Accounts
<1> QED
  BY <1>6 DEF r

LEMMA NothingAccounted == Accounts(EmptyGraph, {})
<1> DEFINE none == <<>>
           g == EmptyGraph
<1>1. none \in Maps(Named, Shown) /\ none \in Maps(Lines, Nat) /\ none \in Maps(Trace, Named) /\ DOMAIN none = {}
  <2>1. DOMAIN none = {} /\ \A V : none \in [{} -> V]
    OBVIOUS
  <2> HIDE DEF none
  <2>2. \A A : {} \in SUBSET A
    OBVIOUS
  <2> QED
    BY <2>1, <2>2, MapIs
<1> HIDE DEF none
<1>2. g = [nodes |-> none, edges |-> none, unresolved |-> {}, last |-> none]
  BY DEF EmptyGraph, none
<1> HIDE DEF g
<1>3. g \in Graphs
  BY <1>1, <1>2 DEF Graphs
<1>4. HandoffLines(g.edges) = {} /\ HandoffsOf({}) = {}
  BY <1>1, <1>2 DEF HandoffLines, HandoffsOf
<1>5. Drawings(g.edges) = 0
  BY <1>4, SumOfNone DEF Drawings
<1>6. IsFiniteSet({}) /\ Cardinality({}) = 0
  BY FS_EmptySet
<1>7. DOMAIN g.edges = {} /\ g.unresolved = {}
  BY <1>1, <1>2
<1>8. Accounts(g, {})
  <2>1. Drawings(g.edges) + Cardinality(g.unresolved) = Cardinality(HandoffsOf({}))
    BY <1>4, <1>5, <1>6, <1>7
  <2>2. g.unresolved \subseteq HandoffsOf({}) /\ IsFiniteSet(DOMAIN g.edges) /\ {} \in SUBSET Event
    BY <1>6, <1>7
  <2> QED
    BY <1>3, <1>6, <2>1, <2>2 DEF Accounts
<1> QED
  BY <1>8 DEF g

(* The events the graph waits for are neither drawn nor twice among them,  *)
(* and only useGraphData adds to them.                                     *)
Fresh(p) == IsInjective(p.graphing) /\ ToSet(p.graphing) \cap drawn = {}

LEMMA SetGraphing ==
  ASSUME NEW p, GoodPage(p), NEW st
  PROVE  [p EXCEPT !.store = st].graphing = p.graphing
BY PageIs

LEMMA SelectedGraphing ==
  ASSUME NEW p, GoodPage(p), NEW t
  PROVE  Selected(p, t).graphing = p.graphing
<1> DEFINE st == [p.store EXCEPT !.selectedTrace = t]
<1>1. Selected(p, t) = [p EXCEPT !.store = st]
  BY DEF Selected
<1> HIDE DEF st
<1> QED
  BY <1>1, SetGraphing

LEMMA EventEffectGraphing ==
  ASSUME NEW p, GoodPage(p), NEW e \in Event \cup {None}
  PROVE  EventEffect(p, e).graphing = p.graphing
<1>1. CASE e = None
  BY <1>1 DEF EventEffect
<1>2. CASE e # None
  <2> DEFINE kind == Info[e].kind
             queued == IF kind \in Visual THEN [p EXCEPT !.queue = Append(p.queue, e)] ELSE p
             chosen == IF kind = "SWARM_STARTED" /\ p.store.selectedTrace = None
                       THEN Selected(queued, Info[e].trace) ELSE queued
             buffer == Latest(Append(chosen.buffer, e), MaxBuffer)
             r == EventEffect(p, e)
  <2>1. e \in Event /\ Info[e].trace \in Trace
    BY <1>2, InfoIs
  <2>2. queued = [queue |-> queued.queue, buffer |-> p.buffer, store |-> p.store, graphing |-> p.graphing, timer |-> p.timer]
        /\ queued.queue \in Seq(Event)
    <3>1. CASE kind \notin Visual
      BY <3>1, PageIs
    <3>2. CASE kind \in Visual
      <4>1. queued = [p EXCEPT !.queue = Append(p.queue, e)]
        BY <3>2
      <4>2. Append(p.queue, e) \in Seq(Event)
        BY <2>1, PageIs
      <4>3. queued = [queue |-> Append(p.queue, e), buffer |-> p.buffer, store |-> p.store, graphing |-> p.graphing,
                      timer |-> p.timer]
        BY <4>1 DEF GoodPage, Pages
      <4> HIDE DEF queued
      <4> QED
        BY <4>2, <4>3
    <3> QED
      BY <3>1, <3>2
  <2>3. r = IF kind = "ANOMALY" THEN queued ELSE [chosen EXCEPT !.buffer = buffer]
    BY <1>2 DEF EventEffect
  <2> HIDE DEF queued
  <2>4. GoodPage(queued) /\ queued.graphing = p.graphing
    <3>1. queued \in Pages
      BY <2>2, PageIs DEF Pages
    <3> QED
      BY <2>2, <3>1, PageIs DEF GoodPage
  <2>5. GoodPage(chosen) /\ chosen.graphing = p.graphing
    <3>1. GoodPage(Selected(queued, Info[e].trace)) /\ Selected(queued, Info[e].trace).graphing = queued.graphing
      BY <2>1, <2>4, SelectedIs, SelectedGraphing
    <3> QED
      BY <2>4, <3>1
  <2> HIDE DEF chosen, buffer, r
  <2>6. [chosen EXCEPT !.buffer = buffer].graphing = chosen.graphing
    BY <2>5, PageIs
  <2>7. r.graphing = p.graphing
    BY <2>3, <2>4, <2>5, <2>6
  <2> QED
    BY <2>7 DEF r
<1> QED
  BY <1>1, <1>2

LEMMA FollowedGraphing ==
  ASSUME NEW p, GoodPage(p)
  PROVE  Followed(p).graphing = p.graphing
<1>1. Followed(p) = p \/ Followed(p) = Selected(p, Info[Last(p.store.order)].trace)
  BY DEF Followed
<1> QED
  BY <1>1, SelectedGraphing

LEMMA JoinedOnce ==
  ASSUME NEW A, NEW s \in Seq(A), NEW t \in Seq(A), IsInjective(s), IsInjective(t), ToSet(s) \cap ToSet(t) = {}
  PROVE  IsInjective(s \o t) /\ ToSet(s \o t) = ToSet(s) \cup ToSet(t)
<1> DEFINE m == Len(s)
           n == Len(t)
           r == s \o t
<1>1. /\ m \in Nat /\ n \in Nat /\ DOMAIN s = 1 .. m /\ DOMAIN t = 1 .. n /\ DOMAIN r = 1 .. m + n
      /\ (\A k \in 1 .. m : r[k] = s[k]) /\ (\A k \in 1 .. n : r[m + k] = t[k])
  BY Joined
<1> HIDE DEF m, n, r
<1>2. ASSUME NEW k \in 1 .. m + n PROVE k \in 1 .. m \/ (k - m \in 1 .. n /\ k = m + (k - m))
  BY <1>1
<1>3. \A k \in 1 .. m + n : \/ k \in 1 .. m /\ r[k] = s[k] /\ s[k] \in ToSet(s)
                            \/ k - m \in 1 .. n /\ r[k] = t[k - m] /\ t[k - m] \in ToSet(t)
  BY <1>1, <1>2 DEF ToSet
<1>4. IsInjective(r)
  <2> SUFFICES ASSUME NEW i \in 1 .. m + n, NEW j \in 1 .. m + n, r[i] = r[j] PROVE i = j
    BY <1>1 DEF IsInjective
  <2>1. CASE i \in 1 .. m /\ r[i] = s[i] /\ j \in 1 .. m /\ r[j] = s[j]
    BY <1>1, <2>1 DEF IsInjective
  <2>2. CASE i - m \in 1 .. n /\ r[i] = t[i - m] /\ j - m \in 1 .. n /\ r[j] = t[j - m]
    <3>1. i - m = j - m
      BY <1>1, <2>2 DEF IsInjective
    <3> QED
      BY <1>1, <3>1
  <2> QED
    BY <1>3, <2>1, <2>2
<1>5. ToSet(r) = ToSet(s) \cup ToSet(t)
  <2>1. ToSet(r) \subseteq ToSet(s) \cup ToSet(t)
    BY <1>1, <1>3 DEF ToSet
  <2>2. \A k \in 1 .. m : k \in 1 .. m + n
    BY <1>1
  <2>3. \A k \in 1 .. n : m + k \in 1 .. m + n
    BY <1>1
  <2>4. ToSet(s) \subseteq ToSet(r) /\ ToSet(t) \subseteq ToSet(r)
    BY <1>1, <2>2, <2>3 DEF ToSet
  <2> QED
    BY <2>1, <2>4
<1> QED
  BY <1>4, <1>5 DEF r

LEMMA GraphingFresh ==
  ASSUME NEW p, GoodPage(p), Fresh(p)
  PROVE  Fresh(Graphing(p))
<1> DEFINE new == {x \in p.store.events : Info[x].kind \in Topological} \ (drawn \cup ToSet(p.graphing))
           more == Keep(p.store.order, new)
           r == Graphing(p)
<1>1. r = [p EXCEPT !.graphing = p.graphing \o more, !.timer = TRUE]
  BY DEF Graphing
<1>2. new \cap (drawn \cup ToSet(p.graphing)) = {}
  OBVIOUS
<1> HIDE DEF new, r
<1>3. p.store.order \in Seq(Event) /\ IsInjective(p.store.order) /\ p.graphing \in Seq(Event)
  BY PageIs, StoreIs DEF Whole, Enlisted
<1>4. more \in Seq(Event) /\ ToSet(more) = ToSet(p.store.order) \cap new /\ IsInjective(more)
  BY <1>3, KeepFacts
<1> HIDE DEF more
<1>5. r.graphing = p.graphing \o more
  <2>1. r = [queue |-> p.queue, buffer |-> p.buffer, store |-> p.store, graphing |-> p.graphing \o more, timer |-> TRUE]
    BY <1>1 DEF GoodPage, Pages
  <2> QED
    BY <2>1
<1>6. IsInjective(p.graphing) /\ ToSet(p.graphing) \cap drawn = {} /\ ToSet(p.graphing) \cap ToSet(more) = {}
  BY <1>2, <1>4 DEF Fresh
<1>7. IsInjective(p.graphing \o more) /\ ToSet(p.graphing \o more) = ToSet(p.graphing) \cup ToSet(more)
  BY <1>3, <1>4, <1>6, JoinedOnce
<1>8. Fresh(r)
  BY <1>2, <1>4, <1>5, <1>6, <1>7 DEF Fresh
<1> QED
  BY <1>8 DEF r

LEMMA CommittedFresh ==
  ASSUME NEW p, GoodPage(p), NEW e \in Event \cup {None}, NEW before, Fresh(p)
  PROVE  Fresh(Committed(p, e, before))
<1> DEFINE chosen == IF p.store.selectedTrace # before.store.selectedTrace THEN EventEffect(p, e) ELSE p
           informed == IF p.store.order # before.store.order \/ follow' # follow THEN Followed(chosen) ELSE chosen
           last == IF informed.store.selectedTrace # p.store.selectedTrace THEN EventEffect(informed, e) ELSE informed
           r == Committed(p, e, before)
<1>0. r = IF p.store.order # before.store.order THEN Graphing(last) ELSE last
  BY DEF Committed
<1> HIDE DEF r
<1>1. GoodPage(chosen) /\ chosen.graphing = p.graphing
  BY EventEffectIs, EventEffectGraphing DEF Commits
<1> HIDE DEF chosen
<1>2. GoodPage(informed) /\ informed.graphing = p.graphing
  BY <1>1, FollowedIs, FollowedGraphing DEF Commits
<1> HIDE DEF informed
<1>3. GoodPage(last) /\ last.graphing = p.graphing
  BY <1>2, EventEffectIs, EventEffectGraphing DEF Commits
<1> HIDE DEF last
<1>4. Fresh(last)
  BY <1>3 DEF Fresh
<1>5. Fresh(r)
  BY <1>0, <1>3, <1>4, GraphingFresh
<1> QED
  BY <1>5 DEF r

-----------------------------------------------------------------------------
(* Every handoff that is in the graph was given once.                      *)

DrawnInv == Fresh(page) /\ agents \in Snapshots \cup {<<>>} /\ Accounts(graph, drawn)

LEMMA DrawnInit == PageInit => DrawnInv
<1> SUFFICES ASSUME PageInit PROVE DrawnInv
  OBVIOUS
<1>1. page.graphing = <<>> /\ agents = <<>> /\ graph = EmptyGraph /\ drawn = {}
  BY DEF PageInit
<1>2. Fresh(page)
  BY <1>1 DEF Fresh, IsInjective, ToSet
<1> QED
  BY <1>1, <1>2, NothingAccounted DEF DrawnInv

(* A task that leaves the graph alone.                                     *)
LEMMA FreshTask ==
  ASSUME PageInv, DrawnInv, NEW p, GoodPage(p), p.graphing = page.graphing, Task(p), UNCHANGED views
  PROVE  DrawnInv'
<1>1. page' = Committed(p, message, page) /\ message \in Event \cup {None} /\ drawn' = drawn /\ graph' = graph /\ agents' = agents
  BY DEF Task, PageInv, StreamInv, views
<1>2. Fresh(p)
  BY DEF DrawnInv, Fresh
<1> DEFINE r == Committed(p, message, page)
<1>3. Fresh(r)
  BY <1>1, <1>2, CommittedFresh
<1>4. page' = r
  BY <1>1
<1> HIDE DEF r
<1>5. Fresh(page)'
  BY <1>1, <1>3, <1>4 DEF Fresh
<1> QED
  BY <1>1, <1>5 DEF DrawnInv, Accounts

LEMMA FreshFlush == ASSUME PageInv, DrawnInv, FlushTick PROVE DrawnInv'
<1> DEFINE stale == ToSet(SubSeq(script, 1, old))
           st == CleanupStale(page.store, stale)
           full == AddBatch(st, page.buffer)
           p == IF st.mode = "PAUSED" THEN [page EXCEPT !.store = st]
                ELSE [page EXCEPT !.store = full, !.buffer = <<>>]
<1>1. Task(p) /\ UNCHANGED views /\ GoodPage(page)
  BY DEF FlushTick, PageInv
<1> HIDE DEF stale
<1>2. Whole(st) /\ Sized(st)
  BY <1>1, PageIs, CleanedUp
<1> HIDE DEF st
<1>3. CASE st.mode = "PAUSED"
  <2>1. p = [page EXCEPT !.store = st]
    BY <1>3
  <2> HIDE DEF p
  <2>2. GoodPage(p) /\ p.graphing = page.graphing
    BY <1>1, <1>2, <2>1, PageStored, SetGraphing
  <2> QED
    BY <1>1, <2>2, FreshTask
<1>4. CASE st.mode # "PAUSED"
  <2>1. p = [page EXCEPT !.store = full, !.buffer = <<>>]
    BY <1>4
  <2> HIDE DEF p
  <2>2. page.buffer \in Seq(Event)
    BY <1>1, PageIs
  <2>3. Whole(full) /\ Sized(full)
    BY <1>2, <1>4, <2>2, StoringWhole
  <2> HIDE DEF full
  <2>4. p = [queue |-> page.queue, buffer |-> <<>>, store |-> full, graphing |-> page.graphing, timer |-> page.timer]
    BY <1>1, <2>1 DEF GoodPage, Pages
  <2>5. GoodPage(p) /\ p.graphing = page.graphing
    <3>1. full \in Stores /\ <<>> \in Seq(Event)
      BY <2>3 DEF Whole
    <3>2. p \in Pages
      BY <1>1, <2>4, <3>1, PageIs DEF Pages
    <3> QED
      BY <2>3, <2>4, <3>2 DEF GoodPage
  <2> QED
    BY <1>1, <2>5, FreshTask
<1> QED
  BY <1>3, <1>4

LEMMA FreshClick ==
  ASSUME PageInv, DrawnInv, Toggle \/ ToggleFollow \/ (\E e \in Event : SelectEvent(e)) \/ (\E t \in Trace : Answer(t))
  PROVE  DrawnInv'
<1>0. GoodPage(page) /\ Whole(page.store) /\ Sized(page.store)
  BY PageIs DEF PageInv
<1>1. CASE Toggle
  <2> DEFINE st == Toggled(page.store)
             p == [page EXCEPT !.store = st]
  <2>1. Task(p) /\ UNCHANGED views
    BY <1>1 DEF Toggle
  <2>2. Whole(st) /\ Sized(st)
    BY <1>0, ToggledWhole
  <2> HIDE DEF st
  <2>3. GoodPage(p) /\ p.graphing = page.graphing
    BY <1>0, <2>2, PageStored, SetGraphing
  <2> HIDE DEF p
  <2> QED
    BY <2>1, <2>3, FreshTask
<1>2. CASE ToggleFollow
  <2>1. Task(page) /\ UNCHANGED views
    BY <1>2 DEF ToggleFollow
  <2> QED
    BY <1>0, <2>1, FreshTask
<1>3. ASSUME NEW e \in Event, SelectEvent(e) PROVE DrawnInv'
  <2> DEFINE st == [page.store EXCEPT !.selectedEvent = e]
             s == [page EXCEPT !.store = st]
             p == Selected(s, Info[e].trace)
  <2>1. Task(p) /\ UNCHANGED views /\ e \in page.store.events
    BY <1>3 DEF SelectEvent
  <2>2. Whole(st) /\ Sized(st)
    BY <1>0, <2>1, PointedWhole
  <2> HIDE DEF st
  <2>3. GoodPage(s) /\ s.graphing = page.graphing
    BY <1>0, <2>2, PageStored, SetGraphing
  <2> HIDE DEF s
  <2>4. GoodPage(p) /\ p.graphing = s.graphing
    BY <2>3, InfoIs, SelectedIs, SelectedGraphing
  <2> HIDE DEF p
  <2> QED
    BY <2>1, <2>3, <2>4, FreshTask
<1>4. ASSUME NEW t \in Trace, Answer(t) PROVE DrawnInv'
  <2>1. PICK status \in {"completed", "failed"}, n \in {None, 0, 1} :
          Task(Selected([page EXCEPT !.store = RunFromApi(page.store, t, status, n)], t))
    BY <1>4 DEF Answer
  <2> DEFINE st == RunFromApi(page.store, t, status, n)
             s == [page EXCEPT !.store = st]
             p == Selected(s, t)
  <2>2. Task(p) /\ UNCHANGED views
    BY <1>4, <2>1 DEF Answer
  <2>3. Whole(st) /\ Sized(st)
    <3>1. n \in Nat \cup {None}
      OBVIOUS
    <3> QED
      BY <1>0, <3>1, ApiRunIs
  <2> HIDE DEF st
  <2>4. GoodPage(s) /\ s.graphing = page.graphing
    BY <1>0, <2>3, PageStored, SetGraphing
  <2> HIDE DEF s
  <2>5. GoodPage(p) /\ p.graphing = s.graphing
    BY <2>4, SelectedIs, SelectedGraphing
  <2> HIDE DEF p
  <2> QED
    BY <2>2, <2>4, <2>5, FreshTask
<1> QED
  BY <1>1, <1>2, <1>3, <1>4

LEMMA FreshRender == ASSUME PageInv, DrawnInv, Render PROVE DrawnInv'
<1> DEFINE q == EventEffect(page, pending)
           r == Committed(q, pending, page)
<1>1. /\ page' = r /\ drawn' = drawn /\ graph' = graph /\ agents' = agents
      /\ pending \in Event \cup {None} /\ GoodPage(page)
  BY DEF Render, PageInv, StreamInv, views
<1>2. GoodPage(q) /\ q.graphing = page.graphing
  BY <1>1, EventEffectIs, EventEffectGraphing DEF Commits
<1> HIDE DEF q
<1>3. Fresh(q)
  BY <1>2 DEF DrawnInv, Fresh
<1>4. Fresh(r)
  BY <1>1, <1>2, <1>3, CommittedFresh
<1> HIDE DEF r
<1>5. Fresh(page)'
  BY <1>1, <1>4 DEF Fresh
<1> QED
  BY <1>1, <1>5 DEF DrawnInv, Accounts

(* What leaves the waiting events, the drawn ones and the graph alone.     *)
LEMMA FreshQuiet ==
  ASSUME DrawnInv, page'.graphing = page.graphing, drawn' = drawn, graph' = graph, agents' \in Snapshots \cup {<<>>}
  PROVE  DrawnInv'
BY DEF DrawnInv, Fresh, Accounts

LEMMA FreshGraph == ASSUME PageInv, DrawnInv, GraphTick PROVE DrawnInv'
<1> DEFINE batch == page.graphing
           applied == GraphApply(graph, batch)
           overlaid == GraphSnapshot(applied, agents)
           more == drawn \cup ToSet(batch)
<1>1. /\ page' = [page EXCEPT !.graphing = <<>>, !.timer = FALSE] /\ agents' = agents /\ drawn' = more
      /\ graph' = IF batch = <<>> /\ graph # EmptyGraph THEN graph ELSE overlaid
  BY DEF GraphTick
<1>2. /\ GoodPage(page) /\ batch \in Seq(Event) /\ IsInjective(batch) /\ ToSet(batch) \cap drawn = {}
      /\ agents \in Snapshots \cup {<<>>} /\ Accounts(graph, drawn)
  BY PageIs DEF PageInv, DrawnInv, Fresh
<1> HIDE DEF batch
<1>3. Accounts(applied, more)
  BY <1>2, BatchAccounted
<1> HIDE DEF applied
<1>4. Accounts(overlaid, more)
  BY <1>2, <1>3, SnapshotAccounted
<1>5. batch = <<>> => more = drawn
  BY DEF ToSet
<1> HIDE DEF overlaid, more
<1>6. Accounts(graph', drawn')
  BY <1>1, <1>2, <1>4, <1>5
<1>7. page'.graphing = <<>>
  <2>1. page' = [queue |-> page.queue, buffer |-> page.buffer, store |-> page.store, graphing |-> <<>>, timer |-> FALSE]
    BY <1>1, <1>2 DEF GoodPage, Pages
  <2> QED
    BY <2>1
<1>8. Fresh(page)'
  BY <1>7 DEF Fresh, ToSet, IsInjective
<1> QED
  BY <1>1, <1>2, <1>6, <1>8 DEF DrawnInv, Accounts

LEMMA DrawnNext == PageInv /\ DrawnInv /\ [PageNext]_vars => DrawnInv'
<1> SUFFICES ASSUME PageInv, DrawnInv, [PageNext]_vars PROVE DrawnInv'
  OBVIOUS
<1>0. GoodPage(page) /\ agents \in Snapshots \cup {<<>>}
  BY DEF PageInv, DrawnInv
<1>1. CASE Publish \/ Connection \/ Age \/ \E s \in Socket : OnMessage(s)
  <2>1. page' = page /\ drawn' = drawn /\ graph' = graph /\ agents' = agents
    BY <1>1 DEF Publish, Connection, Age, OnMessage, views
  <2> QED
    BY <1>0, <2>1, FreshQuiet
<1>2. CASE PlayTick
  <2>1. page' = [page EXCEPT !.queue = Tail(page.queue)] /\ drawn' = drawn /\ graph' = graph /\ agents' = agents
    BY <1>2 DEF PlayTick
  <2>2. page'.graphing = page.graphing
    BY <1>0, <2>1, PageIs
  <2> QED
    BY <1>0, <2>1, <2>2, FreshQuiet
<1>3. ASSUME NEW s \in Snapshots, AgentsArrive(s) PROVE DrawnInv'
  <2>1. page' = [page EXCEPT !.timer = TRUE] /\ drawn' = drawn /\ graph' = graph /\ agents' = s
    BY <1>3 DEF AgentsArrive
  <2>2. page'.graphing = page.graphing
    BY <1>0, <2>1, PageIs
  <2> QED
    BY <2>1, <2>2, FreshQuiet
<1>4. CASE UNCHANGED vars
  <2>1. page' = page /\ drawn' = drawn /\ graph' = graph /\ agents' = agents
    BY <1>4 DEF vars, views
  <2> QED
    BY <1>0, <2>1, FreshQuiet
<1> QED
  BY <1>1, <1>2, <1>3, <1>4, FreshRender, FreshFlush, FreshGraph, FreshClick DEF PageNext

LEMMA DrawnInvariant == PageSpec => []DrawnInv
<1>1. PageInit => DrawnInv
  BY DrawnInit
<1>2. PageInv /\ DrawnInv /\ [PageNext]_vars => DrawnInv'
  BY DrawnNext
<1> QED
  BY <1>1, <1>2, PageInvariant, PTL DEF PageSpec

LEMMA DrawingsIs == ASSUME NEW f, NEW S PROVE MapThenSumSet(LAMBDA x : f[x], S) = SumOver(f, S)
<1> DEFINE iter[s \in SUBSET S] == IF s = {} THEN 0 ELSE LET x == CHOOSE x \in s : TRUE IN f[x] + iter[s \ {x}]
<1>1. MapThenSumSet(LAMBDA x : f[x], S) = iter[S]
  BY Zenon DEF MapThenSumSet, MapThenFoldSet
<1>2. SumOver(f, S) = iter[S]
  BY Zenon DEF SumOver, FoldFunctionOnSet, MapThenFoldSet
<1> QED
  BY <1>1, <1>2

(* Every handoff the graph was given is drawn once or waits for its ends,  *)
(* for any events, agents and batches (applyNormalizedEvents): no event is *)
(* given twice, and one turn of the loop draws a handoff or lets it wait.  *)
THEOREM HandoffsAlwaysAccounted == PageSpec => []HandoffsAccounted
<1>1. ASSUME DrawnInv PROVE HandoffsAccounted
  <2> DEFINE edges == {x \in DOMAIN graph.edges : x[3] = "TASK_HANDOFF"}
  <2>1. Drawings(graph.edges) + Cardinality(graph.unresolved) = Cardinality(HandoffsOf(drawn))
    BY <1>1 DEF DrawnInv, Accounts
  <2>2. MapThenSumSet(LAMBDA x : graph.edges[x], edges) = Drawings(graph.edges)
    <3>1. SumOver(graph.edges, edges) = Drawings(graph.edges)
      BY DEF Drawings, HandoffLines
    <3> HIDE DEF edges
    <3> QED
      BY <3>1, DrawingsIs
  <2> QED
    BY <2>1, <2>2 DEF HandoffsAccounted, HandoffsOf
<1> QED
  BY <1>1, DrawnInvariant, PTL
=============================================================================
