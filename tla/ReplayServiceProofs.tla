------------------------- MODULE ReplayServiceProofs -------------------------
(***************************************************************************)
(* Proofs about the replay service.                                        *)
(*                                                                         *)
(* Of its player (ReplayPlayer), for any connections, events, rates,       *)
(* targets and bounds, and however connections overlap: types, what a       *)
(* connection is sent and what it misses, and, of a connection that was     *)
(* never attached together with another, when its timer runs and that play  *)
(* starts its playback.                                                    *)
(*                                                                         *)
(* Of its ingestion (ReplayIngest), for any swarms, events, batches and    *)
(* number of posts: types, what the counters, rows and bookmarks of a      *)
(* swarm tell of the posts after any failures, and where its end comes     *)
(* from.                                                                   *)
(***************************************************************************)
EXTENDS ReplayPlayer, ReplayIngest, FiniteSetTheorems, WellFoundedInduction, NaturalsInduction, TLAPS

-----------------------------------------------------------------------------
(* The player                                                              *)

(* The map holds the object of a connection that has not closed; before it *)
(* connects, nothing of a connection runs or was sent.                     *)
CurrentInv ==
  /\ current # None => conn[current] \in Attached
  /\ \A c \in Conn : conn[c] = "new" => ~ticking[c] /\ got[c] = <<>>

(* What an open connection was sent is the run of events up to its index;  *)
(* before the run lie only events before the offset it was positioned at.  *)
First(c) == index[c] - Len(got[c])
Run(c) ==
  /\ First(c) >= 1
  /\ \A k \in DOMAIN got[c] : got[c][k] = First(c) + k - 1
  /\ \A k \in 1..(First(c) - 1) : At[k] < from[c]
Gapless(c) ==
  \A k \in DOMAIN got[c] : k < Len(got[c]) => got[c][k + 1] = got[c][k] + 1
SentInv == \A c \in Conn : Gapless(c) /\ (conn[c] = "open" => Run(c))

(* A connection that was never attached together with another is, while it *)
(* is attached, the only one and the one in the map; its timer runs only   *)
(* then, and while it plays.                                               *)
Alone(c) == c = current /\ \A d \in Conn \ {c} : conn[d] \notin Attached
PlaysIn(c) == c = current /\ ~session[c].paused /\ ~row.paused
AloneInv ==
  \A c \in Conn \ crossed : /\ conn[c] \in Attached => Alone(c)
                            /\ ticking[c] => PlaysIn(c)

IInv == TypeOK /\ CurrentInv /\ SentInv /\ AloneInv

-----------------------------------------------------------------------------
(* Seeking and draining.                                                   *)

(* A set of natural numbers that is not empty has a least element: the     *)
(* number of naturals below all its elements.                              *)
LEMMA MinFacts ==
  ASSUME NEW S \in SUBSET Nat, S # {}
  PROVE  Min(S) \in S /\ \A k \in S : Min(S) <= k
<1>1. PICK s \in S : TRUE
  OBVIOUS
<1> DEFINE Below == {k \in 0..s : \A j \in 0..k : j \notin S}
           m == Cardinality(Below)
<1>2. s \in Nat /\ s \notin Below
  OBVIOUS
<1>3. IsFiniteSet(0..s) /\ IsFiniteSet(Below) /\ m \in Nat
  <2>1. IsFiniteSet(0..s)
    BY <1>2, FS_Interval
  <2>2. IsFiniteSet(Below)
    BY <2>1, FS_Subset
  <2> QED BY <2>1, <2>2, FS_CardinalityType
<1>4. \A k \in 0..s : k \in Below => k < m
  <2> SUFFICES ASSUME NEW k \in Below
               PROVE  k < m
    OBVIOUS
  <2>1. k \in Nat /\ 0..k \in SUBSET Below
    BY <1>2
  <2>2. Cardinality(0..k) <= m
    BY <1>3, <2>1, FS_Subset
  <2>3. 0 \in Int /\ k \in Int /\ 0 <= k
    BY <2>1
  <2>4. Cardinality(0..k) = k + 1
    BY <2>3, FS_Interval
  <2> QED BY <1>3, <2>1, <2>2, <2>4
<1>5. \A k \in 0..s : k \notin Below => m <= k
  <2> SUFFICES ASSUME NEW k \in 0..s, k \notin Below
               PROVE  m <= k
    OBVIOUS
  <2>1. k \in Nat /\ Below \in SUBSET (0..(k - 1))
    BY <1>2
  <2>2. IsFiniteSet(0..(k - 1)) /\ Cardinality(0..(k - 1)) = k
    <3>1. 0 \in Int /\ k - 1 \in Int
      BY <2>1
    <3>2. Cardinality(0..(k - 1)) = IF 0 > k - 1 THEN 0 ELSE (k - 1) - 0 + 1
      BY <3>1, FS_Interval
    <3> QED BY <2>1, <3>1, <3>2, FS_Interval
  <2>3. m <= Cardinality(0..(k - 1))
    BY <2>1, <2>2, FS_Subset
  <2> QED BY <1>3, <2>1, <2>2, <2>3
<1> HIDE DEF m
<1>6. m \in 0..s /\ m \notin Below /\ \A k \in 0..(m - 1) : k \in Below
  BY <1>2, <1>3, <1>4, <1>5
<1>7. m \in S /\ \A k \in S : m <= k
  <2>1. \A k \in 0..(m - 1) : k \notin S
    BY <1>6
  <2>2. \E j \in 0..m : j \in S
    BY <1>6
  <2>3. m \in S
    BY <1>3, <2>1, <2>2
  <2> QED BY <1>3, <2>1, <2>3
<1> HIDE DEF Below
<1> QED BY <1>7 DEF Min

(* The seek lands on an event of the list or past it, and skips only       *)
(* events before the offset.                                               *)
LEMMA SeekFacts ==
  ASSUME NEW n \in 0..Len(At), NEW offset \in Nat
  PROVE  /\ SeekIndex(n, offset) \in 1..(n + 1)
         /\ \A k \in 1..(SeekIndex(n, offset) - 1) : At[k] < offset
<1> DEFINE S == {k \in 1..n : At[k] >= offset} \cup {n + 1}
<1>1. n \in Nat /\ S \in SUBSET Nat /\ S # {} /\ S \subseteq 1..(n + 1)
  BY AtAssumption
<1>2. Min(S) \in S /\ \A k \in S : Min(S) <= k
  BY <1>1, MinFacts
<1>3. \A k \in 1..n : At[k] \in Nat
  BY AtAssumption
<1>4. \A k \in 1..(Min(S) - 1) : At[k] < offset
  <2> TAKE k \in 1..(Min(S) - 1)
  <2>1. Min(S) \in Nat /\ Min(S) <= n + 1
    BY <1>1, <1>2
  <2>2. k \in 1..n /\ k \notin S
    BY <1>1, <1>2, <2>1
  <2> QED BY <1>3, <2>2
<1> HIDE DEF S
<1>5. SeekIndex(n, offset) = Min(S)
  BY DEF SeekIndex, S
<1> QED BY <1>1, <1>2, <1>4, <1>5

(* Draining moves on within the list, or past it.                          *)
LEMMA DrainFacts ==
  ASSUME NEW n \in 0..Len(At), NEW i \in 1..(n + 1), NEW position \in Nat
  PROVE  DrainIndex(n, i, position) \in i..(n + 1)
<1> DEFINE S == {k \in i..n : At[k] > position} \cup {n + 1}
<1>1. n \in Nat /\ S \in SUBSET Nat /\ S # {} /\ S \subseteq i..(n + 1)
  BY AtAssumption
<1>2. Min(S) \in S
  BY <1>1, MinFacts
<1> QED BY <1>1, <1>2 DEF DrainIndex

(* The elements of a concatenation.                                        *)
LEMMA ConcatFacts ==
  ASSUME NEW A, NEW s \in Seq(A), NEW t \in Seq(A)
  PROVE  /\ Len(s \o t) = Len(s) + Len(t)
         /\ \A k \in 1..Len(s) : (s \o t)[k] = s[k]
         /\ \A k \in (Len(s) + 1)..(Len(s) + Len(t)) : (s \o t)[k] = t[k - Len(s)]
OBVIOUS

(* The product of natural numbers is one.                                  *)
LEMMA Product == \A a, b \in Nat : a * b \in Nat
OBVIOUS

-----------------------------------------------------------------------------
(* The steps.                                                              *)

LEMMA InitInv == Init => IInv
<1> SUFFICES ASSUME Init
             PROVE  IInv
  OBVIOUS
<1> USE DEF Init
<1>1. TypeOK
  <2>1. row \in Session /\ session \in [Conn -> Session]
    BY DEF Session
  <2>2. /\ stored \in 0..Len(At) /\ events \in [Conn -> 0..Len(At)]
        /\ index \in [Conn -> 1..(Len(At) + 1)]
    BY AtAssumption
  <2>3. got \in [Conn -> Seq(1..Len(At))]
    OBVIOUS
  <2>4. controls \in 0..MaxControls
    BY BoundsAssumption
  <2> QED BY <2>1, <2>2, <2>3, <2>4 DEF TypeOK
<1>2. CurrentInv /\ AloneInv
  BY DEF CurrentInv, AloneInv, Attached
<1>3. SentInv
  BY DEF SentInv, Gapless
<1> QED BY <1>1, <1>2, <1>3 DEF IInv

(* Connections of which index, events sent and offset stay.                *)
LEMMA SentKept ==
  ASSUME SentInv, UNCHANGED <<index, got, from>>,
         \A c \in Conn : conn'[c] = "open" => conn[c] = "open"
  PROVE  SentInv'
BY DEF SentInv, Gapless, Run, First

LEMMA ConnectStep == \A c \in Conn : IInv /\ Connect(c) => IInv'
<1> SUFFICES ASSUME NEW c \in Conn, IInv, Connect(c)
             PROVE  IInv'
  OBVIOUS
<1>1. /\ conn[c] = "new" /\ conn' = [conn EXCEPT ![c] = "open"] /\ current' = c
      /\ session' = [session EXCEPT ![c] = row]
      /\ events' = [events EXCEPT ![c] = stored]
      /\ index' = [index EXCEPT ![c] = IF row.position > 0
                                         THEN SeekIndex(stored, row.position) ELSE 1]
      /\ from' = [from EXCEPT ![c] = row.position]
      /\ crossed' = IF {d \in Conn : conn[d] \in Attached} = {} THEN crossed
                     ELSE crossed \cup {d \in Conn : conn[d] \in Attached} \cup {c}
      /\ UNCHANGED <<row, stored, ticking, controls, got, seen, sought>>
  BY DEF Connect
<1>2. row \in Session /\ row.position \in Nat /\ stored \in 0..Len(At)
  BY DEF IInv, TypeOK, Session
<1>3. /\ SeekIndex(stored, row.position) \in 1..(stored + 1)
      /\ \A k \in 1..(SeekIndex(stored, row.position) - 1) : At[k] < row.position
  BY <1>2, SeekFacts
<1>4. /\ DOMAIN index = Conn /\ index'[c] \in 1..(stored + 1)
      /\ \A d \in Conn : d # c => index'[d] = index[d]
      /\ \A k \in 1..(index'[c] - 1) : At[k] < row.position
  <2>1. DOMAIN index = Conn
    BY DEF IInv, TypeOK
  <2>2. CASE row.position > 0
    BY <1>1, <1>3, <2>1, <2>2
  <2>3. CASE ~(row.position > 0)
    BY <1>1, <1>2, <2>1, <2>3
  <2> QED BY <2>2, <2>3
<1>5. TypeOK'
  <2>1. DOMAIN index' = Conn /\ \A d \in Conn : index'[d] \in 1..(events'[d] + 1)
    BY <1>1, <1>4 DEF IInv, TypeOK
  <2>2. index' \in [Conn -> 1..(Len(At) + 1)]
    BY <1>1, <1>2, <1>4, AtAssumption DEF IInv, TypeOK
  <2>3. /\ conn' \in [Conn -> {"new", "open", "closing", "closed"}]
        /\ session' \in [Conn -> Session] /\ events' \in [Conn -> 0..Len(At)]
        /\ from' \in [Conn -> Nat] /\ current' \in Conn \cup {None}
    BY <1>1, <1>2 DEF IInv, TypeOK
  <2>4. \A d \in Conn : index'[d] <= events'[d] + 1
    <3> TAKE d \in Conn
    <3>1. events'[d] \in Nat
      BY <2>3
    <3> QED BY <2>1, <3>1
  <2>5. /\ row' \in Session /\ stored' \in 0..Len(At) /\ ticking' \in [Conn -> BOOLEAN]
        /\ controls' \in 0..MaxControls /\ got' \in [Conn -> Seq(1..Len(At))]
        /\ seen' \subseteq 1..Len(At) /\ sought' \in Nat
    BY <1>1 DEF IInv, TypeOK
  <2>6. crossed' \subseteq Conn
    BY <1>1 DEF IInv, TypeOK
  <2> QED BY <2>2, <2>3, <2>4, <2>5, <2>6 DEF TypeOK
<1>6. CurrentInv'
  BY <1>1 DEF IInv, TypeOK, CurrentInv, Attached
<1>7. SentInv'
  <2>1. got'[c] = <<>> /\ from'[c] = row.position
    BY <1>1 DEF IInv, TypeOK, CurrentInv
  <2>2. Gapless(c)' /\ Run(c)'
    <3>1. index'[c] \in Nat /\ index'[c] >= 1
      BY <1>2, <1>4, AtAssumption
    <3>2. First(c)' = index'[c] /\ DOMAIN got'[c] = {}
      BY <2>1, <3>1 DEF First
    <3>3. Gapless(c)'
      BY <3>2 DEF Gapless
    <3>4. \A k \in 1..(index'[c] - 1) : At[k] < from'[c]
      BY <1>4, <2>1
    <3> QED BY <3>1, <3>2, <3>3, <3>4 DEF Run
  <2>3. \A d \in Conn : d # c => Gapless(d)' /\ (conn'[d] = "open" => Run(d)')
    <3> SUFFICES ASSUME NEW d \in Conn, d # c
                 PROVE  Gapless(d)' /\ (conn'[d] = "open" => Run(d)')
      OBVIOUS
    <3>1. /\ got'[d] = got[d] /\ from'[d] = from[d] /\ index'[d] = index[d]
          /\ conn'[d] = conn[d]
      BY <1>1, <1>4 DEF IInv, TypeOK
    <3>2. Gapless(d) /\ (conn[d] = "open" => Run(d))
      BY DEF IInv, SentInv
    <3>3. Gapless(d)'
      BY <3>1, <3>2 DEF Gapless
    <3>4. Run(d)' = Run(d)
      BY <3>1 DEF Run, First
    <3> QED BY <3>1, <3>2, <3>3, <3>4
  <2> QED BY <2>2, <2>3 DEF SentInv
<1>8. AloneInv'
  <2> DEFINE others == {d \in Conn : conn[d] \in Attached}
  <2>1. \A d \in Conn \ crossed : ticking[d] => d \in others
    BY NoneAssumption DEF IInv, AloneInv, PlaysIn, CurrentInv
  <2>2. ~ticking[c] /\ c \notin others
    BY <1>1 DEF IInv, CurrentInv, Attached
  <2>3. /\ \A d \in Conn \ crossed' : d \in Conn \ crossed /\ d \notin others
        /\ \A d \in Conn \ crossed' : conn'[d] \in Attached => d = c /\ others = {}
    BY <1>1 DEF IInv, TypeOK
  <2>4. \A d \in Conn \ {c} : d \notin others => conn'[d] \notin Attached
    BY <1>1 DEF IInv, TypeOK
  <2>5. \A d \in Conn \ crossed' : conn'[d] \in Attached => Alone(d)'
    BY <1>1, <2>3, <2>4 DEF Alone
  <2>6. \A d \in Conn \ crossed' : ~ticking'[d]
    BY <1>1, <2>1, <2>3
  <2> QED BY <2>5, <2>6 DEF AloneInv
<1> QED BY <1>5, <1>6, <1>7, <1>8 DEF IInv

(* A control: the row it writes, and what it does to the playback of the   *)
(* connection in the map.                                                  *)
LEMMA ApplyStep ==
  ASSUME IInv, NEW s \in Session, NEW ctrl \in Control, Apply(ctrl, s),
         UNCHANGED <<stored, conn, events, current>>
  PROVE  /\ row' \in Session
         /\ index' \in [Conn -> 1..(Len(At) + 1)]
         /\ \A c \in Conn : index'[c] <= events'[c] + 1
         /\ ticking' \in [Conn -> BOOLEAN]
         /\ got' \in [Conn -> Seq(1..Len(At))] /\ from' \in [Conn -> Nat]
         /\ sought' \in Nat
         /\ CurrentInv' /\ SentInv'
<1> USE DEF IInv
<1>1. CASE ctrl.action = "play" /\ Playing(s)
  <2>1. /\ row' = [position |-> s.position, rate |-> s.rate, paused |-> FALSE]
        /\ ticking' = [c \in Conn |-> ticking[c] \/ c = current]
        /\ UNCHANGED <<index, got, from, sought>>
    BY <1>1 DEF Playing, Persist
  <2>2. row' \in Session
    BY <2>1 DEF Session
  <2>3. ticking' \in [Conn -> BOOLEAN]
    BY <2>1 DEF TypeOK
  <2>4. CurrentInv'
    BY <2>1, NoneAssumption DEF CurrentInv, Attached
  <2>5. SentInv'
    BY <2>1, SentKept
  <2> QED BY <2>1, <2>2, <2>3, <2>4, <2>5 DEF TypeOK
<1>2. CASE ctrl.action = "pause" /\ Paused(s)
  <2>1. /\ row' = [position |-> s.position, rate |-> s.rate, paused |-> TRUE]
        /\ ticking' = [c \in Conn |-> ticking[c] /\ c # current]
        /\ UNCHANGED <<index, got, from, sought>>
    BY <1>2 DEF Paused, Persist
  <2>2. row' \in Session
    BY <2>1 DEF Session
  <2>3. ticking' \in [Conn -> BOOLEAN]
    BY <2>1 DEF TypeOK
  <2>4. CurrentInv'
    BY <2>1 DEF CurrentInv, Attached
  <2>5. SentInv'
    BY <2>1, SentKept
  <2> QED BY <2>1, <2>2, <2>3, <2>4, <2>5 DEF TypeOK
<1>3. CASE ctrl.action = "set_rate" /\ Rated(s, ctrl.rate)
  <2>1. /\ row' = [position |-> s.position, rate |-> ctrl.rate, paused |-> s.paused]
        /\ UNCHANGED <<ticking, index, got, from, sought>>
    BY <1>3 DEF Rated, Persist
  <2>2. ctrl.rate \in Nat
    BY <1>3, RateAssumption DEF Control
  <2>3. row' \in Session
    BY <2>1, <2>2 DEF Session
  <2>4. SentInv'
    BY <2>1, SentKept
  <2> QED BY <2>1, <2>3, <2>4 DEF TypeOK, CurrentInv
<1>4. CASE ctrl.action = "bookmark" /\ Bookmarked
  <2>1. SentInv'
    BY <1>4, SentKept DEF Bookmarked
  <2> QED BY <1>4, <2>1 DEF Bookmarked, TypeOK, CurrentInv
<1>5. CASE ctrl.action = "seek" /\ Sought(s, ctrl.target)
  <2> DEFINE t == ctrl.target
  <2>1. /\ row' = [position |-> t, rate |-> s.rate, paused |-> TRUE]
        /\ ticking' = [c \in Conn |-> ticking[c] /\ c # current]
        /\ index' = [c \in Conn |-> IF c = current THEN SeekIndex(events[c], t)
                                                   ELSE index[c]]
        /\ got' = [c \in Conn |-> IF c = current THEN <<>> ELSE got[c]]
        /\ from' = [c \in Conn |-> IF c = current THEN t ELSE from[c]]
        /\ sought' = Max({sought, t})
    BY <1>5 DEF Sought, Persist
  <2>2. t \in Nat
    BY <1>5, RateAssumption DEF Control
  <2> HIDE DEF t
  <2>3. row' \in Session
    BY <2>1, <2>2 DEF Session
  <2>4. sought' \in Nat
    <3>1. sought \in Nat
      BY DEF TypeOK
    <3>2. \E x \in {sought, t} : \A y \in {sought, t} : x >= y
      BY <2>2, <3>1
    <3>3. Max({sought, t}) \in {sought, t}
      BY <3>2 DEF Max
    <3> QED BY <2>1, <2>2, <3>1, <3>3
  <2>5. \A c \in Conn : /\ SeekIndex(events[c], t) \in 1..(events[c] + 1)
                        /\ \A k \in 1..(SeekIndex(events[c], t) - 1) : At[k] < t
    BY <2>2, SeekFacts DEF TypeOK
  <2>6. /\ index' \in [Conn -> 1..(Len(At) + 1)]
        /\ \A c \in Conn : index'[c] <= events'[c] + 1
    <3>1. \A c \in Conn : SeekIndex(events[c], t) \in 1..(Len(At) + 1)
      BY <2>5, AtAssumption DEF TypeOK
    <3>2. index' \in [Conn -> 1..(Len(At) + 1)]
      BY <2>1, <3>1 DEF TypeOK
    <3>3. \A c \in Conn : events'[c] = events[c] /\ events[c] \in Nat
      BY AtAssumption DEF TypeOK
    <3>4. \A c \in Conn : index[c] <= events[c] + 1
      BY DEF TypeOK
    <3> QED BY <2>1, <2>5, <3>2, <3>3, <3>4
  <2>7. /\ ticking' \in [Conn -> BOOLEAN] /\ from' \in [Conn -> Nat]
        /\ got' \in [Conn -> Seq(1..Len(At))]
    <3>1. <<>> \in Seq(1..Len(At))
      OBVIOUS
    <3> QED BY <2>1, <2>2, <3>1 DEF TypeOK
  <2>8. CurrentInv'
    BY <2>1 DEF CurrentInv, Attached
  <2>9. SentInv'
    <3>1. ASSUME NEW c \in Conn, c = current
          PROVE  Gapless(c)' /\ Run(c)'
      <4>1. /\ got'[c] = <<>> /\ from'[c] = t
            /\ index'[c] = SeekIndex(events[c], t)
        BY <2>1, <3>1
      <4>2. events[c] \in Nat
        BY AtAssumption DEF TypeOK
      <4> QED BY <2>5, <4>1, <4>2 DEF Gapless, Run, First
    <3>2. ASSUME NEW c \in Conn, c # current
          PROVE  Gapless(c)' /\ (conn'[c] = "open" => Run(c)')
      <4>1. got'[c] = got[c] /\ from'[c] = from[c] /\ index'[c] = index[c]
        BY <2>1, <3>2
      <4> QED BY <4>1 DEF SentInv, Gapless, Run, First
    <3> QED BY <3>1, <3>2 DEF SentInv
  <2> QED BY <2>3, <2>4, <2>6, <2>7, <2>8, <2>9
<1> QED BY <1>1, <1>2, <1>3, <1>4, <1>5 DEF Apply

(* The session a control leaves in the map's object is one.                *)
LEMMA HeldType ==
  ASSUME NEW s \in Session, NEW ctrl \in Control
  PROVE  /\ Held(ctrl, s) \in Session
         /\ ctrl.action = "play" => ~Held(ctrl, s).paused
         /\ ctrl.action \in {"set_rate", "bookmark"} =>
              Held(ctrl, s).paused = s.paused
<1>1. ctrl.action = "seek" => ctrl.target \in Nat
  BY RateAssumption DEF Control
<1>2. ctrl.action = "set_rate" => ctrl.rate \in Nat
  BY RateAssumption DEF Control
<1>3. ctrl.action \in {"play", "pause", "bookmark", "seek", "set_rate"}
  BY DEF Control
<1> QED BY <1>1, <1>2, <1>3 DEF Held, Session

LEMMA RestStep == \A ctrl \in Control : IInv /\ RestControl(ctrl) => IInv'
<1> SUFFICES ASSUME NEW ctrl \in Control, IInv, RestControl(ctrl)
             PROVE  IInv'
  OBVIOUS
<1>1. /\ Counted /\ Apply(ctrl, row)
      /\ session' = [c \in Conn |-> IF c = current THEN Held(ctrl, session[c])
                                                   ELSE session[c]]
      /\ UNCHANGED <<stored, conn, events, current, seen, crossed>>
  BY DEF RestControl
<1>2. row \in Session /\ \A c \in Conn : session[c] \in Session
  BY DEF IInv, TypeOK
<1>3. /\ row' \in Session
      /\ index' \in [Conn -> 1..(Len(At) + 1)]
      /\ \A c \in Conn : index'[c] <= events'[c] + 1
      /\ ticking' \in [Conn -> BOOLEAN]
      /\ got' \in [Conn -> Seq(1..Len(At))] /\ from' \in [Conn -> Nat]
      /\ sought' \in Nat
      /\ CurrentInv' /\ SentInv'
  BY <1>1, <1>2, ApplyStep
<1>4. session' \in [Conn -> Session]
  BY <1>1, <1>2, HeldType
<1>5. controls' \in 0..MaxControls
  BY <1>1, BoundsAssumption DEF Counted, IInv, TypeOK
<1>6. TypeOK'
  BY <1>1, <1>3, <1>4, <1>5 DEF IInv, TypeOK
<1>7. AloneInv'
  <2>1. \A c \in Conn \ crossed' : conn'[c] \in Attached => Alone(c)'
    BY <1>1 DEF IInv, AloneInv, Alone
  <2> SUFFICES ASSUME NEW c \in Conn \ crossed, ticking'[c]
               PROVE  PlaysIn(c)'
    BY <1>1, <2>1 DEF AloneInv
  <2> SUFFICES c = current /\ ~session'[c].paused /\ ~row'.paused
    BY <1>1 DEF PlaysIn
  <2>9. ticking[c] => c = current /\ ~session[c].paused /\ ~row.paused
    BY DEF IInv, AloneInv, PlaysIn
  <2>2. CASE ctrl.action = "play" /\ Playing(row)
    <3>1. (ticking[c] \/ c = current) /\ ~row'.paused
      BY <2>2 DEF Playing, Persist
    <3> QED BY <1>1, <1>2, <2>9, <2>2, <3>1, HeldType
  <2>3. CASE ctrl.action = "set_rate" /\ Rated(row, ctrl.rate)
    <3>1. ticking[c] /\ row'.paused = row.paused
      BY <2>3 DEF Rated, Persist
    <3>2. session'[c].paused = session[c].paused
      BY <1>1, <1>2, <2>9, <2>3, <3>1, HeldType
    <3> QED BY <2>9, <3>1, <3>2
  <2>4. CASE ctrl.action = "bookmark" /\ Bookmarked
    <3>1. ticking[c] /\ row' = row
      BY <2>4 DEF Bookmarked
    <3>2. session'[c].paused = session[c].paused
      BY <1>1, <1>2, <2>9, <2>4, <3>1, HeldType
    <3> QED BY <2>9, <3>1, <3>2
  <2>5. CASE Paused(row) \/ (ctrl.action = "seek" /\ Sought(row, ctrl.target))
    <3>1. ticking[c] /\ c # current
      BY <2>5 DEF Paused, Sought
    <3> QED BY <2>9, <3>1
  <2> QED BY <1>1, <2>2, <2>3, <2>4, <2>5 DEF Apply
<1> QED BY <1>3, <1>6, <1>7 DEF IInv

LEMMA WsStep == \A c \in Conn, ctrl \in Control : IInv /\ WsControl(c, ctrl) => IInv'
<1> SUFFICES ASSUME NEW c \in Conn, NEW ctrl \in Control, IInv, WsControl(c, ctrl)
             PROVE  IInv'
  OBVIOUS
<1>1. /\ conn[c] = "open" /\ Counted /\ Apply(ctrl, session[c])
      /\ session' = [d \in Conn |-> IF d = c THEN row'
                                    ELSE IF d = current THEN Held(ctrl, session[d])
                                    ELSE session[d]]
      /\ UNCHANGED <<stored, conn, events, current, seen, crossed>>
  BY DEF WsControl
<1>2. row \in Session /\ \A d \in Conn : session[d] \in Session
  BY DEF IInv, TypeOK
<1>3. /\ row' \in Session
      /\ index' \in [Conn -> 1..(Len(At) + 1)]
      /\ \A d \in Conn : index'[d] <= events'[d] + 1
      /\ ticking' \in [Conn -> BOOLEAN]
      /\ got' \in [Conn -> Seq(1..Len(At))] /\ from' \in [Conn -> Nat]
      /\ sought' \in Nat
      /\ CurrentInv' /\ SentInv'
  BY <1>1, <1>2, ApplyStep
<1>4. session' \in [Conn -> Session]
  BY <1>1, <1>2, <1>3, HeldType
<1>5. controls' \in 0..MaxControls
  BY <1>1, BoundsAssumption DEF Counted, IInv, TypeOK
<1>6. TypeOK'
  BY <1>1, <1>3, <1>4, <1>5 DEF IInv, TypeOK
<1>7. AloneInv'
  <2>8. \A d \in Conn \ crossed' : conn'[d] \in Attached => Alone(d)'
    BY <1>1 DEF IInv, AloneInv, Alone
  <2> SUFFICES ASSUME NEW d \in Conn \ crossed, ticking'[d]
               PROVE  PlaysIn(d)'
    BY <1>1, <2>8 DEF AloneInv
  <2> SUFFICES d = current /\ ~session'[d].paused /\ ~row'.paused
    BY <1>1 DEF PlaysIn
  <2>9. ticking[d] => d = current /\ ~session[d].paused /\ ~row.paused
    BY DEF IInv, AloneInv, PlaysIn
  <2>10. d = current
    BY <1>1, <2>9 DEF Apply, Playing, Paused, Sought, Rated, Bookmarked
  <2>11. Alone(d)
    BY <2>10, NoneAssumption DEF IInv, CurrentInv, AloneInv
  <2>1. c = current
    BY <1>1, <2>10, <2>11 DEF Alone, Attached
  <2>2. ticking[d] => d = c /\ ~session[c].paused /\ ~row.paused
    BY <2>1, <2>9
  <2>3. session'[c] = row'
    BY <1>1
  <2>4. CASE Playing(session[c])
    <3>1. (ticking[d] \/ d = current) /\ ~row'.paused
      BY <2>4 DEF Playing, Persist
    <3> QED BY <2>1, <2>2, <2>3, <3>1
  <2>5. CASE ctrl.action = "set_rate" /\ Rated(session[c], ctrl.rate)
    <3>1. ticking[d] /\ row'.paused = session[c].paused
      BY <2>5 DEF Rated, Persist
    <3> QED BY <2>1, <2>2, <2>3, <3>1
  <2>6. CASE Bookmarked
    <3>1. ticking[d] /\ row' = row
      BY <2>6 DEF Bookmarked
    <3> QED BY <2>1, <2>2, <2>3, <3>1
  <2>7. CASE Paused(session[c]) \/ (ctrl.action = "seek" /\ Sought(session[c], ctrl.target))
    <3>1. ticking[d] /\ d # current
      BY <2>7 DEF Paused, Sought
    <3> QED BY <2>1, <2>2, <3>1
  <2> QED BY <1>1, <2>4, <2>5, <2>6, <2>7 DEF Apply
<1> QED BY <1>3, <1>6, <1>7 DEF IInv

(* The tick appends the events that became due to the run.                 *)
LEMMA TickStep == \A c \in Conn : IInv /\ Tick(c) => IInv'
<1> SUFFICES ASSUME NEW c \in Conn, IInv, Tick(c)
             PROVE  IInv'
  OBVIOUS
<1>1. PICK elapsed \in 1..MaxElapsed :
        LET position == session[c].position + elapsed * session[c].rate
            next == DrainIndex(events[c], index[c], position)
            batch == index[c]..(next - 1)
            ended == next > events[c]
        IN  /\ session' = [session EXCEPT ![c].position = position,
                                          ![c].paused = ended]
            /\ index' = [index EXCEPT ![c] = next]
            /\ ticking' = [ticking EXCEPT ![c] = ~ended]
            /\ IF conn[c] = "open"
                 THEN /\ got' = [got EXCEPT ![c] =
                                   @ \o [k \in 1..(next - index[c]) |-> index[c] + k - 1]]
                      /\ seen' = seen \cup batch
                 ELSE UNCHANGED <<got, seen>>
  BY DEF Tick
<1> DEFINE position == session[c].position + elapsed * session[c].rate
           next == DrainIndex(events[c], index[c], position)
           ended == next > events[c]
           more == [k \in 1..(next - index[c]) |-> index[c] + k - 1]
<1>2. /\ ticking[c] /\ ~session[c].paused
      /\ session' = [session EXCEPT ![c].position = position, ![c].paused = ended]
      /\ index' = [index EXCEPT ![c] = next]
      /\ ticking' = [ticking EXCEPT ![c] = ~ended]
      /\ UNCHANGED <<row, stored, conn, events, current, controls, from, sought, crossed>>
  BY <1>1 DEF Tick
<1>3. /\ conn[c] = "open" => got' = [got EXCEPT ![c] = @ \o more]
                             /\ seen' = seen \cup (index[c]..(next - 1))
      /\ conn[c] # "open" => UNCHANGED <<got, seen>>
  BY <1>1
<1>4. position \in Nat
  <2>1. session[c] \in Session /\ elapsed \in Nat
    BY BoundsAssumption DEF IInv, TypeOK
  <2>2. session[c].position \in Nat /\ session[c].rate \in Nat
    BY <2>1 DEF Session
  <2> QED BY <2>1, <2>2, Product
<1> HIDE DEF position
<1>5. /\ next \in index[c]..(events[c] + 1)
      /\ index[c] \in Nat /\ index[c] >= 1 /\ events[c] \in 0..Len(At) /\ Len(At) \in Nat
  <2>1. /\ events[c] \in 0..Len(At) /\ index[c] \in 1..(events[c] + 1)
        /\ Len(At) \in Nat
    BY AtAssumption DEF IInv, TypeOK
  <2>2. next \in index[c]..(events[c] + 1)
    BY <1>4, <2>1, DrainFacts
  <2> QED BY <2>1, <2>2
<1> HIDE DEF next
<1>6. /\ more \in Seq(1..Len(At)) /\ Len(more) = next - index[c]
      /\ \A k \in 1..(next - index[c]) : more[k] = index[c] + k - 1
  <2>1. next - index[c] \in Nat
    BY <1>5
  <2>2. \A k \in 1..(next - index[c]) : index[c] + k - 1 \in 1..Len(At)
    BY <1>5
  <2> QED BY <2>1, <2>2
<1> HIDE DEF more
<1>7. /\ session' \in [Conn -> Session]
      /\ index' \in [Conn -> 1..(Len(At) + 1)]
      /\ \A d \in Conn : index'[d] <= events'[d] + 1
  <2>1. session[c] \in Session /\ ended \in BOOLEAN
    BY DEF IInv, TypeOK
  <2>2. [session[c] EXCEPT !.position = position, !.paused = ended] \in Session
    BY <1>4, <2>1 DEF Session
  <2>3. session' \in [Conn -> Session]
    BY <1>2, <2>2 DEF IInv, TypeOK
  <2>4. index' \in [Conn -> 1..(Len(At) + 1)]
    BY <1>2, <1>5 DEF IInv, TypeOK
  <2>5. \A d \in Conn : index'[d] <= events'[d] + 1
    <3> TAKE d \in Conn
    <3>1. /\ index[d] <= events[d] + 1 /\ events'[d] = events[d]
          /\ index'[d] = IF d = c THEN next ELSE index[d]
      BY <1>2 DEF IInv, TypeOK
    <3>2. next <= events[c] + 1
      BY <1>5
    <3> QED BY <3>1, <3>2
  <2> QED BY <2>3, <2>4, <2>5
<1>8. got' \in [Conn -> Seq(1..Len(At))] /\ seen' \subseteq 1..Len(At)
  <2>1. got[c] \o more \in Seq(1..Len(At))
    BY <1>6 DEF IInv, TypeOK
  <2>2. index[c]..(next - 1) \subseteq 1..Len(At)
    BY <1>5
  <2> QED BY <1>3, <2>1, <2>2 DEF IInv, TypeOK
<1>9. TypeOK'
  BY <1>2, <1>7, <1>8 DEF IInv, TypeOK
<1>10. CurrentInv'
  <2>1. conn[c] # "new"
    BY <1>2 DEF IInv, CurrentInv
  <2> QED BY <1>2, <1>3, <2>1 DEF IInv, TypeOK, CurrentInv
<1>11. AloneInv'
  <2>1. session[c] \in Session /\ ended \in BOOLEAN
    BY DEF IInv, TypeOK
  <2>2. /\ session' = [session EXCEPT ![c] =
                          [@ EXCEPT !.position = position, !.paused = ended]]
        /\ DOMAIN session = Conn /\ DOMAIN ticking = Conn
    BY <1>2 DEF IInv, TypeOK
  <2>3. session'[c].paused = ended
    BY <2>1, <2>2 DEF Session
  <2> HIDE DEF ended
  <2>4. /\ ticking'[c] = ~ended
        /\ \A d \in Conn : d # c => ticking'[d] = ticking[d] /\ session'[d] = session[d]
    BY <1>2, <2>2
  <2> QED BY <1>2, <2>3, <2>4 DEF IInv, AloneInv, Alone, PlaysIn
<1>12. SentInv'
  <2>1. ASSUME NEW d \in Conn, d # c
        PROVE  Gapless(d)' /\ (conn'[d] = "open" => Run(d)')
    <3>1. got'[d] = got[d] /\ from'[d] = from[d] /\ index'[d] = index[d]
      BY <1>2, <1>3, <2>1 DEF IInv, TypeOK
    <3> QED BY <1>2, <3>1 DEF IInv, SentInv, Gapless, Run, First
  <2>2. CASE conn[c] # "open"
    <3>1. \A d \in Conn : Gapless(d)'
      BY <1>3, <2>2 DEF IInv, SentInv, Gapless
    <3> QED BY <1>2, <2>1, <2>2, <3>1 DEF SentInv
  <2>3. CASE conn[c] = "open"
    <3> DEFINE n == Len(got[c])
    <3>1. /\ got[c] \in Seq(1..Len(At)) /\ n \in Nat /\ DOMAIN got[c] = 1..n
          /\ got'[c] = got[c] \o more /\ from'[c] = from[c] /\ index'[c] = next
      <4>1. got \in [Conn -> Seq(1..Len(At))] /\ DOMAIN index = Conn
        BY DEF IInv, TypeOK
      <4>2. got[c] \in Seq(1..Len(At))
        BY <4>1
      <4>3. n \in Nat /\ DOMAIN got[c] = 1..n
        BY <4>2
      <4> QED BY <1>2, <1>3, <2>3, <4>1, <4>2, <4>3
    <3>2. /\ Len(got'[c]) = n + (next - index[c])
          /\ DOMAIN got'[c] = 1..(n + (next - index[c]))
          /\ \A k \in 1..n : got'[c][k] = got[c][k]
          /\ \A k \in (n + 1)..(n + (next - index[c])) : got'[c][k] = more[k - n]
      <4>1. next - index[c] \in Nat
        BY <1>5
      <4> HIDE DEF n
      <4>2. Len(got[c]) = n
        BY DEF n
      <4>3. /\ Len(got[c] \o more) = n + (next - index[c])
            /\ \A k \in 1..n : (got[c] \o more)[k] = got[c][k]
            /\ \A k \in (n + 1)..(n + (next - index[c])) :
                 (got[c] \o more)[k] = more[k - n]
        <5>1. /\ Len(got[c] \o more) = Len(got[c]) + Len(more)
              /\ \A k \in 1..Len(got[c]) : (got[c] \o more)[k] = got[c][k]
              /\ \A k \in (Len(got[c]) + 1)..(Len(got[c]) + Len(more)) :
                   (got[c] \o more)[k] = more[k - Len(got[c])]
          <6>1. got[c] \in Seq(1..Len(At)) /\ more \in Seq(1..Len(At))
            BY <1>6, <3>1
          <6> QED BY <6>1, ConcatFacts
        <5> QED BY <1>6, <4>2, <5>1
      <4>4. DOMAIN (got[c] \o more) = 1..(n + (next - index[c]))
        BY <1>6, <3>1, <4>3
      <4> QED BY <3>1, <4>3, <4>4
    <3>3. First(c)' = First(c) /\ First(c) = index[c] - n /\ First(c) \in Int
      BY <1>5, <3>1, <3>2 DEF First
    <3>4. /\ First(c) >= 1
          /\ \A k \in 1..n : got[c][k] = First(c) + k - 1
          /\ \A k \in 1..(First(c) - 1) : At[k] < from[c]
      BY <2>3, <3>1 DEF IInv, SentInv, Run
    <3> HIDE DEF n
    <3>5. \A k \in DOMAIN got'[c] : got'[c][k] = First(c) + k - 1
      <4> TAKE k \in DOMAIN got'[c]
      <4>1. CASE k \in 1..n
        BY <3>2, <3>4, <4>1
      <4>2. CASE k \in (n + 1)..(n + (next - index[c]))
        <5>1. k - n \in 1..(next - index[c])
          <6>1. n \in Nat /\ next - index[c] \in Nat
            BY <1>5, <3>1
          <6> QED BY <6>1, <4>2
        <5>2. got'[c][k] = index[c] + (k - n) - 1
          BY <1>6, <3>2, <4>2, <5>1
        <5>3. k \in Nat /\ n \in Nat /\ index[c] \in Nat
          BY <1>5, <3>1, <4>2
        <5> QED BY <3>3, <5>2, <5>3
      <4>3. n \in Nat /\ next - index[c] \in Nat /\ k \in 1..(n + (next - index[c]))
        BY <1>5, <3>1, <3>2
      <4>4. k \in 1..n \/ k \in (n + 1)..(n + (next - index[c]))
        BY <4>3
      <4> QED BY <4>1, <4>2, <4>4
    <3>6. Run(c)'
      BY <3>1, <3>3, <3>4, <3>5 DEF Run
    <3>7. Gapless(c)'
      <4> SUFFICES ASSUME NEW k \in DOMAIN got'[c], k < Len(got'[c])
                   PROVE  got'[c][k + 1] = got'[c][k] + 1
        BY DEF Gapless
      <4>1. k \in Nat /\ k + 1 \in DOMAIN got'[c]
        <5>1. PICK m \in Nat : m = n + (next - index[c])
          BY <1>5, <3>1
        <5>2. DOMAIN got'[c] = 1..m /\ Len(got'[c]) = m
          BY <3>2, <5>1
        <5>3. k \in 1..m /\ k < m
          BY <5>2
        <5>4. k \in Nat /\ k + 1 \in 1..m
          BY ONLY <5>1, <5>3
        <5> QED
          BY <5>2, <5>4
      <4>2. /\ got'[c][k] = First(c) + k - 1
            /\ got'[c][k + 1] = First(c) + (k + 1) - 1
        BY <3>5, <4>1
      <4> QED BY <3>3, <4>1, <4>2
    <3> QED BY <3>6, <3>7, <2>1 DEF SentInv
  <2> QED BY <2>1, <2>2, <2>3 DEF SentInv
<1> QED BY <1>9, <1>10, <1>11, <1>12 DEF IInv

LEMMA LeaveStep == \A c \in Conn : IInv /\ Leave(c) => IInv'
<1> SUFFICES ASSUME NEW c \in Conn, IInv, Leave(c)
             PROVE  IInv'
  OBVIOUS
<1>1. /\ conn[c] = "open" /\ conn' = [conn EXCEPT ![c] = "closing"]
      /\ UNCHANGED <<row, stored, session, events, index, ticking, current,
                     controls, got, from, seen, sought, crossed>>
  BY DEF Leave
<1>2. TypeOK'
  BY <1>1 DEF IInv, TypeOK
<1>3. CurrentInv' /\ AloneInv'
  BY <1>1 DEF IInv, TypeOK, CurrentInv, AloneInv, Alone, PlaysIn, Attached
<1>4. SentInv'
  <2>1. \A d \in Conn : conn'[d] = "open" => conn[d] = "open"
    BY <1>1 DEF IInv, TypeOK
  <2> QED BY <1>1, <2>1, SentKept DEF IInv
<1> QED BY <1>2, <1>3, <1>4 DEF IInv

LEMMA OnCloseStep == \A c \in Conn : IInv /\ OnClose(c) => IInv'
<1> SUFFICES ASSUME NEW c \in Conn, IInv, OnClose(c)
             PROVE  IInv'
  OBVIOUS
<1>1. /\ conn[c] = "closing" /\ conn' = [conn EXCEPT ![c] = "closed"]
      /\ ticking' = [d \in Conn |-> ticking[d] /\ d # current]
      /\ current' = None
      /\ UNCHANGED <<row, stored, session, events, index, controls, got, from,
                     seen, sought, crossed>>
  BY DEF OnClose
<1>2. TypeOK'
  BY <1>1 DEF IInv, TypeOK
<1>3. CurrentInv'
  BY <1>1 DEF IInv, TypeOK, CurrentInv
<1>4. AloneInv'
  <2>1. \A d \in Conn \ crossed : conn'[d] \notin Attached
    BY <1>1 DEF IInv, TypeOK, AloneInv, Alone, Attached
  <2>2. \A d \in Conn \ crossed : ~ticking'[d]
    BY <1>1 DEF IInv, AloneInv, PlaysIn
  <2> QED BY <1>1, <2>1, <2>2 DEF AloneInv
<1>5. SentInv'
  <2>1. \A d \in Conn : conn'[d] = "open" => conn[d] = "open"
    BY <1>1 DEF IInv, TypeOK
  <2> QED BY <1>1, <2>1, SentKept DEF IInv
<1> QED BY <1>2, <1>3, <1>4, <1>5 DEF IInv

LEMMA RestartStep == IInv /\ Restart => IInv'
<1> SUFFICES ASSUME IInv, Restart
             PROVE  IInv'
  OBVIOUS
<1>1. /\ Counted
      /\ conn' = [c \in Conn |-> IF conn[c] = "new" THEN "new" ELSE "closed"]
      /\ ticking' = [c \in Conn |-> FALSE] /\ current' = None
      /\ UNCHANGED <<row, stored, session, events, index, got, from, seen, sought, crossed>>
  BY DEF Restart
<1>2. TypeOK'
  <2>1. controls' \in 0..MaxControls
    BY <1>1, BoundsAssumption DEF Counted, IInv, TypeOK
  <2> QED BY <1>1, <2>1 DEF IInv, TypeOK
<1>3. CurrentInv' /\ AloneInv'
  BY <1>1 DEF IInv, TypeOK, CurrentInv, AloneInv, Attached
<1>4. SentInv'
  <2>1. \A d \in Conn : conn'[d] # "open"
    BY <1>1
  <2> QED BY <1>1, <2>1 DEF IInv, SentInv, Gapless
<1> QED BY <1>2, <1>3, <1>4 DEF IInv

LEMMA IngestStep == IInv /\ Ingest => IInv'
<1> SUFFICES ASSUME IInv, Ingest
             PROVE  IInv'
  OBVIOUS
<1>1. /\ stored' = stored + 1 /\ stored < Len(At)
      /\ UNCHANGED <<row, conn, session, events, index, ticking, current,
                     controls, got, from, seen, sought, crossed>>
  BY DEF Ingest
<1>2. TypeOK'
  <2>1. stored' \in 0..Len(At)
    BY <1>1, AtAssumption DEF IInv, TypeOK
  <2> QED BY <1>1, <2>1 DEF IInv, TypeOK
<1>3. CurrentInv' /\ AloneInv'
  BY <1>1 DEF IInv, CurrentInv, AloneInv, Alone, PlaysIn
<1>4. SentInv'
  BY <1>1, SentKept DEF IInv
<1> QED BY <1>2, <1>3, <1>4 DEF IInv

(* Every step preserves the invariant.                                     *)
LEMMA NextInv == IInv /\ [Next]_vars => IInv'
<1> SUFFICES ASSUME IInv, [Next]_vars
             PROVE  IInv'
  OBVIOUS
<1>1. CASE Ingest
  BY <1>1, IngestStep
<1>2. CASE Restart
  BY <1>2, RestartStep
<1>3. ASSUME NEW ctrl \in Control, RestControl(ctrl)
      PROVE  IInv'
  BY <1>3, RestStep
<1>4. ASSUME NEW c \in Conn, NEW ctrl \in Control, WsControl(c, ctrl)
      PROVE  IInv'
  BY <1>4, WsStep
<1>5. ASSUME NEW c \in Conn, Connect(c) \/ Tick(c) \/ Leave(c) \/ OnClose(c)
      PROVE  IInv'
  BY <1>5, ConnectStep, TickStep, LeaveStep, OnCloseStep
<1>6. CASE UNCHANGED vars
  <2>1. SentInv'
    BY <1>6, SentKept DEF vars, IInv
  <2> QED BY <1>6, <2>1 DEF vars, IInv, TypeOK, CurrentInv, AloneInv, Alone,
                            PlaysIn
<1> QED BY <1>1, <1>2, <1>3, <1>4, <1>5, <1>6 DEF Next

LEMMA Invariance == Spec => []IInv
BY InitInv, NextInv, PTL DEF Spec

-----------------------------------------------------------------------------
(* The variables keep their types; no index leaves its list.               *)
THEOREM TypeCorrect == Spec => []TypeOK
<1>1. IInv => TypeOK
  BY DEF IInv
<1> QED BY <1>1, Invariance, PTL

(* Whatever controls, reconnections and restarts interleave, a connection  *)
(* is sent a run of events without gaps or repeats since its last seek.    *)
THEOREM NoGapNoRepeat == Spec => []Contiguous
<1>1. IInv => Contiguous
  <2> SUFFICES ASSUME IInv, NEW c \in Conn, NEW k \in DOMAIN got[c]
               PROVE  /\ k < Len(got[c]) => got[c][k + 1] = got[c][k] + 1
                      /\ k = Len(got[c]) /\ conn[c] = "open" => got[c][k] = index[c] - 1
    BY DEF Contiguous
  <2>1. got[c] \in Seq(1..Len(At)) /\ index[c] \in Int
    BY DEF IInv, TypeOK
  <2>2. Len(got[c]) \in Nat
    BY <2>1
  <2> QED BY <2>1, <2>2 DEF IInv, SentInv, Gapless, Run, First
<1> QED BY <1>1, Invariance, PTL

(* Playback skips only events before the offset it was positioned at.      *)
THEOREM OnlyPastSkipped == Spec => []SkipsOnlyPast
<1>1. IInv => SkipsOnlyPast
  <2> SUFFICES ASSUME IInv, NEW c \in Conn, conn[c] = "open",
                      NEW k \in 1..(index[c] - 1), ~(At[k] < from[c])
               PROVE  \E j \in DOMAIN got[c] : got[c][j] = k
    BY DEF SkipsOnlyPast
  <2>1. got[c] \in Seq(1..Len(At)) /\ index[c] \in Int
    BY DEF IInv, TypeOK
  <2>2. Len(got[c]) \in Nat /\ DOMAIN got[c] = 1..Len(got[c])
    BY <2>1
  <2>3. Run(c)
    BY DEF IInv, SentInv
  <2>4. First(c) = index[c] - Len(got[c]) /\ First(c) \in Int
    BY <2>1, <2>2 DEF First
  <2>5. k >= First(c)
    BY <2>3, <2>4 DEF Run
  <2>6. k - First(c) + 1 \in DOMAIN got[c]
    BY <2>1, <2>2, <2>4, <2>5
  <2>7. got[c][k - First(c) + 1] = k
    BY <2>3, <2>4, <2>6 DEF Run
  <2> QED BY <2>6, <2>7
<1> QED BY <1>1, Invariance, PTL

(* The timer of a connection that was never attached together with another *)
(* runs only while it is the one in the map and both its session and the   *)
(* row say playing; connections may overlap at will (replay.ts:116-186).   *)
THEOREM TimerWhilePlaying == Spec => []TimerOnlyWhilePlaying
<1>1. IInv => TimerOnlyWhilePlaying
  BY DEF IInv, AloneInv, PlaysIn, TimerOnlyWhilePlaying
<1> QED BY <1>1, Invariance, PTL

(* replay.ts: however connections overlap, each is sent every event from    *)
(* where it was positioned to where it stands, once and in order; and the   *)
(* timer of one that never crossed another runs only while it plays.        *)
THEOREM PlaybackIsExact == Spec => []PlaybackExact
<1>1. Contiguous /\ SkipsOnlyPast /\ TimerOnlyWhilePlaying => PlaybackExact
  BY DEF PlaybackExact
<1> QED BY <1>1, TimerWhilePlaying, NoGapNoRepeat, OnlyPastSkipped, PTL

(* A viewer whose connection never crossed another and that asks to play    *)
(* has its own playback running, whatever other connections do (applyControl *)
(* starts the timer of the object in the map, replay.ts:200-211).           *)
THEOREM PlayStartsPlayback == Spec => PlayStartsAlone
<1> DEFINE Starts == \A c \in Conn \ crossed : WsControl(c, Play) => ticking'[c]
<1>1. IInv /\ [Next]_vars => [Starts]_vars
  <2> SUFFICES ASSUME IInv, NEW c \in Conn \ crossed, WsControl(c, Play)
               PROVE  ticking'[c]
    OBVIOUS
  <2>1. conn[c] = "open" /\ Apply([action |-> "play"], session[c])
    BY DEF WsControl, Play
  <2>2. c = current
    BY <2>1 DEF IInv, AloneInv, Alone, Attached
  <2>3. Playing(session[c])
    BY <2>1 DEF Apply
  <2> QED BY <2>2, <2>3 DEF Playing
<1> QED BY <1>1, Invariance, PTL DEF Spec, PlayStartsAlone

-----------------------------------------------------------------------------
(* What a viewer misses.                                                   *)

(* Seeking the position p would pass over no event of those stored before  *)
(* the first connection but ones in the set s and ones before the offset m. *)
Passed(p, s, m) ==
  \A k \in 1..AtConnect : (\A j \in 1..k : At[j] < p) => k \in s \/ At[k] < m

(* Neither the row nor the session of an open connection is at a position  *)
(* whose persistence and reconnection would skip an event unseen.          *)
ViewerInv ==
  /\ AtConnect <= stored
  /\ \A c \in Conn : conn[c] = "open" => AtConnect <= events[c]
  /\ Passed(row.position, seen, sought)
  /\ \A c \in Conn : conn[c] = "open" => Passed(session[c].position, seen, sought)
  /\ NothingSkipped

LEMMA AtNat == AtConnect \in Nat /\ AtConnect <= Len(At) /\ \A k \in 1..Len(At) : At[k] \in Nat
BY AtAssumption

(* What was passed stays passed.                                           *)
LEMMA PassedMore ==
  ASSUME NEW p \in Nat, NEW s, NEW m \in Nat, NEW u, NEW n \in Nat,
         s \subseteq u, m <= n, Passed(p, s, m)
  PROVE  Passed(p, u, n)
BY AtNat DEF Passed

(* And a position that was sought may be sought again.                     *)
LEMMA PassedSought ==
  ASSUME NEW p \in Nat, NEW s, NEW m \in Nat, p <= m
  PROVE  Passed(p, s, m)
<1> SUFFICES ASSUME NEW k \in 1..AtConnect, \A j \in 1..k : At[j] < p PROVE At[k] < m
  BY DEF Passed
<1>1. k \in 1..k /\ At[k] \in Nat
  BY AtNat
<1> QED
  BY <1>1

(* Draining stops at an event that is not due, or past the list.           *)
LEMMA DrainStops ==
  ASSUME NEW n \in 0..Len(At), NEW i \in 1..(n + 1), NEW position \in Nat
  PROVE  \/ DrainIndex(n, i, position) = n + 1
         \/ At[DrainIndex(n, i, position)] > position
<1> DEFINE S == {k \in i..n : At[k] > position} \cup {n + 1}
<1>1. n \in Nat /\ S \in SUBSET Nat /\ S # {}
  BY AtAssumption
<1>2. Min(S) \in S
  BY <1>1, MinFacts
<1> QED
  BY <1>2 DEF DrainIndex

LEMMA InitViewer == Init => ViewerInv
<1> SUFFICES ASSUME Init PROVE ViewerInv
  OBVIOUS
<1>1. Passed(0, seen, sought)
  BY PassedSought DEF Init
<1> QED
  BY <1>1, AtNat DEF Init, ViewerInv, NothingSkipped

(* Steps that only close connections or store events.                      *)
LEMMA ViewerKept ==
  ASSUME IInv, ViewerInv, stored <= stored', stored' \in Nat,
         UNCHANGED <<row, session, events, index, seen, sought>>,
         \A c \in Conn : conn'[c] = "open" => conn[c] = "open"
  PROVE  ViewerInv'
<1>1. AtConnect <= stored'
  BY AtNat DEF IInv, TypeOK, ViewerInv
<1> QED
  BY <1>1 DEF ViewerInv, NothingSkipped

LEMMA ViewerConnect == \A c \in Conn : IInv /\ ViewerInv /\ Connect(c) => ViewerInv'
<1> SUFFICES ASSUME NEW c \in Conn, IInv, ViewerInv, Connect(c) PROVE ViewerInv'
  OBVIOUS
<1>1. /\ conn \in [Conn -> {"new", "open", "closing", "closed"}] /\ session \in [Conn -> Session]
      /\ events \in [Conn -> 0..Len(At)] /\ index \in [Conn -> 1..(Len(At) + 1)]
      /\ row.position \in Nat /\ stored \in 0..Len(At)
  BY DEF IInv, TypeOK, Session
<1>2. /\ UNCHANGED <<row, stored, seen, sought>>
      /\ session' = [session EXCEPT ![c] = row] /\ events' = [events EXCEPT ![c] = stored]
      /\ index' = [index EXCEPT ![c] = IF row.position > 0
                                         THEN SeekIndex(stored, row.position) ELSE 1]
      /\ conn' = [conn EXCEPT ![c] = "open"]
  BY DEF Connect
<1>3. \A d \in Conn : d # c => /\ conn'[d] = conn[d] /\ session'[d] = session[d]
                              /\ events'[d] = events[d] /\ index'[d] = index[d]
  BY <1>1, <1>2
<1>4. session'[c] = row /\ events'[c] = stored
  BY <1>1, <1>2
<1>5. \A k \in 1..(index'[c] - 1) : k <= AtConnect => k \in seen \/ At[k] < sought
  <2>1. CASE row.position > 0
    <3>1. /\ index'[c] = SeekIndex(stored, row.position) /\ index'[c] \in 1..(stored + 1)
          /\ \A k \in 1..(index'[c] - 1) : At[k] < row.position
      BY <1>1, <1>2, <2>1, SeekFacts
    <3> SUFFICES ASSUME NEW k \in 1..(index'[c] - 1), k <= AtConnect
                 PROVE  k \in seen \/ At[k] < sought
      OBVIOUS
    <3>2. k \in 1..AtConnect /\ 1..k \subseteq 1..(index'[c] - 1)
      BY <1>1, <3>1, AtNat
    <3>3. \A j \in 1..k : At[j] < row.position
      BY <3>1, <3>2
    <3> QED
      BY <3>2, <3>3 DEF ViewerInv, Passed
  <2>2. CASE ~(row.position > 0)
    <3>1. index'[c] = 1
      BY <1>1, <1>2, <2>2
    <3> QED
      BY <3>1
  <2> QED
    BY <2>1, <2>2
<1>6. NothingSkipped'
  BY <1>2, <1>3, <1>5 DEF ViewerInv, NothingSkipped
<1> QED
  BY <1>2, <1>3, <1>4, <1>6 DEF ViewerInv

(* A control writes a position that was held by the caller, or sought; it   *)
(* moves the playback of the connection in the map there, if it seeks.     *)
LEMMA ViewerApply ==
  ASSUME IInv, ViewerInv, NEW s \in Session, NEW ctrl \in Control, Apply(ctrl, s),
         Passed(s.position, seen, sought), UNCHANGED <<conn, events, seen>>
  PROVE  /\ Passed(row'.position, seen, sought') /\ row'.position \in Nat
         /\ NothingSkipped'
         /\ \A p \in Nat : Passed(p, seen, sought) => Passed(p, seen, sought')
         /\ \A t \in Session : Passed(t.position, seen, sought) =>
                                 Passed(Held(ctrl, t).position, seen, sought')
<1>1. /\ s.position \in Nat /\ sought \in Nat /\ row \in Session /\ row.position \in Nat
      /\ index \in [Conn -> 1..(Len(At) + 1)] /\ events \in [Conn -> 0..Len(At)]
      /\ \A t \in Session : t.position \in Nat
  BY DEF IInv, TypeOK, Session
<1>2. CASE ctrl.action = "seek"
  <2>1. ctrl.target \in Nat /\ Sought(s, ctrl.target)
    BY <1>2, RateAssumption DEF Apply, Control
  <2> DEFINE target == ctrl.target
  <2>2. /\ row'.position = target /\ sought' = Max({sought, target})
        /\ index' = [c \in Conn |-> IF c = current THEN SeekIndex(events[c], target)
                                                  ELSE index[c]]
    BY <2>1 DEF Sought, Persist
  <2> HIDE DEF target
  <2>3. target \in Nat
    BY <2>1 DEF target
  <2>4. sought' \in Nat /\ sought <= sought' /\ target <= sought'
    <3>1. \E x \in {sought, target} : \A y \in {sought, target} : x >= y
      BY <1>1, <2>3
    <3>2. Max({sought, target}) \in {sought, target}
          /\ \A y \in {sought, target} : Max({sought, target}) >= y
      BY <3>1 DEF Max
    <3> QED
      BY <1>1, <2>2, <2>3, <3>2
  <2>5. Passed(target, seen, sought')
    BY <2>3, <2>4, PassedSought
  <2>6. \A p \in Nat : Passed(p, seen, sought) => Passed(p, seen, sought')
    BY <1>1, <2>4, PassedMore
  <2>7. ASSUME NEW t \in Session PROVE Held(ctrl, t).position = target
    BY <1>2 DEF Held, Session, target
  <2>8. NothingSkipped'
    <3> SUFFICES ASSUME NEW c \in Conn, conn[c] = "open", NEW k \in 1..(index'[c] - 1),
                        k <= AtConnect, k \notin seen
                 PROVE  At[k] < sought'
      BY DEF NothingSkipped
    <3>1. CASE c = current
      <4>1. index'[c] = SeekIndex(events[c], target)
        BY <2>2, <3>1
      <4>2. /\ index'[c] \in 1..(events[c] + 1)
            /\ \A j \in 1..(index'[c] - 1) : At[j] < target
        BY <1>1, <2>3, <4>1, SeekFacts
      <4>3. k \in 1..Len(At) /\ At[k] < target
        BY <1>1, <4>2, AtNat
      <4> QED
        BY <2>3, <2>4, <4>3, AtNat
    <3>2. CASE c # current
      <4>1. index'[c] = index[c]
        BY <2>2, <3>2
      <4>2. At[k] < sought
        BY <4>1 DEF ViewerInv, NothingSkipped
      <4>3. k \in 1..Len(At)
        BY <1>1, <4>1, AtNat
      <4> QED
        BY <1>1, <2>4, <4>2, <4>3, AtNat
    <3> QED
      BY <3>1, <3>2
  <2> QED
    BY <2>2, <2>3, <2>5, <2>6, <2>7, <2>8
<1>3. CASE ctrl.action # "seek"
  <2>1. /\ row'.position = s.position \/ row' = row
        /\ UNCHANGED <<index, sought>>
    BY <1>3 DEF Apply, Playing, Paused, Rated, Bookmarked, Persist
  <2>2. ASSUME NEW t \in Session PROVE Held(ctrl, t).position = t.position
    BY <1>3 DEF Held, Session, Control
  <2>3. NothingSkipped'
    BY <2>1 DEF ViewerInv, NothingSkipped
  <2> QED
    BY <1>1, <2>1, <2>2, <2>3 DEF ViewerInv
<1> QED
  BY <1>2, <1>3

LEMMA ViewerRest == \A ctrl \in Control : IInv /\ ViewerInv /\ RestControl(ctrl) => ViewerInv'
<1> SUFFICES ASSUME NEW ctrl \in Control, IInv, ViewerInv, RestControl(ctrl) PROVE ViewerInv'
  OBVIOUS
<1>1. /\ Apply(ctrl, row) /\ UNCHANGED <<stored, conn, events, current, seen, crossed>>
      /\ session' = [c \in Conn |-> IF c = current THEN Held(ctrl, session[c]) ELSE session[c]]
  BY DEF RestControl
<1>2. row \in Session /\ \A c \in Conn : session[c] \in Session /\ session[c].position \in Nat
  BY DEF IInv, TypeOK, Session
<1>3. Passed(row.position, seen, sought)
  BY DEF ViewerInv
<1>4. /\ Passed(row'.position, seen, sought') /\ NothingSkipped'
      /\ \A p \in Nat : Passed(p, seen, sought) => Passed(p, seen, sought')
      /\ \A t \in Session : Passed(t.position, seen, sought) =>
                              Passed(Held(ctrl, t).position, seen, sought')
  BY <1>1, <1>2, <1>3, ViewerApply
<1>5. ASSUME NEW c \in Conn, conn[c] = "open"
      PROVE  Passed(session'[c].position, seen, sought')
  <2>1. Passed(session[c].position, seen, sought)
    BY <1>5 DEF ViewerInv
  <2> QED
    BY <1>1, <1>2, <1>4, <2>1
<1> QED
  BY <1>1, <1>4, <1>5 DEF ViewerInv

LEMMA ViewerWs ==
  \A c \in Conn, ctrl \in Control : IInv /\ ViewerInv /\ WsControl(c, ctrl) => ViewerInv'
<1> SUFFICES ASSUME NEW c \in Conn, NEW ctrl \in Control, IInv, ViewerInv, WsControl(c, ctrl)
             PROVE  ViewerInv'
  OBVIOUS
<1>1. /\ conn[c] = "open" /\ Apply(ctrl, session[c])
      /\ UNCHANGED <<stored, conn, events, current, seen, crossed>>
      /\ session' = [d \in Conn |-> IF d = c THEN row'
                                    ELSE IF d = current THEN Held(ctrl, session[d])
                                    ELSE session[d]]
  BY DEF WsControl
<1>2. \A d \in Conn : session[d] \in Session /\ session[d].position \in Nat
  BY DEF IInv, TypeOK, Session
<1>3. Passed(session[c].position, seen, sought)
  BY <1>1 DEF ViewerInv
<1>4. /\ Passed(row'.position, seen, sought') /\ NothingSkipped'
      /\ \A p \in Nat : Passed(p, seen, sought) => Passed(p, seen, sought')
      /\ \A t \in Session : Passed(t.position, seen, sought) =>
                              Passed(Held(ctrl, t).position, seen, sought')
  BY <1>1, <1>2, <1>3, ViewerApply
<1>5. ASSUME NEW d \in Conn, conn[d] = "open"
      PROVE  Passed(session'[d].position, seen, sought')
  <2>1. Passed(session[d].position, seen, sought)
    BY <1>5 DEF ViewerInv
  <2> QED
    BY <1>1, <1>2, <1>4, <2>1
<1> QED
  BY <1>1, <1>4, <1>5 DEF ViewerInv

LEMMA ViewerTick == \A c \in Conn : IInv /\ ViewerInv /\ Tick(c) => ViewerInv'
<1> SUFFICES ASSUME NEW c \in Conn, IInv, ViewerInv, Tick(c) PROVE ViewerInv'
  OBVIOUS
<1>1. /\ session \in [Conn -> Session] /\ index \in [Conn -> 1..(Len(At) + 1)]
      /\ events[c] \in 0..Len(At) /\ index[c] \in 1..(events[c] + 1)
      /\ seen \subseteq 1..Len(At) /\ sought \in Nat /\ row.position \in Nat
      /\ \A d \in Conn : session[d].position \in Nat /\ session[d].rate \in Nat
  <2>1. /\ session \in [Conn -> Session] /\ index \in [Conn -> 1..(Len(At) + 1)]
        /\ events[c] \in 0..Len(At) /\ index[c] \in 1..(Len(At) + 1)
        /\ index[c] <= events[c] + 1
        /\ seen \subseteq 1..Len(At) /\ sought \in Nat /\ row \in Session
    BY DEF IInv, TypeOK
  <2>2. index[c] \in 1..(events[c] + 1)
    BY <2>1, AtAssumption
  <2>3. row.position \in Nat
    BY <2>1 DEF Session
  <2>4. \A d \in Conn : session[d].position \in Nat /\ session[d].rate \in Nat
    BY <2>1 DEF Session
  <2> QED
    BY <2>1, <2>2, <2>3, <2>4
<1>2. PICK elapsed \in 1..MaxElapsed :
        LET position == session[c].position + elapsed * session[c].rate
            next == DrainIndex(events[c], index[c], position)
            batch == index[c]..(next - 1)
            ended == next > events[c]
        IN  /\ session' = [session EXCEPT ![c].position = position, ![c].paused = ended]
            /\ index' = [index EXCEPT ![c] = next]
            /\ IF conn[c] = "open" THEN seen' = seen \cup batch ELSE UNCHANGED seen
  BY DEF Tick
<1> DEFINE position == session[c].position + elapsed * session[c].rate
           next == DrainIndex(events[c], index[c], position)
<1>3. position \in Nat
  <2>1. session[c].position \in Nat /\ session[c].rate \in Nat /\ elapsed \in Nat
    BY <1>1, BoundsAssumption
  <2> QED
    BY <2>1, Product
<1>4. UNCHANGED <<row, stored, conn, events, sought>>
  BY DEF Tick
<1>5. session'[c].position = position
  BY <1>1, <1>2 DEF Session
<1>6. \A d \in Conn : d # c => session'[d] = session[d] /\ index'[d] = index[d]
  BY <1>1, <1>2
<1>7. index'[c] = next /\ (conn[c] = "open" => seen' = seen \cup (index[c]..(next - 1)))
      /\ seen \subseteq seen'
  BY <1>1, <1>2
<1> HIDE DEF position
<1>8. next \in index[c]..(events[c] + 1) /\ (next = events[c] + 1 \/ At[next] > position)
  BY <1>1, <1>3, DrainFacts, DrainStops
<1> HIDE DEF next
<1>9. \A p \in Nat : Passed(p, seen, sought) => Passed(p, seen', sought)
  <2>1. seen \subseteq seen' /\ sought \in Nat /\ sought <= sought
    BY <1>1, <1>7
  <2> QED
    BY <2>1, PassedMore
<1>10. ASSUME conn[c] = "open", NEW k \in 1..(next - 1), k <= AtConnect
       PROVE  k \in seen' \/ At[k] < sought
  <2>1. CASE k < index[c]
    <3>1. k \in 1..(index[c] - 1)
      BY <1>1, <1>8, <2>1
    <3>2. k \in seen \/ At[k] < sought
      BY <1>10, <3>1 DEF ViewerInv, NothingSkipped
    <3> QED
      BY <1>7, <3>2
  <2>2. CASE ~(k < index[c])
    <3>1. k \in index[c]..(next - 1)
      BY <1>1, <1>8, <2>2
    <3> QED
      BY <1>7, <1>10, <3>1
  <2> QED
    BY <2>1, <2>2
<1>11. NothingSkipped'
  <2> SUFFICES ASSUME NEW d \in Conn, conn[d] = "open", NEW k \in 1..(index'[d] - 1),
                      k <= AtConnect
               PROVE  k \in seen' \/ At[k] < sought
    BY <1>4 DEF NothingSkipped
  <2>1. CASE d = c
    BY <1>7, <1>10, <2>1
  <2>2. CASE d # c
    BY <1>6, <1>7, <2>2 DEF ViewerInv, NothingSkipped
  <2> QED
    BY <2>1, <2>2
<1>12. ASSUME conn[c] = "open" PROVE Passed(position, seen', sought)
  <2> SUFFICES ASSUME NEW k \in 1..AtConnect, \A j \in 1..k : At[j] < position
               PROVE  k \in seen' \/ At[k] < sought
    BY DEF Passed
  <2>1. k <= events[c] /\ k \in Nat /\ k <= AtConnect
    BY <1>1, <1>12, AtNat DEF ViewerInv
  <2>2. k < next
    <3> SUFFICES ASSUME next <= k PROVE FALSE
      BY <1>1, <1>8, <2>1
    <3>1. next \in 1..k /\ next \in 1..Len(At) /\ next # events[c] + 1
      BY <1>1, <1>8, <2>1
    <3>2. At[next] < position /\ At[next] > position /\ At[next] \in Nat
      BY <1>8, <3>1, AtNat
    <3> QED
      BY <1>3, <3>2
  <2>3. k \in 1..(next - 1)
    BY <1>1, <1>8, <2>1, <2>2
  <2> QED
    BY <1>10, <1>12, <2>1, <2>3
<1>13. ASSUME NEW d \in Conn, conn[d] = "open"
       PROVE  Passed(session'[d].position, seen', sought)
  <2>1. CASE d = c
    BY <1>5, <1>12, <1>13, <2>1
  <2>2. CASE d # c
    BY <1>1, <1>6, <1>9, <1>13, <2>2 DEF ViewerInv
  <2> QED
    BY <2>1, <2>2
<1>14. Passed(row'.position, seen', sought)
  BY <1>1, <1>4, <1>9 DEF ViewerInv
<1> QED
  BY <1>4, <1>11, <1>13, <1>14 DEF ViewerInv

LEMMA NextViewer == IInv /\ ViewerInv /\ [Next]_vars => ViewerInv'
<1> SUFFICES ASSUME IInv, ViewerInv, [Next]_vars PROVE ViewerInv'
  OBVIOUS
<1>0. stored \in Nat /\ conn \in [Conn -> {"new", "open", "closing", "closed"}]
  BY AtNat DEF IInv, TypeOK
<1>1. ASSUME Ingest \/ Restart \/ UNCHANGED vars
             \/ \E c \in Conn : Leave(c) \/ OnClose(c)
      PROVE  ViewerInv'
  <2>1. UNCHANGED <<row, session, events, index, seen, sought>>
    BY <1>1 DEF Ingest, Restart, Leave, OnClose, vars
  <2>2. stored' \in {stored, stored + 1}
    BY <1>1 DEF Ingest, Restart, Leave, OnClose, vars
  <2>3. \A c \in Conn : conn'[c] = "open" => conn[c] = "open"
    BY <1>0, <1>1 DEF Ingest, Restart, Leave, OnClose, vars
  <2>4. stored <= stored' /\ stored' \in Nat
    BY <1>0, <2>2
  <2> QED
    BY <2>1, <2>3, <2>4, ViewerKept
<1> QED
  BY <1>1, ViewerConnect, ViewerRest, ViewerWs, ViewerTick DEF Next

(* Whatever a viewer does, and however often it reconnects, restarts of     *)
(* the service included, it misses no event that was stored when it first  *)
(* connected but those it sought past (replay.ts, tickReplay and seek).    *)
THEOREM NoneMissed == Spec => []NothingSkipped
<1>1. ViewerInv => NothingSkipped
  BY DEF ViewerInv
<1> QED
  BY <1>1, InitInv, NextInv, InitViewer, NextViewer, PTL DEF Spec

-----------------------------------------------------------------------------
(* Ingestion                                                               *)

(* The copy in hand at a place of the batch.                               *)
CopyAt(n) == [post |-> posts, place |-> n, event |-> EventAt(n)]
SwarmAt(n) == Info[EventAt(n)].swarm

(* Whether the handler has finished a swarm of the batch or is at one of   *)
(* these steps with it: its row is there, its events are stored, counted,  *)
(* and have ended it.                                                      *)
Reached(s, steps) == s \in job.done \/ (Rest # {} /\ s = Current /\ job.step \in steps)
Rowed == {"store", "count", "finalise", "bookmark"}
Kept == {"count", "finalise", "bookmark"}
Counting == {"finalise", "bookmark"}
Ended == {"bookmark"}

CountedOf(C, s) == {c \in C : Info[c.event].swarm = s}
CountedOfKind(C, s, kind) == {c \in CountedOf(C, s) : Info[c.event].kind = kind}
MarkedFor(B, e) == {b \in B : b.event = e}

TypeInv == IngestTypeOK /\ IsFiniteSet(sent) /\ \A c \in sent : c.post <= posts

(* The rows are those of the copies that were counted, C, the bookmarks    *)
(* those of the copies that were marked, B.                                *)
Tallied(C, B) ==
  /\ \A c \in C : Info[c.event].swarm \in DOMAIN sessions
  /\ \A s \in DOMAIN sessions :
       /\ sessions[s].events = Cardinality(CountedOf(C, s))
       /\ sessions[s].retries = Cardinality(CountedOfKind(C, s, "retry"))
       /\ sessions[s].anomalies = Cardinality(CountedOfKind(C, s, "anomaly"))
  /\ \A e \in Event : marks[e] = Cardinality(MarkedFor(B, e))
  /\ \A e \in acked : /\ e \in saved /\ \E c \in C : c.event = e
                      /\ Notable(e) => \E b \in B : b.event = e
  /\ \A e \in saved : Info[e].swarm \in DOMAIN sessions /\ \E c \in sent : c.event = e

(* How far the handler is with a place of the batch.                       *)
HandledAt(C, B, n) ==
  /\ CopyAt(n) \in sent
  /\ Reached(SwarmAt(n), Rowed) => SwarmAt(n) \in DOMAIN sessions
  /\ Reached(SwarmAt(n), Kept) => EventAt(n) \in saved
  /\ CopyAt(n) \in C <=> Reached(SwarmAt(n), Counting)
  /\ CopyAt(n) \in B <=> SwarmAt(n) \in job.done /\ Notable(EventAt(n))
  /\ Info[EventAt(n)].kind \in Terminal /\ Reached(SwarmAt(n), Ended) => sessions[SwarmAt(n)].status # "running"

Handled(C, B) == job # Nothing => \A n \in DOMAIN job.batch : HandledAt(C, B, n)

CountInv == \E C \in SUBSET sent, B \in SUBSET sent : Tallied(C, B) /\ Handled(C, B)
IngestInv == TypeInv /\ EndIsAnEvents /\ CountInv
-----------------------------------------------------------------------------
(* Least and greatest numbers; cardinalities.                              *)

LEMMA MinOf ==
  ASSUME NEW S \in SUBSET Nat, S # {}
  PROVE  Min(S) \in S
<1>1. PICK x \in S : \A y \in S : ~(<<y, x>> \in OpToRel(<, Nat))
  BY NatLessThanWellFounded, WFMin
<1>2. \A y \in S : ~(y < x)
  BY <1>1 DEF OpToRel
<1>3. x \in Nat /\ \A y \in S : x <= y
  BY <1>2
<1> QED
  BY <1>3 DEF Min

LEMMA MaxOf ==
  ASSUME NEW k \in Nat, NEW S \in SUBSET (1 .. k), S # {}
  PROVE  Max(S) \in S /\ \A y \in S : Max(S) >= y
<1> DEFINE T == {k - x : x \in S}
<1>1. T \in SUBSET Nat /\ T # {}
  <2>1. \A x \in S : x \in Int /\ k - x \in Nat
    OBVIOUS
  <2> QED
    BY <2>1
<1>2. PICK t \in T : \A u \in T : ~(<<u, t>> \in OpToRel(<, Nat))
  <2> HIDE DEF T
  <2> QED
    BY <1>1, NatLessThanWellFounded, WFMin
<1>3. \A u \in T : t <= u
  <2> HIDE DEF T
  <2>1. \A u \in T : ~(u < t)
    BY <1>1, <1>2 DEF OpToRel
  <2>2. t \in Nat /\ \A u \in T : u \in Nat
    BY <1>1
  <2> QED
    BY <2>1, <2>2
<1>4. PICK x \in S : t = k - x
  OBVIOUS
<1>5. \A y \in S : x >= y
  <2> SUFFICES ASSUME NEW y \in S PROVE x >= y
    OBVIOUS
  <2>1. k - y \in T
    OBVIOUS
  <2>2. t <= k - y
    BY <1>3, <2>1
  <2> QED
    BY <1>4, <2>2
<1> HIDE DEF T
<1> QED
  BY <1>5 DEF Max

LEMMA DisjointUnion ==
  ASSUME NEW S, IsFiniteSet(S), NEW T, IsFiniteSet(T), S \cap T = {}
  PROVE  IsFiniteSet(S \cup T) /\ Cardinality(S \cup T) = Cardinality(S) + Cardinality(T)
<1>1. /\ IsFiniteSet(S \cup T) /\ IsFiniteSet(S \cap T)
      /\ Cardinality(S \cup T) = Cardinality(S) + Cardinality(T) - Cardinality(S \cap T)
  <2>1. IsFiniteSet(S \cap T)
    BY FS_Subset
  <2> QED
    BY <2>1, FS_Union
<1>2. Cardinality(S \cap T) = 0
  BY FS_EmptySet
<1>3. Cardinality(S) \in Nat /\ Cardinality(T) \in Nat
  BY FS_CardinalityType
<1> QED
  BY <1>1, <1>2, <1>3

(* As many copies as places.                                               *)
Copies(P) == {CopyAt(n) : n \in P}

LEMMA CopiesCounted ==
  ASSUME NEW P, IsFiniteSet(P)
  PROVE  IsFiniteSet(Copies(P)) /\ Cardinality(Copies(P)) = Cardinality(P)
<1> DEFINE f == [n \in P |-> CopyAt(n)]
<1>1. f \in Bijection(P, Copies(P))
  <2>1. f \in [P -> Copies(P)]
    BY DEF Copies
  <2>2. \A m, n \in P : f[m] = f[n] => m = n
    BY DEF CopyAt
  <2>3. \A c \in Copies(P) : \E n \in P : f[n] = c
    BY DEF Copies
  <2> HIDE DEF f
  <2>4. f \in Injection(P, Copies(P))
    BY <2>1, <2>2 DEF Injection, IsInjective
  <2>5. f \in Surjection(P, Copies(P))
    BY <2>1, <2>3 DEF Surjection
  <2> QED
    BY <2>4, <2>5 DEF Bijection
<1>2. ExistsBijection(P, Copies(P))
  BY <1>1 DEF ExistsBijection
<1> QED
  BY <1>2, FS_Bijection

-----------------------------------------------------------------------------
(* Types.                                                                  *)

LEMMA InHand ==
  ASSUME TypeInv, job # Nothing
  PROVE  /\ job \in Job /\ job.batch \in Batches /\ job.done \subseteq Swarm
         /\ Len(job.batch) \in Nat /\ DOMAIN job.batch = 1 .. Len(job.batch)
         /\ \A n \in DOMAIN job.batch : EventAt(n) \in Event /\ SwarmAt(n) \in Swarm
         /\ Rest # {} => /\ Current \in Swarm \ job.done
                         /\ \E n \in DOMAIN job.batch : SwarmAt(n) = Current
<1>1. job \in Job
  BY DEF TypeInv, IngestTypeOK
<1>2. job.batch \in Batches /\ job.done \subseteq Swarm
  BY <1>1 DEF Job
<1>3. job.batch \in Seq(Event)
  BY <1>2, BatchAssumption
<1>4. Len(job.batch) \in Nat /\ DOMAIN job.batch = 1 .. Len(job.batch)
  BY <1>3
<1>5. \A n \in DOMAIN job.batch : EventAt(n) \in Event
  BY <1>3, <1>4 DEF EventAt
<1>6. \A e \in Event : Info[e].swarm \in Swarm
  BY EventAssumption
<1>7. \A n \in DOMAIN job.batch : SwarmAt(n) \in Swarm
  BY <1>5, <1>6 DEF SwarmAt
<1>8. ASSUME Rest # {}
      PROVE  Current \in Swarm \ job.done /\ \E n \in DOMAIN job.batch : SwarmAt(n) = Current
  <2>1. Rest \in SUBSET Nat /\ Rest \subseteq DOMAIN job.batch
    BY <1>4 DEF Rest
  <2>2. Min(Rest) \in Rest
    BY <1>8, <2>1, MinOf
  <2>3. Current = SwarmAt(Min(Rest)) /\ SwarmAt(Min(Rest)) \notin job.done
    BY <2>2 DEF Current, SwarmAt, Rest
  <2> QED
    BY <1>7, <2>1, <2>2, <2>3
<1> QED
  BY <1>1, <1>2, <1>4, <1>5, <1>7, <1>8

LEMMA GroupOf ==
  ASSUME TypeInv, job # Nothing, Rest # {}
  PROVE  /\ Group \subseteq DOMAIN job.batch /\ Group \in SUBSET (1 .. Len(job.batch)) /\ Group # {}
         /\ IsFiniteSet(Group)
         /\ \A n \in DOMAIN job.batch : n \in Group <=> SwarmAt(n) = Current
<1>1. \A n \in DOMAIN job.batch : n \in Group <=> SwarmAt(n) = Current
  BY DEF Group, SwarmAt
<1>2. Group \subseteq DOMAIN job.batch
  BY DEF Group
<1>3. Len(job.batch) \in Nat /\ DOMAIN job.batch = 1 .. Len(job.batch)
  BY InHand
<1>4. IsFiniteSet(1 .. Len(job.batch))
  <2>1. Len(job.batch) \in Int /\ 1 \in Int
    BY <1>3
  <2> QED
    BY ONLY <2>1, FS_Interval
<1>5. IsFiniteSet(Group)
  BY <1>2, <1>3, <1>4, FS_Subset
<1>6. Group # {}
  BY <1>1, InHand
<1> QED
  BY <1>1, <1>2, <1>3, <1>5, <1>6

Step == {"ensure", "store", "count", "finalise", "bookmark"}

(* A step of the handler for the swarm in hand.                            *)
LEMMA MovesOn ==
  ASSUME TypeInv, NEW step \in Step, NEW next \in Step, Moves(step, next), posts' = posts
  PROVE  /\ job # Nothing /\ Rest # {} /\ job' \in Job
         /\ job'.batch = job.batch /\ job'.done = job.done
         /\ \A n \in DOMAIN job.batch :
              /\ EventAt(n)' = EventAt(n) /\ SwarmAt(n)' = SwarmAt(n) /\ CopyAt(n)' = CopyAt(n)
              /\ \A K \in SUBSET Step :
                   /\ Reached(SwarmAt(n), K) <=> SwarmAt(n) \in job.done \/ (SwarmAt(n) = Current /\ step \in K)
                   /\ Reached(SwarmAt(n), K)' <=> SwarmAt(n) \in job.done \/ (SwarmAt(n) = Current /\ next \in K)
<1>1. job # Nothing /\ Rest # {} /\ job.step = step /\ job' = [job EXCEPT !.step = next]
  BY DEF Moves
<1>2. job \in Job
  BY <1>1, InHand
<1>3. job' \in Job /\ job'.batch = job.batch /\ job'.done = job.done /\ job'.step = next
  BY <1>1, <1>2 DEF Job, Step
<1>4. \A n : EventAt(n)' = EventAt(n)
  BY <1>3 DEF EventAt
<1>5. \A n : SwarmAt(n)' = SwarmAt(n) /\ CopyAt(n)' = CopyAt(n)
  BY <1>4 DEF SwarmAt, CopyAt
<1>6. Rest' = Rest
  BY <1>3, <1>4 DEF Rest
<1>7. Current' = Current
  BY <1>4, <1>6 DEF Current
<1>8. ASSUME NEW n \in DOMAIN job.batch, NEW K \in SUBSET Step
      PROVE  /\ Reached(SwarmAt(n), K) <=> SwarmAt(n) \in job.done \/ (SwarmAt(n) = Current /\ step \in K)
             /\ Reached(SwarmAt(n), K)' <=> SwarmAt(n) \in job.done \/ (SwarmAt(n) = Current /\ next \in K)
  BY <1>1, <1>3, <1>5, <1>6, <1>7 DEF Reached
<1> QED
  BY <1>1, <1>3, <1>4, <1>5, <1>8

LEMMA Rows ==
  ASSUME TypeInv, NEW s \in DOMAIN sessions
  PROVE  /\ sessions[s] = [started |-> sessions[s].started, ended |-> sessions[s].ended, events |-> sessions[s].events,
                          retries |-> sessions[s].retries, anomalies |-> sessions[s].anomalies,
                          status |-> sessions[s].status]
         /\ sessions[s].started \in Nat /\ sessions[s].ended \in Nat \cup {Nothing} /\ sessions[s].events \in Nat
         /\ sessions[s].retries \in Nat /\ sessions[s].anomalies \in Nat
         /\ sessions[s].status \in {"running", "completed", "failed"}
<1>1. sessions[s] \in Row
  BY DEF TypeInv, IngestTypeOK
<1> QED
  BY <1>1 DEF Row

(* A new post brings new copies.                                           *)
LEMMA PostKept ==
  ASSUME IngestInv, NEW batch \in Batches, Post(batch)
  PROVE  IngestInv'
<1> DEFINE new == {[post |-> posts', place |-> n, event |-> batch[n]] : n \in DOMAIN batch}
<1>1. /\ job' = [batch |-> batch, done |-> {}, step |-> "ensure"] /\ posts' = posts + 1
      /\ sent' = sent \cup new /\ UNCHANGED <<sessions, saved, marks, acked>>
      /\ posts < MaxPosts
  BY DEF Post
<1>2. TypeInv /\ posts \in Nat /\ sent \subseteq Copy
  BY DEF IngestInv, TypeInv, IngestTypeOK
<1>3. batch \in Seq(Event) /\ Len(batch) \in Nat /\ DOMAIN batch = 1 .. Len(batch)
  BY BatchAssumption
<1>4. new \subseteq Copy /\ \A c \in new : c.post = posts'
  BY <1>1, <1>2, <1>3 DEF Copy
<1>5. IsFiniteSet(new)
  <2>2. IsFiniteSet(1 .. Len(batch))
    <3>1. Len(batch) \in Int /\ 1 \in Int
      BY <1>3
    <3> QED
      BY ONLY <3>1, FS_Interval
  <2> DEFINE f == [n \in 1 .. Len(batch) |-> [post |-> posts', place |-> n, event |-> batch[n]]]
  <2>3. f \in Surjection(1 .. Len(batch), new)
    <3>1. f \in [1 .. Len(batch) -> new] /\ \A c \in new : \E n \in 1 .. Len(batch) : f[n] = c
      BY <1>3
    <3> HIDE DEF f, new
    <3> QED
      BY <3>1 DEF Surjection
  <2> HIDE DEF f, new
  <2> QED
    BY <2>2, <2>3, FS_Surjection
<1>6. job' \in Job
  BY <1>1 DEF Job
<1>7. TypeInv'
  <2>1. IsFiniteSet(sent')
    BY <1>1, <1>2, <1>5, FS_Union DEF TypeInv
  <2>2. \A c \in sent : c.post \in Nat /\ c.post <= posts
    BY <1>2 DEF TypeInv, Copy
  <2>3. \A c \in sent' : c.post <= posts'
    <3> HIDE DEF new
    <3> QED
      BY <1>1, <1>2, <1>4, <2>2
  <2>4. posts' \in 0 .. MaxPosts
    BY <1>1, <1>2, BoundAssumption
  <2>5. sent' \subseteq Copy
    BY <1>1, <1>2, <1>4
  <2> HIDE DEF new
  <2> QED
    BY <1>1, <1>2, <1>6, <2>1, <2>3, <2>4, <2>5 DEF TypeInv, IngestTypeOK
<1>8. EndIsAnEvents'
  BY <1>1 DEF IngestInv, EndIsAnEvents, RowsOf, Of
<1>9. PICK C \in SUBSET sent, B \in SUBSET sent : Tallied(C, B)
  BY DEF IngestInv, CountInv
<1>10. Tallied(C, B)'
  <2> HIDE DEF new
  <2> QED
    BY <1>1, <1>9 DEF Tallied
<1>11. Handled(C, B)'
  <2> SUFFICES ASSUME NEW n \in DOMAIN job'.batch PROVE HandledAt(C, B, n)'
    BY DEF Handled
  <2>1. job'.batch = batch /\ job'.done = {} /\ job'.step = "ensure"
    BY <1>1
  <2>2. CopyAt(n)' = [post |-> posts', place |-> n, event |-> batch[n]]
    BY <2>1 DEF CopyAt, EventAt
  <2>3. CopyAt(n)' \in new /\ CopyAt(n)'.post = posts'
    BY <2>1, <2>2
  <2> HIDE DEF new
  <2>4. CopyAt(n)' \in sent'
    BY <1>1, <2>3
  <2>5. CopyAt(n)' \notin sent
    <3>1. \A c \in sent : c.post \in Nat /\ c.post <= posts
      BY <1>2 DEF TypeInv, Copy
    <3> QED
      BY <1>1, <1>2, <2>3, <3>1
  <2>6. \A s : ~Reached(s, Rowed)' /\ ~Reached(s, Kept)' /\ ~Reached(s, Counting)' /\ ~Reached(s, Ended)'
    BY <2>1 DEF Reached, Rowed, Kept, Counting, Ended
  <2>7. SwarmAt(n)' \notin job'.done
    BY <2>1
  <2> QED
    BY <2>4, <2>5, <2>6, <2>7 DEF HandledAt
<1>12. C \in SUBSET sent' /\ B \in SUBSET sent'
  BY <1>1
<1> QED
  BY <1>7, <1>8, <1>10, <1>11, <1>12 DEF IngestInv, CountInv

LEMMA EnsureKept ==
  ASSUME IngestInv, Ensure
  PROVE  IngestInv'
<1>1. /\ Moves("ensure", "store") /\ UNCHANGED <<saved, marks, posts, sent, acked>>
      /\ sessions' = [s \in DOMAIN sessions \cup {Current} |-> IF s \in DOMAIN sessions THEN sessions[s] ELSE NewRow]
  BY DEF Ensure
<1>2. TypeInv
  BY DEF IngestInv
<1>3. /\ job # Nothing /\ Rest # {} /\ job' \in Job
      /\ job'.batch = job.batch /\ job'.done = job.done
      /\ \A n \in DOMAIN job.batch :
              /\ EventAt(n)' = EventAt(n) /\ SwarmAt(n)' = SwarmAt(n) /\ CopyAt(n)' = CopyAt(n)
              /\ \A K \in SUBSET Step :
                   /\ Reached(SwarmAt(n), K) <=> SwarmAt(n) \in job.done \/ (SwarmAt(n) = Current /\ "ensure" \in K)
                   /\ Reached(SwarmAt(n), K)' <=> SwarmAt(n) \in job.done \/ (SwarmAt(n) = Current /\ "store" \in K)
  BY <1>1, <1>2, MovesOn DEF Step
<1>4. Current \in Swarm
  BY <1>2, <1>3, InHand
<1>5. NewRow \in Row /\ NewRow.status = "running" /\ NewRow.events = 0 /\ NewRow.retries = 0 /\ NewRow.anomalies = 0
  <2> DEFINE times == {Info[EventAt(n)].at : n \in Group}
  <2>1. \A n \in Group : EventAt(n) \in Event
    BY <1>2, <1>3, GroupOf, InHand
  <2>2. times \in SUBSET Nat /\ times # {}
    BY <1>2, <1>3, <2>1, GroupOf, EventAssumption
  <2> HIDE DEF times
  <2>3. Min(times) \in Nat
    BY <2>2, MinOf
  <2> QED
    BY <2>3 DEF NewRow, Row, times
<1> HIDE DEF NewRow
<1>6. /\ DOMAIN sessions' = DOMAIN sessions \cup {Current}
      /\ \A s \in DOMAIN sessions : sessions'[s] = sessions[s]
      /\ Current \notin DOMAIN sessions => sessions'[Current] = NewRow
  BY <1>1
<1>7. TypeInv'
  <2>1. \A s \in DOMAIN sessions' : s \in Swarm /\ sessions'[s] \in Row
    BY <1>2, <1>4, <1>5, <1>6 DEF TypeInv, IngestTypeOK
  <2> QED
    BY <1>1, <1>2, <1>3, <2>1 DEF TypeInv, IngestTypeOK
<1>8. PICK C \in SUBSET sent, B \in SUBSET sent : Tallied(C, B) /\ Handled(C, B)
  BY DEF IngestInv, CountInv
<1>9. \A c \in C : c \in sent /\ Info[c.event].swarm \in DOMAIN sessions
  BY <1>8 DEF Tallied
<1>10. Tallied(C, B)'
  <2>1. ASSUME NEW s \in DOMAIN sessions'
        PROVE  /\ sessions'[s].events = Cardinality(CountedOf(C, s))
               /\ sessions'[s].retries = Cardinality(CountedOfKind(C, s, "retry"))
               /\ sessions'[s].anomalies = Cardinality(CountedOfKind(C, s, "anomaly"))
    <3>1. CASE s \in DOMAIN sessions
      BY <1>6, <1>8, <3>1 DEF Tallied
    <3>2. CASE s \notin DOMAIN sessions
      <4>1. CountedOf(C, s) = {} /\ CountedOfKind(C, s, "retry") = {} /\ CountedOfKind(C, s, "anomaly") = {}
        BY <1>9, <3>2 DEF CountedOf, CountedOfKind
      <4>2. sessions'[s] = NewRow
        BY <1>6, <3>2
      <4> QED
        BY <1>5, <4>1, <4>2, FS_EmptySet
    <3> QED
      BY <3>1, <3>2
  <2> QED
    BY <1>1, <1>6, <1>8, <2>1 DEF Tallied, CountedOf, CountedOfKind, MarkedFor
<1>11. Handled(C, B)'
  <2> SUFFICES ASSUME NEW n \in DOMAIN job.batch PROVE HandledAt(C, B, n)'
    BY <1>3 DEF Handled
  <2>1. HandledAt(C, B, n)
    BY <1>3, <1>8 DEF Handled
  <2>2. SwarmAt(n) \in DOMAIN sessions => sessions'[SwarmAt(n)] = sessions[SwarmAt(n)]
    BY <1>6
  <2>3. /\ Reached(SwarmAt(n), Rowed) <=> SwarmAt(n) \in job.done
        /\ Reached(SwarmAt(n), Rowed)' <=> SwarmAt(n) \in job.done \/ SwarmAt(n) = Current
        /\ Reached(SwarmAt(n), Kept) <=> Reached(SwarmAt(n), Kept)'
        /\ Reached(SwarmAt(n), Counting) <=> Reached(SwarmAt(n), Counting)'
        /\ Reached(SwarmAt(n), Ended) <=> SwarmAt(n) \in job.done
        /\ Reached(SwarmAt(n), Ended)' <=> SwarmAt(n) \in job.done
    BY <1>3 DEF Step, Rowed, Kept, Counting, Ended
  <2> QED
    BY <1>1, <1>3, <1>6, <2>1, <2>2, <2>3 DEF HandledAt
<1>12. EndIsAnEvents'
  <2> SUFFICES ASSUME NEW s \in DOMAIN sessions'
               PROVE  /\ sessions'[s].status # "running" =>
                           \E e \in RowsOf(s) : /\ Info[e].kind \in Terminal
                                                /\ sessions'[s].status = Final(e)
                                                /\ sessions'[s].ended = Info[e].at
                      /\ (\E e \in Of(acked, s) : Info[e].kind \in Terminal) => sessions'[s].status # "running"
    BY <1>1 DEF EndIsAnEvents, RowsOf, Of, Final
  <2>1. CASE s \in DOMAIN sessions
    BY <1>6, <2>1 DEF IngestInv, EndIsAnEvents
  <2>2. CASE s \notin DOMAIN sessions
    <3>1. Of(acked, s) = {}
      BY <1>8, <2>2 DEF Tallied, Of
    <3>2. sessions'[s].status = "running"
      BY <1>5, <1>6, <2>2
    <3> QED
      BY <3>1, <3>2
  <2> QED
    BY <2>1, <2>2
<1> QED
  BY <1>1, <1>7, <1>8, <1>10, <1>11, <1>12 DEF IngestInv, CountInv

LEMMA StoreKept ==
  ASSUME IngestInv, Store
  PROVE  IngestInv'
<1> DEFINE kept == {EventAt(n) : n \in Group}
<1>1. /\ Moves("store", "count") /\ saved' = saved \cup kept
      /\ UNCHANGED <<sessions, marks, posts, sent, acked>>
  BY DEF Store
<1>2. TypeInv
  BY DEF IngestInv
<1>3. /\ job # Nothing /\ Rest # {} /\ job' \in Job
      /\ job'.batch = job.batch /\ job'.done = job.done
      /\ \A n \in DOMAIN job.batch :
              /\ EventAt(n)' = EventAt(n) /\ SwarmAt(n)' = SwarmAt(n) /\ CopyAt(n)' = CopyAt(n)
              /\ \A K \in SUBSET Step :
                   /\ Reached(SwarmAt(n), K) <=> SwarmAt(n) \in job.done \/ (SwarmAt(n) = Current /\ "store" \in K)
                   /\ Reached(SwarmAt(n), K)' <=> SwarmAt(n) \in job.done \/ (SwarmAt(n) = Current /\ "count" \in K)
  BY <1>1, <1>2, MovesOn DEF Step
<1>4. PICK C \in SUBSET sent, B \in SUBSET sent : Tallied(C, B) /\ Handled(C, B)
  BY DEF IngestInv, CountInv
<1>5. \A n \in DOMAIN job.batch : HandledAt(C, B, n)
  BY <1>3, <1>4 DEF Handled
<1>6. ASSUME NEW e \in kept
      PROVE  e \in Event /\ Info[e].swarm \in DOMAIN sessions /\ \E c \in sent : c.event = e
  <2>1. PICK n \in Group : e = EventAt(n)
    OBVIOUS
  <2>2. n \in DOMAIN job.batch /\ SwarmAt(n) = Current /\ EventAt(n) \in Event
    BY <1>2, <1>3, GroupOf, InHand
  <2>3. Reached(SwarmAt(n), Rowed)
    BY <1>3, <2>2 DEF Rowed, Step
  <2>4. SwarmAt(n) \in DOMAIN sessions /\ CopyAt(n) \in sent
    BY <1>5, <2>2, <2>3 DEF HandledAt
  <2>5. SwarmAt(n) = Info[e].swarm /\ CopyAt(n).event = e
    BY <2>1 DEF SwarmAt, CopyAt
  <2> QED
    BY <2>1, <2>2, <2>4, <2>5
<1>7. \A n \in DOMAIN job.batch : SwarmAt(n) = Current => EventAt(n) \in kept
  BY <1>2, <1>3, GroupOf
<1> HIDE DEF kept
<1>8. TypeInv'
  BY <1>1, <1>2, <1>3, <1>6 DEF TypeInv, IngestTypeOK
<1>9. Tallied(C, B)'
  <2>1. \A e \in saved' : Info[e].swarm \in DOMAIN sessions' /\ \E c \in sent' : c.event = e
    BY <1>1, <1>4, <1>6 DEF Tallied
  <2> QED
    BY <1>1, <1>4, <2>1 DEF Tallied, CountedOf, CountedOfKind, MarkedFor
<1>10. Handled(C, B)'
  <2> SUFFICES ASSUME NEW n \in DOMAIN job.batch PROVE HandledAt(C, B, n)'
    BY <1>3 DEF Handled
  <2>1. HandledAt(C, B, n)
    BY <1>5
  <2>2. /\ Reached(SwarmAt(n), Rowed) <=> Reached(SwarmAt(n), Rowed)'
        /\ Reached(SwarmAt(n), Kept) <=> SwarmAt(n) \in job.done
        /\ Reached(SwarmAt(n), Kept)' <=> SwarmAt(n) \in job.done \/ SwarmAt(n) = Current
        /\ Reached(SwarmAt(n), Counting) <=> Reached(SwarmAt(n), Counting)'
        /\ Reached(SwarmAt(n), Ended) <=> Reached(SwarmAt(n), Ended)'
    BY <1>3 DEF Step, Rowed, Kept, Counting, Ended
  <2>3. Reached(SwarmAt(n), Kept)' => EventAt(n) \in saved'
    BY <1>1, <1>7, <2>1, <2>2 DEF HandledAt
  <2> QED
    BY <1>1, <1>3, <2>1, <2>2, <2>3 DEF HandledAt
<1>11. EndIsAnEvents'
  BY <1>1 DEF IngestInv, EndIsAnEvents, RowsOf, Of
<1> QED
  BY <1>1, <1>4, <1>8, <1>9, <1>10, <1>11 DEF IngestInv, CountInv

(* Counting the group counts its copies.                                   *)
LEMMA CountKept ==
  ASSUME IngestInv, Count
  PROVE  IngestInv'
<1>1. /\ Moves("count", "finalise") /\ UNCHANGED <<saved, marks, posts, sent, acked>>
      /\ sessions' = [sessions EXCEPT
           ![Current].events = @ + Cardinality(Group),
           ![Current].retries = @ + OfKind(Group, "retry"),
           ![Current].anomalies = @ + OfKind(Group, "anomaly")]
  BY DEF Count
<1>2. TypeInv
  BY DEF IngestInv
<1>3. /\ job # Nothing /\ Rest # {} /\ job' \in Job
      /\ job'.batch = job.batch /\ job'.done = job.done
      /\ \A n \in DOMAIN job.batch :
              /\ EventAt(n)' = EventAt(n) /\ SwarmAt(n)' = SwarmAt(n) /\ CopyAt(n)' = CopyAt(n)
              /\ \A K \in SUBSET Step :
                   /\ Reached(SwarmAt(n), K) <=> SwarmAt(n) \in job.done \/ (SwarmAt(n) = Current /\ "count" \in K)
                   /\ Reached(SwarmAt(n), K)' <=> SwarmAt(n) \in job.done \/ (SwarmAt(n) = Current /\ "finalise" \in K)
  BY <1>1, <1>2, MovesOn DEF Step
<1>4. PICK C \in SUBSET sent, B \in SUBSET sent : Tallied(C, B) /\ Handled(C, B)
  BY DEF IngestInv, CountInv
<1>5. \A n \in DOMAIN job.batch : HandledAt(C, B, n)
  BY <1>3, <1>4 DEF Handled
<1>6. /\ Group \subseteq DOMAIN job.batch /\ IsFiniteSet(Group)
      /\ \A n \in DOMAIN job.batch : n \in Group <=> SwarmAt(n) = Current
      /\ Current \in Swarm \ job.done /\ \E n \in DOMAIN job.batch : SwarmAt(n) = Current
  BY <1>2, <1>3, GroupOf, InHand
<1>7. \A n \in Group : CopyAt(n) \notin C /\ CopyAt(n) \in sent
  <2> SUFFICES ASSUME NEW n \in Group PROVE CopyAt(n) \notin C /\ CopyAt(n) \in sent
    OBVIOUS
  <2>1. n \in DOMAIN job.batch /\ SwarmAt(n) = Current
    BY <1>6
  <2>2. ~Reached(SwarmAt(n), Counting)
    BY <1>3, <1>6, <2>1 DEF Step, Counting
  <2> QED
    BY <1>5, <2>1, <2>2 DEF HandledAt
<1>8. Current \in DOMAIN sessions
  <2>1. PICK n \in DOMAIN job.batch : SwarmAt(n) = Current
    BY <1>6
  <2>2. Reached(SwarmAt(n), Rowed)
    BY <1>3, <2>1 DEF Step, Rowed
  <2> QED
    BY <1>5, <2>1, <2>2 DEF HandledAt
<1>8a. PICK D : D = C \cup Copies(Group)
  OBVIOUS
<1> DEFINE P(kind) == {n \in Group : Info[EventAt(n)].kind = kind}
<1>9. D \in SUBSET sent
  BY <1>7, <1>8a DEF Copies
<1>10. \A n \in Group : CopyAt(n).event = EventAt(n) /\ Info[CopyAt(n).event].swarm = Current
  BY <1>6 DEF CopyAt, SwarmAt
<1>11. \A s : s # Current => /\ CountedOf(D, s) = CountedOf(C, s)
                             /\ \A kind : CountedOfKind(D, s, kind) = CountedOfKind(C, s, kind)
  BY <1>10, <1>8a DEF CountedOf, CountedOfKind, Copies
<1>12. /\ CountedOf(D, Current) = CountedOf(C, Current) \cup Copies(Group)
       /\ CountedOf(C, Current) \cap Copies(Group) = {}
  BY <1>7, <1>10, <1>8a DEF CountedOf, Copies
<1>13. ASSUME NEW kind \in Kinds
       PROVE  /\ CountedOfKind(D, Current, kind) = CountedOfKind(C, Current, kind) \cup Copies(P(kind))
              /\ CountedOfKind(C, Current, kind) \cap Copies(P(kind)) = {}
  BY <1>7, <1>10, <1>8a DEF CountedOf, CountedOfKind, Copies
<1>14. IsFiniteSet(C) /\ \A kind : IsFiniteSet(P(kind))
  <2>1. IsFiniteSet(C)
    BY <1>2, <1>4, FS_Subset DEF TypeInv
  <2>2. \A kind : P(kind) \subseteq Group
    OBVIOUS
  <2> QED
    BY <1>6, <2>1, <2>2, FS_Subset
<1>15. \A kind : /\ IsFiniteSet(CountedOf(C, Current)) /\ IsFiniteSet(CountedOfKind(C, Current, kind))
                 /\ OfKind(Group, kind) = Cardinality(P(kind))
  <2>1. \A kind : CountedOf(C, Current) \subseteq C /\ CountedOfKind(C, Current, kind) \subseteq C
    BY DEF CountedOf, CountedOfKind
  <2> QED
    BY <1>14, <2>1, FS_Subset DEF OfKind
<1>16. Cardinality(CountedOf(D, Current)) = Cardinality(CountedOf(C, Current)) + Cardinality(Group)
  <2>1. IsFiniteSet(Copies(Group)) /\ Cardinality(Copies(Group)) = Cardinality(Group)
    BY <1>6, CopiesCounted
  <2> QED
    BY <1>12, <1>15, <2>1, DisjointUnion
<1>17. \A kind \in Kinds : Cardinality(CountedOfKind(D, Current, kind))
                             = Cardinality(CountedOfKind(C, Current, kind)) + OfKind(Group, kind)
  <2> SUFFICES ASSUME NEW kind \in Kinds
               PROVE  Cardinality(CountedOfKind(D, Current, kind))
                             = Cardinality(CountedOfKind(C, Current, kind)) + OfKind(Group, kind)
    OBVIOUS
  <2> HIDE DEF P
  <2>1. IsFiniteSet(Copies(P(kind))) /\ Cardinality(Copies(P(kind))) = Cardinality(P(kind))
    BY <1>14, CopiesCounted
  <2> QED
    BY <1>13, <1>15, <2>1, DisjointUnion
<1> HIDE DEF P
<1>18. /\ DOMAIN sessions' = DOMAIN sessions
       /\ \A s \in DOMAIN sessions : s # Current => sessions'[s] = sessions[s]
       /\ sessions'[Current] = [sessions[Current] EXCEPT
            !.events = @ + Cardinality(Group), !.retries = @ + OfKind(Group, "retry"),
            !.anomalies = @ + OfKind(Group, "anomaly")]
  BY <1>1, <1>8
<1>19. /\ sessions'[Current].events = sessions[Current].events + Cardinality(Group)
       /\ sessions'[Current].retries = sessions[Current].retries + OfKind(Group, "retry")
       /\ sessions'[Current].anomalies = sessions[Current].anomalies + OfKind(Group, "anomaly")
       /\ sessions'[Current].status = sessions[Current].status
       /\ sessions'[Current].ended = sessions[Current].ended
       /\ sessions'[Current] \in Row
  <2>1. /\ Cardinality(Group) \in Nat /\ OfKind(Group, "retry") \in Nat /\ OfKind(Group, "anomaly") \in Nat
    BY <1>6, <1>14, <1>15, FS_CardinalityType
  <2>2. PICK r : r = sessions[Current]
    OBVIOUS
  <2>3. /\ r = [started |-> r.started, ended |-> r.ended, events |-> r.events, retries |-> r.retries,
                anomalies |-> r.anomalies, status |-> r.status]
        /\ r.started \in Nat /\ r.ended \in Nat \cup {Nothing} /\ r.events \in Nat
        /\ r.retries \in Nat /\ r.anomalies \in Nat /\ r.status \in {"running", "completed", "failed"}
    BY <1>2, <1>8, <2>2, Rows
  <2>4. sessions'[Current] = [started |-> r.started, ended |-> r.ended, events |-> r.events + Cardinality(Group),
                             retries |-> r.retries + OfKind(Group, "retry"),
                             anomalies |-> r.anomalies + OfKind(Group, "anomaly"), status |-> r.status]
    BY <1>18, <2>2, <2>3
  <2>5. /\ r.events + Cardinality(Group) \in Nat /\ r.retries + OfKind(Group, "retry") \in Nat
        /\ r.anomalies + OfKind(Group, "anomaly") \in Nat
    BY <2>1, <2>3
  <2>6. sessions'[Current] \in Row
    BY <2>3, <2>4, <2>5 DEF Row
  <2> QED
    BY <2>2, <2>4, <2>6
<1>20. TypeInv'
  <2>1. \A s \in DOMAIN sessions' : s \in Swarm /\ sessions'[s] \in Row
    BY <1>2, <1>18, <1>19 DEF TypeInv, IngestTypeOK
  <2> QED
    BY <1>1, <1>2, <1>3, <1>18, <2>1 DEF TypeInv, IngestTypeOK
<1>21. Tallied(D, B)'
  <2>1. ASSUME NEW s \in DOMAIN sessions
        PROVE  /\ sessions'[s].events = Cardinality(CountedOf(D, s))
               /\ sessions'[s].retries = Cardinality(CountedOfKind(D, s, "retry"))
               /\ sessions'[s].anomalies = Cardinality(CountedOfKind(D, s, "anomaly"))
    <3>1. /\ sessions[s].events = Cardinality(CountedOf(C, s))
          /\ sessions[s].retries = Cardinality(CountedOfKind(C, s, "retry"))
          /\ sessions[s].anomalies = Cardinality(CountedOfKind(C, s, "anomaly"))
      BY <1>4 DEF Tallied
    <3>2. CASE s = Current
      BY <1>16, <1>17, <1>19, <3>1, <3>2 DEF Kinds
    <3>3. CASE s # Current
      BY <1>11, <1>18, <3>1, <3>3
    <3> QED
      BY <3>2, <3>3
  <2>2. \A c \in D : Info[c.event].swarm \in DOMAIN sessions
    BY <1>4, <1>8, <1>10, <1>8a DEF Copies, Tallied
  <2>3. \A e \in acked : e \in saved /\ (\E c \in D : c.event = e)
    BY <1>4, <1>8a DEF Tallied
  <2>4. \A e \in Event : marks[e] = Cardinality(MarkedFor(B, e))
    BY <1>4 DEF Tallied
  <2>5. \A e \in acked : Notable(e) => \E b \in B : b.event = e
    BY <1>4 DEF Tallied
  <2>6. \A e \in saved : Info[e].swarm \in DOMAIN sessions /\ \E c \in sent : c.event = e
    BY <1>4 DEF Tallied
  <2> QED
    BY <1>1, <1>18, <2>1, <2>2, <2>3, <2>4, <2>5, <2>6 DEF Tallied, CountedOf, CountedOfKind, MarkedFor
<1>22. Handled(D, B)'
  <2> SUFFICES ASSUME NEW n \in DOMAIN job.batch PROVE HandledAt(D, B, n)'
    BY <1>3 DEF Handled
  <2>1. HandledAt(C, B, n)
    BY <1>5
  <2>2. /\ Reached(SwarmAt(n), Rowed) <=> Reached(SwarmAt(n), Rowed)'
        /\ Reached(SwarmAt(n), Kept) <=> Reached(SwarmAt(n), Kept)'
        /\ Reached(SwarmAt(n), Counting) <=> SwarmAt(n) \in job.done
        /\ Reached(SwarmAt(n), Counting)' <=> SwarmAt(n) \in job.done \/ SwarmAt(n) = Current
        /\ Reached(SwarmAt(n), Ended) <=> SwarmAt(n) \in job.done
        /\ Reached(SwarmAt(n), Ended)' <=> SwarmAt(n) \in job.done
    BY <1>3 DEF Step, Rowed, Kept, Counting, Ended
  <2>3. CopyAt(n) \in D <=> CopyAt(n) \in C \/ SwarmAt(n) = Current
    <3>1. ASSUME NEW m \in Group, CopyAt(m) = CopyAt(n) PROVE n \in Group
      BY <3>1 DEF CopyAt
    <3>2. CopyAt(n) \in Copies(Group) <=> n \in Group
      BY <3>1 DEF Copies
    <3> QED
      BY <1>6, <1>8a, <3>2
  <2>4. SwarmAt(n) \in job.done => SwarmAt(n) # Current
    BY <1>6
  <2>5. SwarmAt(n) \in job.done => sessions'[SwarmAt(n)] = sessions[SwarmAt(n)]
    BY <1>18, <2>1, <2>4 DEF HandledAt, Reached
  <2>6. /\ EventAt(n)' = EventAt(n) /\ SwarmAt(n)' = SwarmAt(n) /\ CopyAt(n)' = CopyAt(n)
    BY <1>3
  <2> QED
    BY <1>1, <1>3, <1>18, <2>1, <2>2, <2>3, <2>5, <2>6 DEF HandledAt
<1>23. EndIsAnEvents'
  <2>1. \A s \in DOMAIN sessions : sessions'[s].status = sessions[s].status /\ sessions'[s].ended = sessions[s].ended
    BY <1>18, <1>19
  <2> QED
    BY <1>1, <1>18, <2>1 DEF IngestInv, EndIsAnEvents, RowsOf, Of
<1>24. D \in SUBSET sent' /\ B \in SUBSET sent'
  BY <1>1, <1>4, <1>9
<1> QED
  BY <1>20, <1>21, <1>22, <1>23, <1>24 DEF IngestInv, CountInv

(* What finalising for the terminal events at some places leaves of a row. *)
LEMMA FinalisedRow ==
  ASSUME TypeInv, job # Nothing, NEW s \in DOMAIN sessions, NEW P \in SUBSET DOMAIN job.batch
  PROVE  /\ Finalised(sessions[s], P) \in Row
         /\ Finalised(sessions[s], P).events = sessions[s].events
         /\ Finalised(sessions[s], P).retries = sessions[s].retries
         /\ Finalised(sessions[s], P).anomalies = sessions[s].anomalies
         /\ \/ /\ ~\E n \in P : Info[EventAt(n)].kind \in Terminal
               /\ Finalised(sessions[s], P) = sessions[s]
            \/ \E n \in P : /\ Info[EventAt(n)].kind \in Terminal
                            /\ Finalised(sessions[s], P).status = Final(EventAt(n))
                            /\ Finalised(sessions[s], P).ended = Info[EventAt(n)].at
<1> DEFINE ends == {n \in P : Info[EventAt(n)].kind \in Terminal}
           line == Finalised(sessions[s], P)
<1>1. PICK r : r = sessions[s]
  OBVIOUS
<1>2. /\ r = [started |-> r.started, ended |-> r.ended, events |-> r.events, retries |-> r.retries,
              anomalies |-> r.anomalies, status |-> r.status]
      /\ r.started \in Nat /\ r.ended \in Nat \cup {Nothing} /\ r.events \in Nat
      /\ r.retries \in Nat /\ r.anomalies \in Nat /\ r.status \in {"running", "completed", "failed"}
  BY <1>1, Rows
<1>3. r \in Row
  BY <1>2 DEF Row
<1>4. CASE ends = {}
  <2>1. line = r
    BY <1>1, <1>4 DEF Finalised
  <2> QED
    BY <1>1, <1>3, <1>4, <2>1
<1>5. CASE ends # {}
  <2>1. Len(job.batch) \in Nat /\ ends \in SUBSET (1 .. Len(job.batch))
    BY InHand
  <2>2. Max(ends) \in ends
    <3> HIDE DEF ends
    <3> QED
      BY <1>5, <2>1, MaxOf
  <2>3. PICK n \in P : n = Max(ends) /\ Info[EventAt(n)].kind \in Terminal
    BY <2>2
  <2>4. EventAt(n) \in Event
    BY InHand
  <2>5. Info[EventAt(n)].at \in Nat /\ Final(EventAt(n)) \in {"completed", "failed"}
    BY <2>4, EventAssumption DEF Final
  <2>6. line = [r EXCEPT !.status = Final(EventAt(n)), !.ended = Info[EventAt(n)].at]
    BY <1>1, <1>5, <2>3 DEF Finalised
  <2>7. line = [started |-> r.started, ended |-> Info[EventAt(n)].at, events |-> r.events, retries |-> r.retries,
               anomalies |-> r.anomalies, status |-> Final(EventAt(n))]
    <3> HIDE DEF line
    <3> QED
      BY <1>2, <2>6
  <2> HIDE DEF line
  <2>8. line \in Row
    BY <1>2, <2>5, <2>7 DEF Row
  <2>9. /\ line.events = r.events /\ line.retries = r.retries /\ line.anomalies = r.anomalies
        /\ line.status = Final(EventAt(n)) /\ line.ended = Info[EventAt(n)].at
    BY <2>7
  <2> QED
    BY <1>1, <2>3, <2>8, <2>9 DEF line
<1> QED
  BY <1>4, <1>5

(* Finalising the swarm in hand, for all of its places or those up to a    *)
(* failure.                                                                *)
LEMMA EndMoved ==
  ASSUME IngestInv, job # Nothing, Rest # {}, job.step = "finalise", NEW P \in SUBSET Group,
         sessions' = [sessions EXCEPT ![Current] = Finalised(@, P)], UNCHANGED <<saved, acked>>
  PROVE  /\ DOMAIN sessions' = DOMAIN sessions
         /\ \A s \in DOMAIN sessions :
              /\ sessions'[s] \in Row
              /\ sessions'[s].events = sessions[s].events
              /\ sessions'[s].retries = sessions[s].retries
              /\ sessions'[s].anomalies = sessions[s].anomalies
              /\ sessions[s].status # "running" => sessions'[s].status # "running"
         /\ (\E n \in P : Info[EventAt(n)].kind \in Terminal) => sessions'[Current].status # "running"
         /\ EndIsAnEvents'
<1>1. TypeInv
  BY DEF IngestInv
<1>2. PICK C \in SUBSET sent, B \in SUBSET sent : Handled(C, B)
  BY DEF IngestInv, CountInv
<1>3. /\ Group \subseteq DOMAIN job.batch /\ \A n \in Group : SwarmAt(n) = Current
      /\ Current \in Swarm \ job.done /\ \E n \in DOMAIN job.batch : SwarmAt(n) = Current
  BY <1>1, GroupOf, InHand
<1>4. Reached(Current, Rowed) /\ Reached(Current, Kept)
  BY DEF Reached, Rowed, Kept
<1>5. Current \in DOMAIN sessions
  BY <1>2, <1>3, <1>4 DEF Handled, HandledAt
<1>6. \A n \in Group : EventAt(n) \in saved /\ Info[EventAt(n)].swarm = Current
  BY <1>2, <1>3, <1>4 DEF Handled, HandledAt, SwarmAt
<1>7. PICK line : line = Finalised(sessions[Current], P)
  OBVIOUS
<1>8. /\ line \in Row /\ line.events = sessions[Current].events
      /\ line.retries = sessions[Current].retries /\ line.anomalies = sessions[Current].anomalies
      /\ \/ line = sessions[Current] /\ ~\E n \in P : Info[EventAt(n)].kind \in Terminal
         \/ \E n \in P : /\ Info[EventAt(n)].kind \in Terminal
                         /\ line.status = Final(EventAt(n))
                         /\ line.ended = Info[EventAt(n)].at
  <2>1. P \in SUBSET DOMAIN job.batch
    BY <1>3
  <2> QED
    BY <1>1, <1>5, <1>7, <2>1, FinalisedRow
<1>9. /\ DOMAIN sessions' = DOMAIN sessions /\ sessions'[Current] = line
      /\ \A s \in DOMAIN sessions : s # Current => sessions'[s] = sessions[s]
  BY <1>5, <1>7
<1>10. \A e : Final(e) # "running"
  BY DEF Final
<1>11. /\ sessions[Current].status # "running" => line.status # "running"
       /\ (\E n \in P : Info[EventAt(n)].kind \in Terminal) => line.status # "running"
  BY <1>8, <1>10
<1>12. \A s \in DOMAIN sessions : sessions[s] \in Row
  BY <1>1 DEF TypeInv, IngestTypeOK
<1>13. EndIsAnEvents'
  <2> SUFFICES ASSUME NEW s \in DOMAIN sessions
               PROVE  /\ sessions'[s].status # "running" =>
                           \E e \in RowsOf(s) : /\ Info[e].kind \in Terminal
                                                /\ sessions'[s].status = Final(e)
                                                /\ sessions'[s].ended = Info[e].at
                      /\ (\E e \in Of(acked, s) : Info[e].kind \in Terminal) => sessions'[s].status # "running"
    BY <1>9 DEF EndIsAnEvents, RowsOf, Of, Final
  <2>1. /\ sessions[s].status # "running" =>
                           \E e \in RowsOf(s) : /\ Info[e].kind \in Terminal
                                                /\ sessions[s].status = Final(e)
                                                /\ sessions[s].ended = Info[e].at
        /\ (\E e \in Of(acked, s) : Info[e].kind \in Terminal) => sessions[s].status # "running"
    BY DEF IngestInv, EndIsAnEvents
  <2>2. CASE s # Current \/ line = sessions[Current]
    BY <1>9, <2>1, <2>2
  <2>3. CASE s = Current /\ line # sessions[Current]
    <3>1. PICK n \in P : /\ Info[EventAt(n)].kind \in Terminal
                         /\ line.status = Final(EventAt(n))
                         /\ line.ended = Info[EventAt(n)].at
      BY <1>8, <2>3
    <3>2. EventAt(n) \in RowsOf(s)
      BY <1>6, <2>3 DEF RowsOf
    <3> QED
      BY <1>9, <1>10, <2>3, <3>1, <3>2
  <2> QED
    BY <2>2, <2>3
<1> QED
  BY <1>8, <1>9, <1>11, <1>12, <1>13

(* Rows and bookmarks as before, but for the end of a swarm.               *)
LEMMA TallyKept ==
  ASSUME IngestInv, NEW C \in SUBSET sent, NEW B \in SUBSET sent, Tallied(C, B),
         DOMAIN sessions' = DOMAIN sessions,
         \A s \in DOMAIN sessions : /\ sessions'[s].events = sessions[s].events
                                    /\ sessions'[s].retries = sessions[s].retries
                                    /\ sessions'[s].anomalies = sessions[s].anomalies,
         UNCHANGED <<saved, marks, sent, acked>>
  PROVE  Tallied(C, B)'
  BY DEF Tallied, CountedOf, CountedOfKind, MarkedFor

LEMMA FinaliseKept ==
  ASSUME IngestInv, Finalise
  PROVE  IngestInv'
<1>1. /\ Moves("finalise", "bookmark") /\ UNCHANGED <<saved, marks, posts, sent, acked>>
      /\ sessions' = [sessions EXCEPT ![Current] = Finalised(@, Group)]
  BY DEF Finalise
<1>2. TypeInv
  BY DEF IngestInv
<1>3. /\ job # Nothing /\ Rest # {} /\ job' \in Job /\ job.step = "finalise"
      /\ job'.batch = job.batch /\ job'.done = job.done
      /\ \A n \in DOMAIN job.batch :
              /\ EventAt(n)' = EventAt(n) /\ SwarmAt(n)' = SwarmAt(n) /\ CopyAt(n)' = CopyAt(n)
              /\ \A K \in SUBSET Step :
                   /\ Reached(SwarmAt(n), K) <=> SwarmAt(n) \in job.done \/ (SwarmAt(n) = Current /\ "finalise" \in K)
                   /\ Reached(SwarmAt(n), K)' <=> SwarmAt(n) \in job.done \/ (SwarmAt(n) = Current /\ "bookmark" \in K)
  <2>1. job.step = "finalise"
    BY <1>1 DEF Moves
  <2> QED
    BY <1>1, <1>2, <2>1, MovesOn DEF Step
<1>4. PICK C \in SUBSET sent, B \in SUBSET sent : Tallied(C, B) /\ Handled(C, B)
  BY DEF IngestInv, CountInv
<1>5. \A n \in DOMAIN job.batch : n \in Group <=> SwarmAt(n) = Current
  BY <1>2, <1>3, GroupOf
<1>6. /\ DOMAIN sessions' = DOMAIN sessions
      /\ \A s \in DOMAIN sessions :
              /\ sessions'[s] \in Row
              /\ sessions'[s].events = sessions[s].events
              /\ sessions'[s].retries = sessions[s].retries
              /\ sessions'[s].anomalies = sessions[s].anomalies
              /\ sessions[s].status # "running" => sessions'[s].status # "running"
      /\ (\E n \in Group : Info[EventAt(n)].kind \in Terminal) => sessions'[Current].status # "running"
      /\ EndIsAnEvents'
  BY <1>1, <1>3, EndMoved
<1>7. TypeInv'
  BY <1>1, <1>2, <1>3, <1>6 DEF TypeInv, IngestTypeOK
<1>8. Tallied(C, B)'
  BY <1>1, <1>4, <1>6, TallyKept
<1>9. Handled(C, B)'
  <2> SUFFICES ASSUME NEW n \in DOMAIN job.batch PROVE HandledAt(C, B, n)'
    BY <1>3 DEF Handled
  <2>1. HandledAt(C, B, n)
    BY <1>3, <1>4 DEF Handled
  <2>2. /\ Reached(SwarmAt(n), Rowed) <=> Reached(SwarmAt(n), Rowed)'
        /\ Reached(SwarmAt(n), Kept) <=> Reached(SwarmAt(n), Kept)'
        /\ Reached(SwarmAt(n), Counting) <=> Reached(SwarmAt(n), Counting)'
        /\ Reached(SwarmAt(n), Ended) <=> SwarmAt(n) \in job.done
        /\ Reached(SwarmAt(n), Ended)' <=> SwarmAt(n) \in job.done \/ SwarmAt(n) = Current
        /\ Reached(SwarmAt(n), Ended) => Reached(SwarmAt(n), Rowed)
    BY <1>3 DEF Step, Rowed, Kept, Counting, Ended
  <2>3. Info[EventAt(n)].kind \in Terminal /\ Reached(SwarmAt(n), Ended)' => sessions'[SwarmAt(n)].status # "running"
    BY <1>5, <1>6, <2>1, <2>2 DEF HandledAt
  <2>4. EventAt(n)' = EventAt(n) /\ SwarmAt(n)' = SwarmAt(n) /\ CopyAt(n)' = CopyAt(n)
    BY <1>3
  <2> QED
    BY <1>1, <1>3, <1>6, <2>1, <2>2, <2>3, <2>4 DEF HandledAt
<1> QED
  BY <1>1, <1>4, <1>6, <1>7, <1>8, <1>9 DEF IngestInv, CountInv

(* Bookmarking the swarm in hand, at all of its places or those up to a    *)
(* failure.                                                                *)
LEMMA MarksMoved ==
  ASSUME IngestInv, job # Nothing, Rest # {}, job.step = "bookmark", NEW P \in SUBSET Group,
         NEW C \in SUBSET sent, NEW B \in SUBSET sent, Tallied(C, B), Handled(C, B),
         marks' = Marked(P), UNCHANGED <<sessions, saved, sent, acked>>
  PROVE  /\ marks' \in [Event -> Nat]
         /\ \E D \in SUBSET sent : D = B \cup Copies({n \in P : Notable(EventAt(n))}) /\ Tallied(C, D)'
<1>1. TypeInv
  BY DEF IngestInv
<1>2. /\ Group \subseteq DOMAIN job.batch /\ IsFiniteSet(Group) /\ \A n \in Group : SwarmAt(n) = Current
      /\ Current \in Swarm \ job.done /\ \A n \in DOMAIN job.batch : EventAt(n) \in Event
  BY <1>1, GroupOf, InHand
<1>3. \A n \in P : CopyAt(n) \in sent /\ CopyAt(n) \notin B /\ CopyAt(n).event = EventAt(n)
  BY <1>2 DEF Handled, HandledAt, CopyAt
<1> DEFINE Q(e) == {n \in P : Notable(e) /\ EventAt(n) = e}
<1>4. PICK D : D = B \cup Copies({n \in P : Notable(EventAt(n))})
  OBVIOUS
<1>5. D \in SUBSET sent
  BY <1>3, <1>4 DEF Copies
<1>6. ASSUME NEW e \in Event
      PROVE  /\ MarkedFor(D, e) = MarkedFor(B, e) \cup Copies(Q(e))
             /\ MarkedFor(B, e) \cap Copies(Q(e)) = {}
  BY <1>3, <1>4 DEF MarkedFor, Copies
<1>7. \A e \in Event : IsFiniteSet(Q(e)) /\ IsFiniteSet(MarkedFor(B, e))
  <2>1. \A e : Q(e) \subseteq Group /\ MarkedFor(B, e) \subseteq sent
    BY DEF MarkedFor
  <2>2. IsFiniteSet(sent)
    BY <1>1 DEF TypeInv
  <2> HIDE DEF Q
  <2> QED
    BY <1>2, <2>1, <2>2, FS_Subset
<1>8. \A e \in Event : /\ marks'[e] = marks[e] + Cardinality(Q(e))
                       /\ Cardinality(Q(e)) \in Nat
                       /\ marks[e] = Cardinality(MarkedFor(B, e)) /\ marks[e] \in Nat
  <2>1. \A e \in Event : marks'[e] = marks[e] + Cardinality(Q(e))
    BY DEF Marked
  <2> HIDE DEF Q
  <2>2. \A e \in Event : Cardinality(Q(e)) \in Nat
    BY <1>7, FS_CardinalityType
  <2>3. \A e \in Event : marks[e] = Cardinality(MarkedFor(B, e)) /\ marks[e] \in Nat
    BY <1>1 DEF Tallied, TypeInv, IngestTypeOK
  <2> QED
    BY <2>1, <2>2, <2>3
<1>9. \A e \in Event : marks'[e] = Cardinality(MarkedFor(D, e))
  <2> SUFFICES ASSUME NEW e \in Event PROVE marks'[e] = Cardinality(MarkedFor(D, e))
    OBVIOUS
  <2> HIDE DEF Q
  <2>1. IsFiniteSet(Copies(Q(e))) /\ Cardinality(Copies(Q(e))) = Cardinality(Q(e))
    BY <1>7, CopiesCounted
  <2>2. Cardinality(MarkedFor(D, e)) = Cardinality(MarkedFor(B, e)) + Cardinality(Copies(Q(e)))
    BY <1>6, <1>7, <2>1, DisjointUnion
  <2> QED
    BY <1>8, <2>1, <2>2
<1>10. marks' \in [Event -> Nat]
  <2>1. marks' = [e \in Event |-> marks'[e]]
    BY DEF Marked
  <2>2. \A e \in Event : marks'[e] \in Nat
    <3> HIDE DEF Q
    <3> QED
      BY <1>8
  <2> QED
    BY <2>1, <2>2
<1>11. Tallied(C, D)'
  <2>1. \A e \in acked : e \in saved /\ (\E c \in C : c.event = e) /\ (Notable(e) => \E b \in D : b.event = e)
    BY <1>4 DEF Tallied
  <2> QED
    BY <1>9, <2>1 DEF Tallied, MarkedFor
<1> QED
  BY <1>4, <1>5, <1>10, <1>11

LEMMA BookmarkKept ==
  ASSUME IngestInv, Bookmark
  PROVE  IngestInv'
<1>1. /\ job # Nothing /\ Rest # {} /\ job.step = "bookmark" /\ marks' = Marked(Group)
      /\ job' = [job EXCEPT !.done = @ \cup {Current}, !.step = "ensure"]
      /\ UNCHANGED <<sessions, saved, posts, sent, acked>>
  BY DEF Bookmark
<1>2. TypeInv
  BY DEF IngestInv
<1>3. /\ job \in Job /\ Current \in Swarm \ job.done
      /\ \A n \in DOMAIN job.batch : n \in Group <=> SwarmAt(n) = Current
  BY <1>1, <1>2, GroupOf, InHand
<1>4. job' \in Job /\ job'.batch = job.batch /\ job'.done = job.done \cup {Current} /\ job'.step = "ensure"
  BY <1>1, <1>3 DEF Job
<1>5. \A n : EventAt(n)' = EventAt(n) /\ SwarmAt(n)' = SwarmAt(n) /\ CopyAt(n)' = CopyAt(n)
  BY <1>1, <1>4 DEF EventAt, SwarmAt, CopyAt
<1>6. PICK C \in SUBSET sent, B \in SUBSET sent : Tallied(C, B) /\ Handled(C, B)
  BY DEF IngestInv, CountInv
<1>7. /\ marks' \in [Event -> Nat]
      /\ \E D \in SUBSET sent : D = B \cup Copies({n \in Group : Notable(EventAt(n))}) /\ Tallied(C, D)'
  BY <1>1, <1>6, MarksMoved
<1>8. PICK D \in SUBSET sent : D = B \cup Copies({n \in Group : Notable(EventAt(n))}) /\ Tallied(C, D)'
  BY <1>7
<1>9. TypeInv'
  BY <1>1, <1>2, <1>4, <1>7 DEF TypeInv, IngestTypeOK
<1>10. Handled(C, D)'
  <2> SUFFICES ASSUME NEW n \in DOMAIN job.batch PROVE HandledAt(C, D, n)'
    BY <1>4 DEF Handled
  <2>1. HandledAt(C, B, n)
    BY <1>1, <1>6 DEF Handled
  <2>2. \A K \in SUBSET Step : "bookmark" \in K /\ "ensure" \notin K =>
          (Reached(SwarmAt(n), K)' <=> Reached(SwarmAt(n), K))
    BY <1>1, <1>4, <1>5 DEF Reached
  <2>3. /\ Reached(SwarmAt(n), Rowed) <=> Reached(SwarmAt(n), Rowed)'
        /\ Reached(SwarmAt(n), Kept) <=> Reached(SwarmAt(n), Kept)'
        /\ Reached(SwarmAt(n), Counting) <=> Reached(SwarmAt(n), Counting)'
        /\ Reached(SwarmAt(n), Ended) <=> Reached(SwarmAt(n), Ended)'
    BY <2>2 DEF Step, Rowed, Kept, Counting, Ended
  <2>4. CopyAt(n) \in D <=> CopyAt(n) \in B \/ (SwarmAt(n) = Current /\ Notable(EventAt(n)))
    <3>1. ASSUME NEW m \in Group, CopyAt(m) = CopyAt(n) PROVE m = n
      BY <3>1 DEF CopyAt
    <3>2. CopyAt(n) \in Copies({m \in Group : Notable(EventAt(m))}) <=> n \in Group /\ Notable(EventAt(n))
      BY <3>1 DEF Copies
    <3> QED
      BY <1>3, <1>8, <3>2
  <2>5. Notable(EventAt(n))' <=> Notable(EventAt(n))
    BY <1>5 DEF Notable
  <2> QED
    BY <1>1, <1>4, <1>5, <2>1, <2>3, <2>4, <2>5 DEF HandledAt
<1>11. EndIsAnEvents'
  BY <1>1 DEF IngestInv, EndIsAnEvents, RowsOf, Of
<1> QED
  BY <1>1, <1>6, <1>8, <1>9, <1>10, <1>11 DEF IngestInv, CountInv

(* The batch is answered when all of its swarms are finished.              *)
LEMMA AnswerKept ==
  ASSUME IngestInv, Answer
  PROVE  IngestInv'
<1>1. /\ job # Nothing /\ Rest = {} /\ job' = Nothing /\ UNCHANGED <<sessions, saved, marks, posts, sent>>
      /\ acked' = acked \cup {EventAt(n) : n \in DOMAIN job.batch}
  BY DEF Answer
<1>2. TypeInv
  BY DEF IngestInv
<1>3. \A n \in DOMAIN job.batch : SwarmAt(n) \in job.done /\ EventAt(n) \in Event
  BY <1>1, <1>2, InHand DEF Rest, SwarmAt
<1>4. PICK C \in SUBSET sent, B \in SUBSET sent : Tallied(C, B) /\ Handled(C, B)
  BY DEF IngestInv, CountInv
<1>5. ASSUME NEW n \in DOMAIN job.batch
      PROVE  /\ EventAt(n) \in saved /\ CopyAt(n) \in C /\ CopyAt(n).event = EventAt(n)
             /\ Notable(EventAt(n)) => CopyAt(n) \in B
             /\ Info[EventAt(n)].kind \in Terminal => sessions[Info[EventAt(n)].swarm].status # "running"
  <2>1. HandledAt(C, B, n)
    BY <1>1, <1>4 DEF Handled
  <2>2. Reached(SwarmAt(n), Kept) /\ Reached(SwarmAt(n), Counting) /\ Reached(SwarmAt(n), Ended)
    BY <1>3 DEF Reached
  <2> QED
    BY <1>3, <2>1, <2>2 DEF HandledAt, CopyAt, SwarmAt
<1>6. TypeInv'
  BY <1>1, <1>2, <1>3 DEF TypeInv, IngestTypeOK
<1>7. Tallied(C, B)'
  <2>1. \A e \in acked' : e \in saved /\ (\E c \in C : c.event = e) /\ (Notable(e) => \E b \in B : b.event = e)
    BY <1>1, <1>4, <1>5 DEF Tallied
  <2> QED
    BY <1>1, <1>4, <2>1 DEF Tallied, CountedOf, CountedOfKind, MarkedFor
<1>8. Handled(C, B)'
  BY <1>1 DEF Handled
<1>9. EndIsAnEvents'
  <2>1. \A e \in acked' : e \in acked \/ (Info[e].kind \in Terminal => sessions[Info[e].swarm].status # "running")
    BY <1>1, <1>5
  <2> QED
    BY <1>1, <2>1 DEF IngestInv, EndIsAnEvents, RowsOf, Of
<1> QED
  BY <1>1, <1>4, <1>6, <1>7, <1>8, <1>9 DEF IngestInv, CountInv

(* A failure keeps what was committed.                                     *)
LEMMA FailKept ==
  ASSUME IngestInv, Fail
  PROVE  IngestInv'
<1>1. job # Nothing /\ job' = Nothing /\ UNCHANGED <<saved, posts, sent, acked>>
  BY DEF Fail
<1>2. TypeInv
  BY DEF IngestInv
<1>3. PICK C \in SUBSET sent, B \in SUBSET sent : Tallied(C, B) /\ Handled(C, B)
  BY DEF IngestInv, CountInv
<1>4. \A D : Handled(C, D)'
  BY <1>1 DEF Handled
<1>5. CASE UNCHANGED <<sessions, marks>>
  <2>1. TypeInv'
    BY <1>1, <1>2, <1>5 DEF TypeInv, IngestTypeOK
  <2>2. EndIsAnEvents'
    BY <1>1, <1>5 DEF IngestInv, EndIsAnEvents, RowsOf, Of
  <2>3. Tallied(C, B)'
    BY <1>1, <1>3, <1>5 DEF Tallied, CountedOf, CountedOfKind, MarkedFor
  <2> QED
    BY <1>1, <1>3, <1>4, <2>1, <2>2, <2>3 DEF IngestInv, CountInv
<1>6. CASE \E P \in SUBSET Group : /\ Rest # {} /\ job.step = "finalise"
                                   /\ sessions' = [sessions EXCEPT ![Current] = Finalised(@, P)]
                                   /\ UNCHANGED marks
  <2>1. /\ DOMAIN sessions' = DOMAIN sessions
        /\ \A s \in DOMAIN sessions :
              /\ sessions'[s] \in Row
              /\ sessions'[s].events = sessions[s].events
              /\ sessions'[s].retries = sessions[s].retries
              /\ sessions'[s].anomalies = sessions[s].anomalies
        /\ EndIsAnEvents'
    BY <1>1, <1>6, EndMoved
  <2>2. TypeInv'
    BY <1>1, <1>2, <1>6, <2>1 DEF TypeInv, IngestTypeOK
  <2>3. Tallied(C, B)'
    BY <1>1, <1>3, <1>6, <2>1, TallyKept
  <2> QED
    BY <1>1, <1>3, <1>4, <2>1, <2>2, <2>3 DEF IngestInv, CountInv
<1>7. CASE \E P \in SUBSET Group : /\ Rest # {} /\ job.step = "bookmark"
                                   /\ marks' = Marked(P)
                                   /\ UNCHANGED sessions
  <2>1. marks' \in [Event -> Nat] /\ \E D \in SUBSET sent : Tallied(C, D)'
    BY <1>1, <1>3, <1>7, MarksMoved
  <2>2. TypeInv'
    BY <1>1, <1>2, <1>7, <2>1 DEF TypeInv, IngestTypeOK
  <2>3. EndIsAnEvents'
    BY <1>1, <1>7 DEF IngestInv, EndIsAnEvents, RowsOf, Of
  <2> QED
    BY <1>1, <1>3, <1>4, <2>1, <2>2, <2>3 DEF IngestInv, CountInv
<1>8. \A n : {m \in Group : m < n} \in SUBSET Group
  OBVIOUS
<1> QED
  BY <1>5, <1>6, <1>7, <1>8 DEF Fail

LEMMA Starts ==
  ASSUME IngestInit
  PROVE  IngestInv
<1>1. TypeInv
  <2>1. DOMAIN sessions = {}
    BY DEF IngestInit
  <2>2. 0 \in 0 .. MaxPosts
    BY BoundAssumption
  <2> QED
    BY <2>1, <2>2, FS_EmptySet DEF IngestInit, TypeInv, IngestTypeOK
<1>2. EndIsAnEvents
  BY DEF IngestInit, EndIsAnEvents
<1>3. Tallied({}, {})
  <2>1. \A e : MarkedFor({}, e) = {}
    BY DEF MarkedFor
  <2>2. \A e \in Event : marks[e] = 0
    BY DEF IngestInit
  <2>3. sessions = [s \in {} |-> Nothing] /\ saved = {} /\ acked = {}
    BY DEF IngestInit
  <2> QED
    BY <2>1, <2>2, <2>3, FS_EmptySet DEF Tallied
<1>4. Handled({}, {})
  BY DEF IngestInit, Handled
<1>5. {} \in SUBSET sent
  OBVIOUS
<1> QED
  BY <1>1, <1>2, <1>3, <1>4, <1>5 DEF IngestInv, CountInv

LEMMA Stutters ==
  ASSUME IngestInv, UNCHANGED ingestVars
  PROVE  IngestInv'
<1>1. UNCHANGED <<sessions, saved, marks, job, posts, sent, acked>>
  BY DEF ingestVars
<1>2. TypeInv'
  BY <1>1 DEF IngestInv, TypeInv, IngestTypeOK
<1>3. EndIsAnEvents'
  BY <1>1 DEF IngestInv, EndIsAnEvents, RowsOf, Of
<1>4. PICK C \in SUBSET sent, B \in SUBSET sent : Tallied(C, B) /\ Handled(C, B)
  BY DEF IngestInv, CountInv
<1>5. Tallied(C, B)'
  BY <1>1, <1>4 DEF Tallied, CountedOf, CountedOfKind, MarkedFor
<1>6. Handled(C, B)'
  <2>1. \A n : EventAt(n)' = EventAt(n) /\ SwarmAt(n)' = SwarmAt(n) /\ CopyAt(n)' = CopyAt(n)
    BY <1>1 DEF EventAt, SwarmAt, CopyAt
  <2>2. Rest' = Rest /\ Current' = Current
    BY <1>1 DEF Rest, Current, EventAt
  <2>3. \A s, K : Reached(s, K)' <=> Reached(s, K)
    BY <1>1, <2>2 DEF Reached
  <2> QED
    BY <1>1, <1>4, <2>1, <2>3 DEF Handled, HandledAt
<1> QED
  BY <1>1, <1>2, <1>3, <1>4, <1>5, <1>6 DEF IngestInv, CountInv

LEMMA Always == IngestSpec => []IngestInv
<1>1. IngestInit => IngestInv
  BY Starts
<1>2. IngestInv /\ [IngestNext]_ingestVars => IngestInv'
  BY PostKept, EnsureKept, StoreKept, CountKept, FinaliseKept, BookmarkKept, AnswerKept, FailKept, Stutters
     DEF IngestNext
<1> QED
  BY <1>1, <1>2, PTL DEF IngestSpec

-----------------------------------------------------------------------------
(* What the tallies say of the posts.                                      *)

LEMMA Within ==
  ASSUME NEW T, IsFiniteSet(T), NEW S \in SUBSET T
  PROVE  /\ IsFiniteSet(S) /\ Cardinality(S) \in Nat /\ Cardinality(T) \in Nat
         /\ Cardinality(S) <= Cardinality(T)
<1>1. IsFiniteSet(S) /\ Cardinality(S) <= Cardinality(T)
  BY FS_Subset
<1> QED
  BY <1>1, FS_CardinalityType

(* Events with a copy are no more than the copies.                         *)
LEMMA Covered ==
  ASSUME NEW D, IsFiniteSet(D), NEW S, \A e \in S : \E c \in D : c.event = e
  PROVE  Cardinality(S) \in Nat /\ Cardinality(D) \in Nat /\ Cardinality(S) <= Cardinality(D)
<1> DEFINE T == {c \in D : c.event \in S}
           f == [c \in T |-> c.event]
<1>1. /\ IsFiniteSet(T) /\ Cardinality(T) \in Nat /\ Cardinality(D) \in Nat
      /\ Cardinality(T) <= Cardinality(D)
  <2>1. T \in SUBSET D
    OBVIOUS
  <2> HIDE DEF T
  <2> QED
    BY <2>1, Within
<1>2. f \in Surjection(T, S)
  <2>1. f \in [T -> S] /\ \A e \in S : \E c \in T : f[c] = e
    OBVIOUS
  <2> HIDE DEF f, T
  <2> QED
    BY <2>1 DEF Surjection
<1> HIDE DEF f, T
<1>3. IsFiniteSet(S) /\ Cardinality(S) <= Cardinality(T)
  BY <1>1, <1>2, FS_Surjection
<1>4. Cardinality(S) \in Nat
  BY <1>3, FS_CardinalityType
<1> QED
  BY <1>1, <1>3, <1>4

(* Events with one copy each are as many as the copies.                    *)
LEMMA OnePerEvent ==
  ASSUME NEW D, IsFiniteSet(D), NEW S, \A c \in D : c.event \in S,
         \A e \in S : \E c \in D : c.event = e, \A c, d \in D : c.event = d.event => c = d
  PROVE  Cardinality(S) = Cardinality(D)
<1> DEFINE f == [c \in D |-> c.event]
<1>1. /\ f \in [D -> S] /\ (\A e \in S : \E c \in D : f[c] = e)
      /\ (\A c, d \in D : f[c] = f[d] => c = d)
  OBVIOUS
<1> HIDE DEF f
<1>2. f \in Injection(D, S)
  BY <1>1 DEF Injection, IsInjective
<1>3. f \in Surjection(D, S)
  BY <1>1 DEF Surjection
<1>4. ExistsBijection(D, S)
  BY <1>2, <1>3 DEF Bijection, ExistsBijection
<1> QED
  BY <1>4, FS_Bijection

LEMMA Attempts ==
  ASSUME IngestInv
  PROVE  CountedPerAttempt
<1>1. PICK C \in SUBSET sent, B \in SUBSET sent : Tallied(C, B)
  BY DEF IngestInv, CountInv
<1>2. TypeInv /\ IsFiniteSet(sent) /\ \A c \in sent : c.event \in Event
  BY DEF IngestInv, TypeInv, IngestTypeOK, Copy
<1>3. ASSUME NEW D \in SUBSET C, NEW S \in SUBSET Event,
             \A c \in D : c.event \in S, \A c \in C : c.event \in S => c \in D
      PROVE  Cardinality(D) \in Cardinality(acked \cap S) .. Cardinality(CopiesOf(S))
  <2>1. CopiesOf(S) \in SUBSET sent /\ D \in SUBSET CopiesOf(S)
    BY <1>3 DEF CopiesOf
  <2>2. IsFiniteSet(CopiesOf(S))
    BY <1>2, <2>1, Within
  <2>3. /\ IsFiniteSet(D) /\ Cardinality(D) \in Nat /\ Cardinality(CopiesOf(S)) \in Nat
        /\ Cardinality(D) <= Cardinality(CopiesOf(S))
    BY <2>1, <2>2, Within
  <2>4. \A e \in acked \cap S : \E c \in D : c.event = e
    BY <1>1, <1>3 DEF Tallied
  <2>5. Cardinality(acked \cap S) \in Nat /\ Cardinality(acked \cap S) <= Cardinality(D)
    BY <2>3, <2>4, Covered
  <2> QED
    BY <2>3, <2>5
<1>4. ASSUME NEW s \in Swarm, s \in DOMAIN sessions
      PROVE  /\ sessions[s].events
                  \in Cardinality(acked \cap Of(Event, s)) .. Cardinality(CopiesOf(Of(Event, s)))
             /\ sessions[s].retries
                  \in Cardinality(acked \cap OfK(Event, s, "retry")) .. Cardinality(CopiesOf(OfK(Event, s, "retry")))
             /\ sessions[s].anomalies
                  \in Cardinality(acked \cap OfK(Event, s, "anomaly")) .. Cardinality(CopiesOf(OfK(Event, s, "anomaly")))
  <2>1. /\ CountedOf(C, s) \in SUBSET C /\ Of(Event, s) \in SUBSET Event
        /\ (\A c \in CountedOf(C, s) : c.event \in Of(Event, s))
        /\ (\A c \in C : c.event \in Of(Event, s) => c \in CountedOf(C, s))
    BY <1>2 DEF CountedOf, Of
  <2>2. \A kind : /\ CountedOfKind(C, s, kind) \in SUBSET C /\ OfK(Event, s, kind) \in SUBSET Event
                  /\ (\A c \in CountedOfKind(C, s, kind) : c.event \in OfK(Event, s, kind))
                  /\ (\A c \in C : c.event \in OfK(Event, s, kind) => c \in CountedOfKind(C, s, kind))
    BY <1>2 DEF CountedOf, CountedOfKind, Of, OfK
  <2>3. Cardinality(CountedOf(C, s)) \in Cardinality(acked \cap Of(Event, s)) .. Cardinality(CopiesOf(Of(Event, s)))
    BY <1>3, <2>1
  <2>4. \A kind : Cardinality(CountedOfKind(C, s, kind))
                    \in Cardinality(acked \cap OfK(Event, s, kind)) .. Cardinality(CopiesOf(OfK(Event, s, kind)))
    BY <1>3, <2>2
  <2> QED
    BY <1>1, <1>4, <2>3, <2>4 DEF Tallied
<1>5. ASSUME NEW e \in Event
      PROVE  /\ marks[e] <= Cardinality(CopiesOf({e}))
             /\ e \in acked /\ Notable(e) => marks[e] > 0
  <2>1. MarkedFor(B, e) \in SUBSET CopiesOf({e}) /\ CopiesOf({e}) \in SUBSET sent
    BY DEF MarkedFor, CopiesOf
  <2>2. IsFiniteSet(CopiesOf({e}))
    BY <1>2, <2>1, Within
  <2>3. /\ IsFiniteSet(MarkedFor(B, e)) /\ Cardinality(MarkedFor(B, e)) \in Nat
        /\ Cardinality(MarkedFor(B, e)) <= Cardinality(CopiesOf({e}))
    BY <2>1, <2>2, Within
  <2>4. marks[e] = Cardinality(MarkedFor(B, e))
    BY <1>1 DEF Tallied
  <2>5. ASSUME e \in acked, Notable(e) PROVE MarkedFor(B, e) # {}
    BY <1>1, <2>5 DEF Tallied, MarkedFor
  <2>6. MarkedFor(B, e) # {} => Cardinality(MarkedFor(B, e)) # 0
    BY <2>3, FS_EmptySet
  <2> QED
    BY <2>3, <2>4, <2>5, <2>6
<1>6. acked \subseteq saved /\ \A s \in Swarm : Of(saved, s) # {} => s \in DOMAIN sessions
  BY <1>1 DEF Tallied, Of
<1> QED
  BY <1>4, <1>5, <1>6 DEF CountedPerAttempt

LEMMA Exactly ==
  ASSUME IngestInv
  PROVE  ExactWhenPostedOnce
<1>1. PICK C \in SUBSET sent, B \in SUBSET sent : Tallied(C, B)
  BY DEF IngestInv, CountInv
<1>2. TypeInv /\ IsFiniteSet(sent) /\ (\A c \in sent : c.event \in Event) /\ saved \subseteq Event
  BY DEF IngestInv, TypeInv, IngestTypeOK, Copy
<1> SUFFICES ASSUME NEW s \in DOMAIN sessions, PostedOnce(s)
             PROVE  LET shown == MetricsSummary(s)
                    IN /\ shown.total = sessions[s].events
                       /\ shown.retries = Cardinality(OfK(saved, s, "retry"))
                       /\ shown.anomalies = Cardinality(OfK(saved, s, "anomaly"))
                       /\ \A e \in Of(saved, s) : Notable(e) => marks[e] = 1
                       /\ \A to \in {Info[e].at : e \in Event} :
                            (\A e \in Of(saved, s) : Info[e].at \in sessions[s].started .. sessions[s].started + to) =>
                              LET page == QueryTimeline(s, 0, to, 1)
                              IN page.total = sessions[s].events /\ page.has_more = (shown.total > 1)
  BY DEF ExactWhenPostedOnce
<1>3. \A c \in sent : Info[c.event].swarm = s =>
        c.event \in acked /\ \A d \in sent : d.event = c.event => d = c
  BY <1>2 DEF PostedOnce, CopiesOf, Of
<1>4. ASSUME NEW e \in Of(saved, s)
      PROVE  e \in acked /\ e \in saved /\ e \in Event /\ Info[e].swarm = s /\ \E c \in C : c.event = e
  <2>1. e \in saved /\ Info[e].swarm = s
    BY DEF Of
  <2>2. PICK c \in sent : c.event = e
    BY <1>1, <2>1 DEF Tallied
  <2>3. e \in acked
    BY <1>3, <2>1, <2>2
  <2> QED
    BY <1>1, <1>2, <2>1, <2>3 DEF Tallied
<1>5. ASSUME NEW c \in C, Info[c.event].swarm = s
      PROVE  c.event \in Of(saved, s) /\ \A d \in C : d.event = c.event => d = c
  BY <1>1, <1>3, <1>5 DEF Tallied, Of
<1>6. ASSUME NEW S \in SUBSET Of(saved, s), NEW D \in SUBSET CountedOf(C, s),
             \A c \in D : c.event \in S, \A c \in CountedOf(C, s) : c.event \in S => c \in D
      PROVE  Cardinality(S) = Cardinality(D)
  <2>1. D \in SUBSET sent
    BY DEF CountedOf
  <2>2. IsFiniteSet(D)
    BY <1>2, <2>1, Within
  <2>3. \A e \in S : \E c \in D : c.event = e
    BY <1>4, <1>6 DEF CountedOf
  <2>4. \A c, d \in D : c.event = d.event => c = d
    BY <1>5 DEF CountedOf
  <2> QED
    BY <1>6, <2>2, <2>3, <2>4, OnePerEvent
<1>7. Cardinality(Of(saved, s)) = sessions[s].events
  <2>1. \A c \in CountedOf(C, s) : c.event \in Of(saved, s)
    BY <1>5 DEF CountedOf
  <2>2. Cardinality(Of(saved, s)) = Cardinality(CountedOf(C, s))
    BY <1>6, <2>1
  <2> QED
    BY <1>1, <2>2 DEF Tallied
<1>8. ASSUME NEW kind \in Kinds
      PROVE  Cardinality(OfK(saved, s, kind)) = Cardinality(CountedOfKind(C, s, kind))
  <2>1. OfK(saved, s, kind) \in SUBSET Of(saved, s) /\ CountedOfKind(C, s, kind) \in SUBSET CountedOf(C, s)
    BY DEF OfK, CountedOfKind
  <2>2. \A c \in CountedOfKind(C, s, kind) : c.event \in OfK(saved, s, kind)
    BY <1>5 DEF CountedOf, CountedOfKind, OfK
  <2>3. \A c \in CountedOf(C, s) : c.event \in OfK(saved, s, kind) => c \in CountedOfKind(C, s, kind)
    BY DEF CountedOfKind, OfK
  <2> QED
    BY <1>6, <2>1, <2>2, <2>3
<1>9. /\ sessions[s].retries = Cardinality(OfK(saved, s, "retry"))
      /\ sessions[s].anomalies = Cardinality(OfK(saved, s, "anomaly"))
  BY <1>1, <1>8 DEF Kinds, Tallied
<1>10. ASSUME NEW e \in Of(saved, s), Notable(e) PROVE marks[e] = 1
  <2>1. PICK b \in B : b.event = e
    BY <1>1, <1>4, <1>10 DEF Tallied
  <2>2. MarkedFor(B, e) = {b}
    BY <1>3, <1>4, <2>1 DEF MarkedFor
  <2>3. Cardinality({b}) = 1
    BY FS_Singleton
  <2> QED
    BY <1>1, <1>4, <2>2, <2>3 DEF Tallied
<1>11. RowsOf(s) = Of(saved, s)
  BY DEF RowsOf, Of
<1>12. /\ MetricsSummary(s).total = Cardinality(Of(saved, s))
       /\ MetricsSummary(s).retries = sessions[s].retries
       /\ MetricsSummary(s).anomalies = sessions[s].anomalies
  BY <1>11 DEF MetricsSummary
<1>13. ASSUME NEW to \in {Info[e].at : e \in Event},
              \A e \in Of(saved, s) : Info[e].at \in sessions[s].started .. sessions[s].started + to
       PROVE  LET page == QueryTimeline(s, 0, to, 1)
              IN page.total = sessions[s].events /\ page.has_more = (MetricsSummary(s).total > 1)
  <2>1. sessions[s].started \in Nat
    BY <1>2, Rows
  <2>2. sessions[s].started + 0 = sessions[s].started
    BY <2>1
  <2>3. {e \in RowsOf(s) : Info[e].at \in sessions[s].started + 0 .. sessions[s].started + to} = Of(saved, s)
    BY <1>11, <1>13, <2>2
  <2> DEFINE size == Cardinality(Of(saved, s))
             more == size > 1
  <2>4. QueryTimeline(s, 0, to, 1) = [total |-> size, has_more |-> more]
    BY <2>3, Zenon DEF QueryTimeline
  <2>5. QueryTimeline(s, 0, to, 1).total = size /\ QueryTimeline(s, 0, to, 1).has_more = more
    <3> HIDE DEF size, more
    <3> QED
      BY <2>4
  <2> QED
    BY <1>7, <1>12, <2>5, Zenon
<1> QED
  BY <1>7, <1>9, <1>10, <1>12, <1>13

(* Types: rows, counters and histories are what they should be.            *)
THEOREM IngestTypeCorrect == IngestSpec => []IngestTypeOK
<1>1. IngestInv => IngestTypeOK
  BY DEF IngestInv, TypeInv
<1> QED
  BY <1>1, Always, PTL

(* What is counted, bookmarked and shown of a swarm agrees with the posts:  *)
(* at least once for what was acknowledged, no more often than posted, and  *)
(* exactly when each event was posted once, for any batches and failures    *)
(* between or within the statements of the handler (ingest.ts).             *)
THEOREM CountersAlwaysTrue == IngestSpec => []CountersTrue
<1>1. IngestInv => CountersTrue
  BY Attempts, Exactly DEF CountersTrue
<1> QED
  BY <1>1, Always, PTL

(* The end shown of a swarm is that of one stored event, and it is shown    *)
(* once such an event was acknowledged (finalizeSwarmSession).              *)
THEOREM EndAlwaysAnEvents == IngestSpec => []EndIsAnEvents
<1>1. IngestInv => EndIsAnEvents
  BY DEF IngestInv
<1> QED
  BY <1>1, Always, PTL

=============================================================================
