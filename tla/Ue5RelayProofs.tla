--------------------------- MODULE Ue5RelayProofs ---------------------------
(***************************************************************************)
(* Proofs about Ue5Relay, for any set of sockets, capacity, TTL and retry  *)
(* interval and in both modes: types and capacity, one open socket, what   *)
(* waits and for how long, order, what became of every message, and the    *)
(* finality of stop().                                                     *)
(***************************************************************************)
EXTENDS Ue5Relay, FunctionTheorems, FiniteSetTheorems, TLAPS

Live == {"connecting", "open"}

(* Before start() and after stop() nothing is dialled, open or armed.      *)
LifeInv ==
  /\ ~started => /\ ~destroyed /\ socket = None /\ reconnect = None
                 /\ \A c \in Conn : state[c] = "new"
  /\ destroyed => /\ reconnect = None /\ purge = None
                  /\ \A c \in Conn : state[c] \notin Live

(* Only client mode redials, and only when its last socket has closed.     *)
DialInv ==
  /\ serverMode => reconnect = None /\ \A c \in Conn : state[c] # "connecting"
  /\ ~serverMode =>
       /\ reconnect # None => Unused = Conn
       /\ \A c, d \in Conn : c \notin Unused /\ d \notin Unused => c = d

(* A buffered message can still wait as long as the purge timer runs.      *)
AgeInv == purge # None => \A k \in DOMAIN buffer : buffer[k].age + purge <= Ttl

(* What is written and what waits are sent messages, each in order, and    *)
(* everything written was sent before what waits.                          *)
Sorted(s) == \A j, k \in DOMAIN s : j < k => s[j].id < s[k].id
UpTo(s, n) == \A k \in DOMAIN s : s[k].id <= n
OrderInv ==
  /\ Sorted(written) /\ UpTo(written, sent)
  /\ Sorted(buffer) /\ UpTo(buffer, sent)
  /\ \A j \in DOMAIN written, k \in DOMAIN buffer : written[j].id < buffer[k].id

IInv == /\ TypeOK /\ OneInstance /\ LifeInv /\ DialInv
        /\ WaitsOnlyWhileDown /\ AgeInv /\ NothingStale /\ OrderInv

-----------------------------------------------------------------------------
(* Sequences of messages.                                                  *)

(* Two ordered sequences, the first of them entirely before the second,    *)
(* make an ordered sequence of messages.                                   *)
LEMMA ConcatFacts ==
  ASSUME NEW s \in Seq(Msg), NEW t \in Seq(Msg), NEW n \in Nat,
         Sorted(s), Sorted(t), UpTo(s, n), UpTo(t, n),
         \A j \in DOMAIN s, k \in DOMAIN t : s[j].id < t[k].id
  PROVE  /\ s \o t \in Seq(Msg)
         /\ Sorted(s \o t)
         /\ UpTo(s \o t, n)
<1>1. /\ s \o t \in Seq(Msg)
      /\ Len(s) \in Nat /\ Len(t) \in Nat
      /\ DOMAIN (s \o t) = 1..(Len(s) + Len(t))
      /\ DOMAIN s = 1..Len(s) /\ DOMAIN t = 1..Len(t)
  OBVIOUS
<1>2. \A k \in DOMAIN (s \o t) :
         \/ k \in DOMAIN s /\ (s \o t)[k] = s[k]
         \/ k - Len(s) \in DOMAIN t /\ (s \o t)[k] = t[k - Len(s)] /\ k > Len(s)
  BY <1>1
<1>3. Sorted(s \o t)
  <2> SUFFICES ASSUME NEW j \in DOMAIN (s \o t), NEW k \in DOMAIN (s \o t), j < k
               PROVE  (s \o t)[j].id < (s \o t)[k].id
    BY DEF Sorted
  <2>1. CASE k \in DOMAIN s /\ (s \o t)[k] = s[k]
    <3>1. j \in DOMAIN s /\ (s \o t)[j] = s[j]
      BY <1>1, <1>2, <2>1
    <3> QED BY <2>1, <3>1 DEF Sorted
  <2>2. CASE /\ k - Len(s) \in DOMAIN t /\ k > Len(s)
             /\ (s \o t)[k] = t[k - Len(s)]
    <3>1. CASE j \in DOMAIN s /\ (s \o t)[j] = s[j]
      BY <2>2, <3>1
    <3>2. CASE /\ j - Len(s) \in DOMAIN t /\ j > Len(s)
               /\ (s \o t)[j] = t[j - Len(s)]
      <4>1. j - Len(s) < k - Len(s)
        BY <1>1
      <4> QED BY <2>2, <3>2, <4>1 DEF Sorted
    <3> QED BY <1>2, <3>1, <3>2
  <2> QED BY <1>2, <2>1, <2>2
<1>4. UpTo(s \o t, n)
  BY <1>1, <1>2 DEF UpTo
<1> QED BY <1>1, <1>3, <1>4

(* A message sent after all of a sequence keeps it in order at its end.    *)
LEMMA AppendFacts ==
  ASSUME NEW s \in Seq(Msg), NEW n \in Nat, Sorted(s), UpTo(s, n), NEW m \in Msg,
         m.id = n + 1
  PROVE  /\ Append(s, m) \in Seq(Msg)
         /\ Sorted(Append(s, m)) /\ UpTo(Append(s, m), n + 1)
<1>1. /\ Append(s, m) \in Seq(Msg)
      /\ Len(s) \in Nat /\ DOMAIN s = 1..Len(s)
      /\ DOMAIN Append(s, m) = 1..(Len(s) + 1)
      /\ \A k \in DOMAIN s : Append(s, m)[k] = s[k]
      /\ Append(s, m)[Len(s) + 1] = m
  OBVIOUS
<1>2. \A k \in DOMAIN s : s[k].id \in Nat
  <2>1. \A k \in DOMAIN s : s[k] \in Msg
    OBVIOUS
  <2> QED BY <2>1 DEF Msg
<1>3. \A k \in DOMAIN Append(s, m) : k \in DOMAIN s \/ k = Len(s) + 1
  BY <1>1
<1>4. UpTo(Append(s, m), n + 1)
  BY <1>1, <1>2, <1>3 DEF UpTo
<1>5. Sorted(Append(s, m))
  <2> SUFFICES ASSUME NEW j \in DOMAIN Append(s, m), NEW k \in DOMAIN Append(s, m),
                      j < k
               PROVE  Append(s, m)[j].id < Append(s, m)[k].id
    BY DEF Sorted
  <2>1. j \in DOMAIN s
    BY <1>1, <1>3
  <2>2. CASE k \in DOMAIN s
    BY <1>1, <2>1, <2>2 DEF Sorted
  <2>3. CASE k = Len(s) + 1
    BY <1>1, <1>2, <2>1, <2>3 DEF UpTo
  <2> QED BY <1>3, <2>2, <2>3
<1> QED BY <1>1, <1>4, <1>5

(* Dropping the oldest message keeps a sequence in order.                  *)
LEMMA TailFacts ==
  ASSUME NEW s \in Seq(Msg), s # <<>>
  PROVE  /\ Tail(s) \in Seq(Msg) /\ Len(Tail(s)) = Len(s) - 1
         /\ \A k \in DOMAIN Tail(s) : k + 1 \in DOMAIN s /\ Tail(s)[k] = s[k + 1]
         /\ Sorted(s) => Sorted(Tail(s))
         /\ \A n \in Nat : UpTo(s, n) => UpTo(Tail(s), n)
<1>1. /\ Tail(s) \in Seq(Msg) /\ Len(Tail(s)) = Len(s) - 1
      /\ \A k \in DOMAIN Tail(s) : k + 1 \in DOMAIN s /\ Tail(s)[k] = s[k + 1]
      /\ \A k \in DOMAIN Tail(s) : k \in Nat
  OBVIOUS
<1>2. Sorted(s) => Sorted(Tail(s))
  BY <1>1 DEF Sorted
<1>3. \A n \in Nat : UpTo(s, n) => UpTo(Tail(s), n)
  BY <1>1 DEF UpTo
<1> QED BY <1>1, <1>2, <1>3

-----------------------------------------------------------------------------
(* The steps that move messages.                                           *)

(* The bounds of the timers and of the buffer are natural numbers.         *)
LEMMA Bounds == /\ MaxBuffer \in Nat /\ MaxBuffer >= 1 /\ Ttl \in Nat /\ Ttl >= 1
                /\ Retry \in Nat /\ Retry >= 1 /\ None \notin Conn /\ None \notin Nat
BY BoundsAssumption, NoneAssumption

(* A flush keeps the messages typed, in order and, the buffer being young  *)
(* enough, within the TTL.                                                 *)
LEMMA FlushStep ==
  ASSUME IInv, FlushBuffer, buffer # <<>> => purge # None, sent' = sent
  PROVE  /\ written' \in Seq(Msg) /\ buffer' = <<>> /\ purge' = None
         /\ NothingStale' /\ OrderInv' /\ AgeInv'
<1> USE DEF IInv
<1>1. /\ written \in Seq(Msg) /\ buffer \in Seq(Msg) /\ sent \in Nat
      /\ written' = written \o buffer /\ buffer' = <<>> /\ purge' = None
  BY DEF TypeOK, FlushBuffer
<1>2. written' \in Seq(Msg) /\ Sorted(written') /\ UpTo(written', sent)
  BY <1>1, ConcatFacts DEF OrderInv
<1>3. NothingStale'
  <2>1. \A k \in DOMAIN buffer : buffer[k].age <= Ttl
    <3> TAKE k \in DOMAIN buffer
    <3>1. purge # None
      BY <1>1
    <3>2. purge \in Nat
      BY <3>1 DEF TypeOK, Timer
    <3>3. buffer[k] \in Msg
      BY <1>1
    <3>4. buffer[k].age \in Nat
      BY <3>3 DEF Msg
    <3>5. buffer[k].age + purge <= Ttl
      BY <3>1 DEF AgeInv
    <3> QED BY <3>2, <3>4, <3>5, Bounds
  <2>2. \A k \in DOMAIN written' : \/ k \in DOMAIN written /\ written'[k] = written[k]
                                   \/ \E i \in DOMAIN buffer : written'[k] = buffer[i]
    BY <1>1
  <2> QED BY <2>1, <2>2 DEF NothingStale
<1>4. OrderInv'
  BY <1>1, <1>2 DEF OrderInv, Sorted, UpTo
<1> QED BY <1>1, <1>2, <1>3, <1>4 DEF AgeInv

(* The buffer takes a message at its end, dropping the oldest one only     *)
(* when it is full; the purge timer that runs afterwards covers it.        *)
LEMMA EnqueueStep ==
  ASSUME IInv, Enqueue, sent' = sent + 1, written' = written,
         purge' = IF purge = None THEN Ttl ELSE purge, buffer # <<>> => purge # None
  PROVE  /\ buffer' \in Seq(Msg) /\ Len(buffer') <= MaxBuffer
         /\ lost' \subseteq [msg : Msg, why : {"full", "ttl"}]
         /\ purge' \in Timer(Ttl) /\ purge' # None
         /\ AgeInv' /\ OrderInv'
<1> USE DEF IInv
<1> DEFINE kept == IF Len(buffer) >= MaxBuffer THEN Tail(buffer) ELSE buffer
           new == [id |-> sent + 1, age |-> 0]
<1>1. /\ buffer \in Seq(Msg) /\ Len(buffer) \in Nat /\ Len(buffer) <= MaxBuffer
      /\ written \in Seq(Msg) /\ sent \in Nat /\ new \in Msg
  BY DEF TypeOK, Msg
<1>2. buffer' = Append(kept, new)
  BY DEF Enqueue
<1>3. Len(buffer) >= MaxBuffer => buffer # <<>>
  BY <1>1, Bounds
<1>4. /\ kept \in Seq(Msg) /\ Len(kept) < MaxBuffer
      /\ \A k \in DOMAIN kept : \E i \in DOMAIN buffer : kept[k] = buffer[i]
      /\ Sorted(kept) /\ UpTo(kept, sent)
  <2>1. CASE Len(buffer) >= MaxBuffer
    <3>1. kept = Tail(buffer) /\ buffer # <<>>
      BY <1>3, <2>1
    <3>2. /\ Tail(buffer) \in Seq(Msg) /\ Len(Tail(buffer)) = Len(buffer) - 1
          /\ \A k \in DOMAIN Tail(buffer) :
               k + 1 \in DOMAIN buffer /\ Tail(buffer)[k] = buffer[k + 1]
          /\ Sorted(buffer) => Sorted(Tail(buffer))
          /\ \A n \in Nat : UpTo(buffer, n) => UpTo(Tail(buffer), n)
      BY <1>1, <3>1, TailFacts
    <3> HIDE DEF kept
    <3>3. Sorted(kept) /\ UpTo(kept, sent)
      BY <1>1, <3>1, <3>2 DEF OrderInv
    <3>4. \A k \in DOMAIN kept : \E i \in DOMAIN buffer : kept[k] = buffer[i]
      BY <3>1, <3>2
    <3>5. kept \in Seq(Msg) /\ Len(kept) < MaxBuffer
      BY <1>1, <3>1, <3>2, Bounds
    <3> QED BY <3>3, <3>4, <3>5
  <2>2. CASE ~(Len(buffer) >= MaxBuffer)
    BY <1>1, <2>2, Bounds DEF OrderInv
  <2> QED BY <2>1, <2>2
<1> HIDE DEF kept
<1>5. /\ buffer' \in Seq(Msg) /\ Len(buffer') = Len(kept) + 1
      /\ DOMAIN buffer' = 1..(Len(kept) + 1) /\ DOMAIN kept = 1..Len(kept)
      /\ \A k \in DOMAIN kept : buffer'[k] = kept[k]
      /\ buffer'[Len(kept) + 1] = new
  BY <1>1, <1>2, <1>4
<1>6. Len(buffer') <= MaxBuffer
  BY <1>4, <1>5, Bounds
<1>7. lost' \subseteq [msg : Msg, why : {"full", "ttl"}]
  <2>1. CASE Len(buffer) >= MaxBuffer
    <3>1. buffer[1] \in Msg
      BY <1>1, <1>3, <2>1
    <3>2. [msg |-> buffer[1], why |-> "full"] \in [msg : Msg, why : {"full", "ttl"}]
      BY <3>1
    <3> QED BY <2>1, <3>2 DEF Enqueue, TypeOK
  <2>2. CASE ~(Len(buffer) >= MaxBuffer)
    BY <2>2 DEF Enqueue, TypeOK
  <2> QED BY <2>1, <2>2
<1>8. purge' \in Timer(Ttl) /\ purge' # None
  BY Bounds DEF TypeOK, Timer
<1>9. AgeInv'
  <2> SUFFICES ASSUME NEW k \in DOMAIN buffer'
               PROVE  buffer'[k].age + purge' <= Ttl
    BY DEF AgeInv
  <2>1. purge' \in Nat /\ purge' <= Ttl
    BY <1>8, Bounds DEF Timer
  <2>2. CASE k = Len(kept) + 1
    BY <1>5, <2>1, <2>2, Bounds
  <2>3. CASE k \in DOMAIN kept
    <3>1. PICK i \in DOMAIN buffer : kept[k] = buffer[i]
      BY <1>4, <2>3
    <3>2. purge # None /\ purge' = purge
      BY <1>1, <3>1
    <3> QED BY <1>5, <2>3, <3>1, <3>2 DEF AgeInv
  <2> QED BY <1>5, <2>2, <2>3
<1>10. OrderInv'
  <2>1. Sorted(buffer') /\ UpTo(buffer', sent')
    BY <1>1, <1>2, <1>4, AppendFacts
  <2>2. UpTo(written', sent')
    <3>1. \A k \in DOMAIN written : written[k].id \in Nat
      <4>1. \A k \in DOMAIN written : written[k] \in Msg
        BY <1>1
      <4> QED BY <4>1 DEF Msg
    <3> QED BY <1>1, <3>1 DEF OrderInv, UpTo
  <2>3. Sorted(written')
    BY DEF OrderInv, Sorted
  <2>4. \A j \in DOMAIN written', k \in DOMAIN buffer' : written'[j].id < buffer'[k].id
    <3> TAKE j \in DOMAIN written', k \in DOMAIN buffer'
    <3>1. written[j].id \in Nat /\ written[j].id <= sent
      <4>1. written[j] \in Msg
        BY <1>1
      <4> QED BY <4>1 DEF Msg, OrderInv, UpTo
    <3>2. CASE k = Len(kept) + 1
      BY <1>1, <1>5, <3>1, <3>2
    <3>3. CASE k \in DOMAIN kept
      <4>1. PICK i \in DOMAIN buffer : kept[k] = buffer[i]
        BY <1>4, <3>3
      <4> QED BY <1>5, <3>3, <4>1 DEF OrderInv
    <3> QED BY <1>5, <3>2, <3>3
  <2> QED BY <2>1, <2>2, <2>3, <2>4 DEF OrderInv
<1> QED BY <1>5, <1>6, <1>7, <1>8, <1>9, <1>10

-----------------------------------------------------------------------------
(* The invariant.                                                          *)

LEMMA InitInv == Init => IInv
<1> SUFFICES ASSUME Init
             PROVE  IInv
  OBVIOUS
<1> USE DEF Init
<1>1. TypeOK
  <2>1. buffer \in Seq(Msg) /\ Len(buffer) <= MaxBuffer /\ written \in Seq(Msg)
    BY Bounds
  <2>2. purge \in Timer(Ttl) /\ reconnect \in Timer(Retry) /\ sent \in Nat
    BY DEF Timer
  <2>3. /\ state \in [Conn -> {"new", "connecting", "open", "closing", "closed"}]
        /\ socket \in Conn \cup {None}
        /\ started \in BOOLEAN /\ destroyed \in BOOLEAN
        /\ lost \subseteq [msg : Msg, why : {"full", "ttl"}]
    OBVIOUS
  <2> QED BY <2>1, <2>2, <2>3 DEF TypeOK
<1>2. OneInstance /\ LifeInv /\ DialInv
  BY DEF OneInstance, LifeInv, DialInv, Unused, Live
<1>3. WaitsOnlyWhileDown /\ AgeInv /\ NothingStale /\ OrderInv
  BY DEF WaitsOnlyWhileDown, AgeInv, NothingStale, OrderInv, Sorted, UpTo
<1> QED BY <1>1, <1>2, <1>3 DEF IInv

(* The steps of the sockets that leave the messages alone.                 *)
LEMMA MessagesKept ==
  ASSUME IInv, UNCHANGED <<buffer, purge, sent, written, lost>>
  PROVE  /\ buffer' \in Seq(Msg) /\ Len(buffer') <= MaxBuffer /\ purge' \in Timer(Ttl)
         /\ sent' \in Nat /\ written' \in Seq(Msg)
         /\ lost' \subseteq [msg : Msg, why : {"full", "ttl"}]
         /\ AgeInv' /\ NothingStale' /\ OrderInv'
BY DEF IInv, TypeOK, AgeInv, NothingStale, OrderInv, Sorted, UpTo

(* Dialling a new socket when no other is in use.                          *)
LEMMA DialStep ==
  ASSUME IInv, NEW c \in Conn, Dial(c), Unused = Conn, ~serverMode, ~destroyed,
         UNCHANGED <<serverMode, destroyed, buffer, purge, sent, written, lost>>,
         started', reconnect' = None
  PROVE  IInv'
<1> USE DEF IInv
<1>1. /\ state' = [state EXCEPT ![c] = "connecting"] /\ socket' = c
      /\ state \in [Conn -> {"new", "connecting", "open", "closing", "closed"}]
      /\ \A d \in Conn : state[d] \in {"new", "closed"}
  BY DEF Dial, Unused, TypeOK
<1>2. TypeOK'
  BY <1>1, MessagesKept, Bounds DEF TypeOK, Timer
<1>3. OneInstance' /\ LifeInv' /\ DialInv'
  BY <1>1 DEF OneInstance, LifeInv, DialInv, Unused
<1>4. WaitsOnlyWhileDown'
  <2>1. ~IsOpen'
    BY <1>1 DEF IsOpen
  <2> QED BY <2>1 DEF WaitsOnlyWhileDown
<1> QED BY <1>2, <1>3, <1>4, MessagesKept

LEMMA StartStep == IInv /\ Start => IInv'
<1> SUFFICES ASSUME IInv, Start
             PROVE  IInv'
  OBVIOUS
<1> USE DEF IInv
<1>1. Unused = Conn /\ ~destroyed /\ reconnect = None /\ socket = None
  BY DEF Start, LifeInv, Unused
<1>2. CASE serverMode
  <2>1. UNCHANGED <<socket, state>> /\ started'
    BY <1>2 DEF Start
  <2>2. TypeOK'
    BY <2>1, MessagesKept DEF TypeOK, Start
  <2>3. OneInstance' /\ LifeInv' /\ DialInv' /\ WaitsOnlyWhileDown'
    BY <1>1, <2>1 DEF OneInstance, LifeInv, DialInv, WaitsOnlyWhileDown, IsOpen,
                      Unused, Start
  <2> QED BY <2>2, <2>3, MessagesKept DEF Start
<1>3. CASE ~serverMode
  <2>1. PICK c \in Conn : Dial(c)
    BY <1>3 DEF Start
  <2> QED BY <1>1, <1>3, <2>1, DialStep DEF Start
<1> QED BY <1>2, <1>3

LEMMA RedialStep == IInv /\ Redial => IInv'
<1> SUFFICES ASSUME IInv, Redial
             PROVE  IInv'
  OBVIOUS
<1>1. reconnect # None
  BY Bounds DEF Redial
<1>2. started /\ ~destroyed /\ ~serverMode /\ Unused = Conn
  BY <1>1 DEF IInv, LifeInv, DialInv
<1>3. PICK c \in Conn : Dial(c)
  BY DEF Redial
<1> QED BY <1>2, <1>3, DialStep DEF Redial

(* What terminate() leaves live: nothing, if only the current socket was.  *)
LEMMA TerminatedFacts ==
  ASSUME IInv
  PROVE  /\ Terminated(socket) \in
              [Conn -> {"new", "connecting", "open", "closing", "closed"}]
         /\ \A d \in Conn : /\ Terminated(socket)[d] \notin Live
                            /\ Terminated(socket)[d] \in {"new", "closed"}
                                 <=> state[d] \in {"new", "closed"}
<1>1. /\ state \in [Conn -> {"new", "connecting", "open", "closing", "closed"}]
      /\ socket \in Conn \cup {None}
      /\ \A d \in Conn : state[d] \in Live => socket = d
  BY DEF IInv, TypeOK, OneInstance, Live
<1>2. CASE socket # None /\ state[socket] \in Live
  <2>1. socket \in Conn /\ Terminated(socket) = [state EXCEPT ![socket] = "closing"]
    BY <1>1, <1>2 DEF Terminated, Live
  <2> QED BY <1>1, <1>2, <2>1 DEF Live
<1>3. CASE ~(socket # None /\ state[socket] \in Live)
  <2>1. Terminated(socket) = state
    BY <1>3 DEF Terminated, Live
  <2>2. \A d \in Conn : state[d] \notin Live
    BY <1>1, <1>3, Bounds
  <2> QED BY <1>1, <2>1, <2>2
<1> QED BY <1>2, <1>3

LEMMA ConnectionStep == \A c \in Conn : IInv /\ Connection(c) => IInv'
<1> SUFFICES ASSUME NEW c \in Conn, IInv, Connection(c)
             PROVE  IInv'
  OBVIOUS
<1>1. /\ serverMode /\ started /\ ~destroyed /\ FlushBuffer
      /\ state' = [Terminated(socket) EXCEPT ![c] = "open"] /\ socket' = c
      /\ UNCHANGED <<serverMode, started, destroyed, reconnect, sent, lost>>
  BY DEF Connection
<1>2. buffer # <<>> => purge # None
  BY <1>1 DEF IInv, WaitsOnlyWhileDown
<1>3. /\ written' \in Seq(Msg) /\ buffer' = <<>> /\ purge' = None
      /\ NothingStale' /\ OrderInv' /\ AgeInv'
  BY <1>1, <1>2, FlushStep
<1>4. state' \in [Conn -> {"new", "connecting", "open", "closing", "closed"}]
  BY <1>1, TerminatedFacts
<1>5. TypeOK'
  BY <1>1, <1>3, <1>4, Bounds DEF IInv, TypeOK, Timer
<1>6. OneInstance' /\ LifeInv' /\ DialInv'
  BY <1>1, TerminatedFacts DEF IInv, OneInstance, LifeInv, DialInv, Live
<1> QED BY <1>3, <1>5, <1>6 DEF IInv, WaitsOnlyWhileDown

LEMMA OpenStep == \A c \in Conn : IInv /\ Open(c) => IInv'
<1> SUFFICES ASSUME NEW c \in Conn, IInv, Open(c)
             PROVE  IInv'
  OBVIOUS
<1>1. /\ ~serverMode /\ FlushBuffer /\ state[c] = "connecting"
      /\ state' = [state EXCEPT ![c] = "open"]
      /\ UNCHANGED <<serverMode, started, destroyed, socket, reconnect, sent, lost>>
  BY DEF Open
<1>2. started /\ ~destroyed
  BY <1>1 DEF IInv, LifeInv, Live
<1>3. buffer # <<>> => purge # None
  BY <1>2 DEF IInv, WaitsOnlyWhileDown
<1>4. /\ written' \in Seq(Msg) /\ buffer' = <<>> /\ purge' = None
      /\ NothingStale' /\ OrderInv' /\ AgeInv'
  BY <1>1, <1>3, FlushStep
<1>5. TypeOK'
  BY <1>1, <1>4, Bounds DEF IInv, TypeOK, Timer
<1>6. OneInstance' /\ LifeInv' /\ DialInv'
  BY <1>1, <1>2 DEF IInv, TypeOK, OneInstance, LifeInv, DialInv, Unused
<1> QED BY <1>4, <1>5, <1>6 DEF IInv, WaitsOnlyWhileDown

LEMMA BreakStep == \A c \in Conn : IInv /\ Break(c) => IInv'
<1> SUFFICES ASSUME NEW c \in Conn, IInv, Break(c)
             PROVE  IInv'
  OBVIOUS
<1> USE DEF IInv
<1>1. /\ state[c] \in Live /\ state' = [state EXCEPT ![c] = "closing"]
      /\ UNCHANGED <<serverMode, started, destroyed, socket, buffer, purge, reconnect,
                     sent, written, lost>>
  BY DEF Break, Live
<1>2. TypeOK'
  BY <1>1, MessagesKept DEF TypeOK
<1>3. OneInstance' /\ LifeInv' /\ DialInv'
  BY <1>1 DEF TypeOK, OneInstance, LifeInv, DialInv, Unused, Live
<1>4. WaitsOnlyWhileDown'
  BY <1>1 DEF WaitsOnlyWhileDown, IsOpen, TypeOK
<1> QED BY <1>1, <1>2, <1>3, <1>4, MessagesKept

LEMMA OnCloseStep == \A c \in Conn : IInv /\ OnClose(c) => IInv'
<1> SUFFICES ASSUME NEW c \in Conn, IInv, OnClose(c)
             PROVE  IInv'
  OBVIOUS
<1> USE DEF IInv
<1>1. /\ state[c] = "closing" /\ state' = [state EXCEPT ![c] = "closed"]
      /\ socket' = IF socket = c THEN None ELSE socket
      /\ reconnect' = IF serverMode \/ destroyed \/ reconnect # None THEN reconnect
                                                                    ELSE Retry
      /\ UNCHANGED <<serverMode, started, destroyed, buffer, purge, sent, written, lost>>
  BY DEF OnClose
<1>2. TypeOK'
  <2>1. reconnect' \in Timer(Retry)
    BY <1>1, Bounds DEF TypeOK, Timer
  <2> QED BY <1>1, <2>1, MessagesKept DEF TypeOK
<1>3. OneInstance'
  BY <1>1 DEF TypeOK, OneInstance
<1>4. LifeInv'
  BY <1>1 DEF TypeOK, LifeInv, Live
<1>5. DialInv'
  <2>1. CASE serverMode
    BY <1>1, <2>1 DEF TypeOK, DialInv
  <2>2. CASE ~serverMode
    <3>1. c \notin Unused
      BY <1>1 DEF Unused
    <3>2. \A d \in Conn : d # c => d \in Unused
      BY <2>2, <3>1 DEF DialInv
    <3>3. Unused' = Conn
      BY <1>1, <3>2 DEF TypeOK, Unused
    <3> QED BY <1>1, <2>2, <3>3 DEF DialInv
  <2> QED BY <2>1, <2>2
<1>6. WaitsOnlyWhileDown'
  BY <1>1, Bounds DEF TypeOK, WaitsOnlyWhileDown, IsOpen
<1> QED BY <1>1, <1>2, <1>3, <1>4, <1>5, <1>6, MessagesKept

LEMMA SendStep == IInv /\ Send => IInv'
<1> SUFFICES ASSUME IInv, Send
             PROVE  IInv'
  OBVIOUS
<1>1. /\ started /\ ~destroyed /\ sent' = sent + 1
      /\ UNCHANGED <<serverMode, started, destroyed, socket, state, reconnect>>
  BY DEF Send
<1>2. OneInstance' /\ LifeInv' /\ DialInv'
  BY <1>1 DEF IInv, OneInstance, LifeInv, DialInv, Unused
<1>3. CASE SendNow
  <2> DEFINE m == [id |-> sent + 1, age |-> 0]
  <2>1. /\ IsOpen /\ written' = Append(written, m)
        /\ UNCHANGED <<buffer, purge, lost>>
    BY <1>3 DEF SendNow
  <2>2. buffer = <<>> /\ sent \in Nat /\ written \in Seq(Msg) /\ m \in Msg
    BY <2>1 DEF IInv, WaitsOnlyWhileDown, TypeOK, Msg
  <2>3. /\ written' \in Seq(Msg)
        /\ Sorted(written') /\ UpTo(written', sent')
    BY <1>1, <2>1, <2>2, AppendFacts DEF IInv, OrderInv
  <2>4. TypeOK'
    BY <1>1, <2>1, <2>2, <2>3 DEF IInv, TypeOK
  <2>5. NothingStale'
    <3>1. \A k \in DOMAIN written' : \/ k \in DOMAIN written /\ written'[k] = written[k]
                                     \/ written'[k] = m
      BY <2>1, <2>2
    <3>2. m.age <= Ttl
      BY Bounds
    <3> QED BY <3>1, <3>2 DEF IInv, NothingStale
  <2>6. OrderInv' /\ AgeInv' /\ WaitsOnlyWhileDown'
    BY <2>1, <2>2, <2>3 DEF OrderInv, AgeInv, WaitsOnlyWhileDown, Sorted, UpTo
  <2> QED BY <1>2, <2>4, <2>5, <2>6 DEF IInv
<1>4. CASE SendLater
  <2>1. /\ ~IsOpen /\ Enqueue /\ written' = written
        /\ purge' = IF purge = None THEN Ttl ELSE purge
    BY <1>4 DEF SendLater
  <2>2. buffer # <<>> => purge # None
    BY <1>1 DEF IInv, WaitsOnlyWhileDown
  <2>3. /\ buffer' \in Seq(Msg) /\ Len(buffer') <= MaxBuffer
        /\ lost' \subseteq [msg : Msg, why : {"full", "ttl"}]
        /\ purge' \in Timer(Ttl) /\ purge' # None
        /\ AgeInv' /\ OrderInv'
    BY <1>1, <2>1, <2>2, EnqueueStep
  <2>4. TypeOK'
    BY <1>1, <2>1, <2>3 DEF IInv, TypeOK
  <2>5. NothingStale' /\ WaitsOnlyWhileDown'
    BY <1>1, <2>1, <2>3 DEF IInv, NothingStale, WaitsOnlyWhileDown, IsOpen
  <2> QED BY <1>2, <2>3, <2>4, <2>5 DEF IInv
<1> QED BY <1>3, <1>4 DEF Send

LEMMA PurgeStep == IInv /\ Purge => IInv'
<1> SUFFICES ASSUME IInv, Purge
             PROVE  IInv'
  OBVIOUS
<1>1. /\ purge' = None /\ buffer' = <<>>
      /\ lost' = lost \cup {[msg |-> buffer[k], why |-> "ttl"] : k \in DOMAIN buffer}
      /\ UNCHANGED <<serverMode, started, destroyed, socket, state, reconnect, sent, written>>
  BY DEF Purge
<1>2. lost' \subseteq [msg : Msg, why : {"full", "ttl"}]
  <2>1. \A k \in DOMAIN buffer : buffer[k] \in Msg
    BY DEF IInv, TypeOK
  <2> QED BY <1>1, <2>1 DEF IInv, TypeOK
<1>3. TypeOK'
  <2>1. buffer' \in Seq(Msg) /\ Len(buffer') <= MaxBuffer
    BY <1>1, Bounds
  <2> QED BY <1>1, <1>2, <2>1 DEF IInv, TypeOK, Timer
<1>4. OneInstance' /\ LifeInv' /\ DialInv' /\ NothingStale'
  BY <1>1 DEF IInv, OneInstance, LifeInv, DialInv, NothingStale, Unused
<1>5. OrderInv' /\ AgeInv' /\ WaitsOnlyWhileDown'
  BY <1>1 DEF IInv, OrderInv, AgeInv, WaitsOnlyWhileDown, Sorted, UpTo
<1> QED BY <1>3, <1>4, <1>5 DEF IInv

LEMMA StopStep == IInv /\ Stop => IInv'
<1> SUFFICES ASSUME IInv, Stop
             PROVE  IInv'
  OBVIOUS
<1>1. /\ started /\ destroyed' /\ state' = Terminated(socket)
      /\ purge' = None /\ reconnect' = None
      /\ UNCHANGED <<serverMode, started, socket, buffer, sent, written, lost>>
  BY DEF Stop
<1>2. TypeOK'
  BY <1>1, TerminatedFacts DEF IInv, TypeOK, Timer
<1>3. OneInstance' /\ LifeInv' /\ DialInv'
  BY <1>1, TerminatedFacts DEF IInv, OneInstance, LifeInv, DialInv, Unused, Live
<1>4. NothingStale' /\ OrderInv' /\ AgeInv'
  BY <1>1 DEF IInv, NothingStale, OrderInv, AgeInv, Sorted, UpTo
<1>5. WaitsOnlyWhileDown'
  <2>1. ~IsOpen'
    BY <1>1, TerminatedFacts DEF IInv, TypeOK, IsOpen, Live
  <2> QED BY <1>1, <2>1 DEF WaitsOnlyWhileDown
<1> QED BY <1>2, <1>3, <1>4, <1>5 DEF IInv

(* Time passes: what a message ages, the purge timer has less left.        *)
LEMMA TickStep == IInv /\ Tick => IInv'
<1> SUFFICES ASSUME IInv, Tick
             PROVE  IInv'
  OBVIOUS
<1>1. /\ purge # 0 /\ reconnect # 0
      /\ purge' = Less(purge) /\ reconnect' = Less(reconnect)
      /\ buffer' = [k \in DOMAIN buffer |-> [buffer[k] EXCEPT !.age = @ + 1]]
      /\ UNCHANGED <<serverMode, started, destroyed, socket, state, sent, written, lost>>
  BY DEF Tick
<1>2. buffer \in Seq(Msg) /\ \A k \in DOMAIN buffer : buffer[k] \in Msg
  BY DEF IInv, TypeOK
<1>3. /\ Len(buffer) \in Nat /\ DOMAIN buffer = 1..Len(buffer)
      /\ DOMAIN buffer' = DOMAIN buffer
      /\ \A k \in DOMAIN buffer : buffer'[k] = [buffer[k] EXCEPT !.age = @ + 1]
  BY <1>1, <1>2
<1>4. \A k \in DOMAIN buffer : /\ buffer'[k] \in Msg
                               /\ buffer'[k].id = buffer[k].id
                               /\ buffer'[k].age = buffer[k].age + 1
  BY <1>2, <1>3 DEF Msg
<1>5. buffer' \in Seq(Msg) /\ Len(buffer') = Len(buffer)
  <2>1. buffer' = [k \in 1..Len(buffer) |-> [buffer[k] EXCEPT !.age = @ + 1]]
    BY <1>1, <1>3
  <2>2. \A k \in 1..Len(buffer) : [buffer[k] EXCEPT !.age = @ + 1] \in Msg
    BY <1>3, <1>4
  <2> QED BY <1>3, <2>1, <2>2
<1>6. /\ purge' \in Timer(Ttl) /\ (purge' # None <=> purge # None)
      /\ reconnect' \in Timer(Retry) /\ (reconnect' # None <=> reconnect # None)
      /\ purge # None => purge \in Nat /\ purge' = purge - 1
  BY <1>1, Bounds DEF IInv, TypeOK, Timer, Less
<1>7. TypeOK'
  BY <1>1, <1>5, <1>6 DEF IInv, TypeOK
<1>8. OneInstance' /\ LifeInv' /\ DialInv' /\ NothingStale'
  BY <1>1, <1>6 DEF IInv, OneInstance, LifeInv, DialInv, NothingStale, Unused
<1>9. OrderInv'
  <2>1. Sorted(buffer') /\ UpTo(buffer', sent)
    BY <1>3, <1>4 DEF IInv, OrderInv, Sorted, UpTo
  <2>2. \A j \in DOMAIN written, k \in DOMAIN buffer' : written[j].id < buffer'[k].id
    BY <1>3, <1>4 DEF IInv, OrderInv
  <2>3. Sorted(written) /\ UpTo(written, sent)
    BY DEF IInv, OrderInv
  <2> QED BY <1>1, <2>1, <2>2, <2>3 DEF OrderInv
<1>10. AgeInv'
  <2>1. \A k \in DOMAIN buffer : buffer[k].age \in Nat
    BY <1>2 DEF Msg
  <2> QED BY <1>3, <1>4, <1>6, <2>1, Bounds DEF IInv, AgeInv
<1>11. WaitsOnlyWhileDown'
  <2>1. buffer' # <<>> => buffer # <<>>
    BY <1>3, <1>5
  <2> QED BY <1>1, <1>6, <2>1 DEF IInv, WaitsOnlyWhileDown, IsOpen
<1> QED BY <1>7, <1>8, <1>9, <1>10, <1>11 DEF IInv

(* Every step preserves the invariant.                                     *)
LEMMA NextInv == IInv /\ [Next]_vars => IInv'
<1> SUFFICES ASSUME IInv, [Next]_vars
             PROVE  IInv'
  OBVIOUS
<1>1. CASE Start
  BY <1>1, StartStep
<1>2. CASE Stop
  BY <1>2, StopStep
<1>3. CASE Send
  BY <1>3, SendStep
<1>4. CASE Purge
  BY <1>4, PurgeStep
<1>5. CASE Redial
  BY <1>5, RedialStep
<1>6. CASE Tick
  BY <1>6, TickStep
<1>7. ASSUME NEW c \in Conn, Connection(c) \/ Open(c) \/ Break(c) \/ OnClose(c)
      PROVE  IInv'
  BY <1>7, ConnectionStep, OpenStep, BreakStep, OnCloseStep
<1>8. CASE UNCHANGED vars
  BY <1>8 DEF vars, IInv, TypeOK, OneInstance, LifeInv, DialInv, WaitsOnlyWhileDown,
              AgeInv, NothingStale, OrderInv, Sorted, UpTo, IsOpen, Unused
<1> QED BY <1>1, <1>2, <1>3, <1>4, <1>5, <1>6, <1>7, <1>8 DEF Next

LEMMA Invariance == Spec => []IInv
BY InitInv, NextInv, PTL DEF Spec

(* The variables keep their types and the buffer its capacity.             *)
THEOREM TypeCorrect == Spec => []TypeOK
<1>1. IInv => TypeOK
  BY DEF IInv
<1> QED BY <1>1, Invariance, PTL

(* At most one UE5 instance is connected or being dialled.                 *)
THEOREM OneUe5 == Spec => []OneInstance
<1>1. IInv => OneInstance
  BY DEF IInv
<1> QED BY <1>1, Invariance, PTL

(* Nothing is left in the buffer behind an open socket or without a purge  *)
(* timer.                                                                  *)
THEOREM NothingStuck == Spec => []WaitsOnlyWhileDown
<1>1. IInv => WaitsOnlyWhileDown
  BY DEF IInv
<1> QED BY <1>1, Invariance, PTL

(* No message reaches UE5 after its TTL.                                   *)
THEOREM NoStaleReplay == Spec => []NothingStale
<1>1. IInv => NothingStale
  BY DEF IInv
<1> QED BY <1>1, Invariance, PTL

(* UE5 gets the messages in the order they were relayed, through every     *)
(* loss, replacement, flush and purge.                                     *)
THEOREM OrderKept == Spec => []InOrder
<1>1. IInv => InOrder
  <2> SUFFICES ASSUME IInv
               PROVE  InOrder
    OBVIOUS
  <2>1. written \in Seq(Msg) /\ buffer \in Seq(Msg) /\ sent \in Nat
    BY DEF IInv, TypeOK
  <2>2. Sorted(written \o buffer)
    BY <2>1, ConcatFacts DEF IInv, OrderInv
  <2> QED BY <2>2 DEF InOrder, Sorted
<1> QED BY <1>1, Invariance, PTL

(* ue5Client.ts: UE5 sees one ordered stream, however often it is replaced. *)
THEOREM StreamOrdered == Spec => []OneOrderedStream
<1>1. OneInstance /\ WaitsOnlyWhileDown /\ InOrder => OneOrderedStream
  BY DEF OneOrderedStream
<1> QED BY <1>1, OneUe5, NothingStuck, OrderKept, PTL

(* After stop() no socket is dialled or opened any more.                   *)
THEOREM Stopped == Spec => StopIsFinal
<1> DEFINE Quiet == \A c \in Conn : state'[c] \in {"connecting", "open"}
                                      => state'[c] = state[c]
<1>1. IInv /\ [Next]_vars => [destroyed => Quiet]_vars
  <2> SUFFICES ASSUME IInv, Next, destroyed
               PROVE  Quiet
    BY DEF vars
  <2>1. started /\ reconnect = None /\ \A c \in Conn : state[c] \notin Live
    BY DEF IInv, LifeInv
  <2>2. CASE Start \/ Stop \/ Redial
    BY <2>1, <2>2, Bounds DEF Start, Stop, Redial
  <2>3. CASE Send \/ Purge \/ Tick
    BY <2>3 DEF Send, Purge, Tick
  <2>4. ASSUME NEW c \in Conn, Connection(c) \/ Open(c) \/ Break(c) \/ OnClose(c)
        PROVE  Quiet
    BY <2>1, <2>4 DEF Connection, Open, Break, OnClose, IInv, TypeOK, Live
  <2> QED BY <2>2, <2>3, <2>4 DEF Next
<1> QED BY <1>1, Invariance, PTL DEF Spec, StopIsFinal
-----------------------------------------------------------------------------
(* Where every message went.                                               *)

Ids(s) == {s[k].id : k \in DOMAIN s}
Gone == {x.msg.id : x \in lost}

(* A message that waits has not been dropped, so that a drop is a new one. *)
AccInv ==
  /\ IsFiniteSet(lost)
  /\ Ids(written) \cup Ids(buffer) \cup Gone = 1..sent
  /\ Len(written) + Len(buffer) + Cardinality(lost) = sent
  /\ Ids(buffer) \cap Gone = {}

LEMMA IdsConcat ==
  ASSUME NEW s \in Seq(Msg), NEW t \in Seq(Msg)
  PROVE  Ids(s \o t) = Ids(s) \cup Ids(t) /\ Len(s \o t) = Len(s) + Len(t)
<1>1. /\ Len(s \o t) = Len(s) + Len(t) /\ Len(s) \in Nat /\ Len(t) \in Nat
      /\ DOMAIN (s \o t) = 1..(Len(s) + Len(t))
      /\ DOMAIN s = 1..Len(s) /\ DOMAIN t = 1..Len(t)
      /\ \A k \in 1..Len(s) : (s \o t)[k] = s[k]
      /\ \A k \in 1..Len(t) : (s \o t)[Len(s) + k] = t[k]
  OBVIOUS
<1> DEFINE n == Len(s)  m == Len(t)  u == s \o t
<1> HIDE DEF n, m, u
<1>2. /\ n \in Nat /\ m \in Nat /\ DOMAIN u = 1..(n + m) /\ DOMAIN s = 1..n /\ DOMAIN t = 1..m
      /\ \A k \in 1..n : u[k] = s[k]
      /\ \A k \in 1..m : u[n + k] = t[k]
  BY <1>1 DEF n, m, u
<1>3. \A k \in 1..n : k \in 1..(n + m)
  BY <1>2
<1>4. \A k \in 1..m : n + k \in 1..(n + m)
  BY <1>2
<1>5. \A k \in 1..(n + m) : k \in 1..n \/ (k - n \in 1..m /\ n + (k - n) = k)
  BY <1>2
<1>6. Ids(s) \subseteq Ids(u)
  BY <1>2, <1>3 DEF Ids
<1>7. Ids(t) \subseteq Ids(u)
  BY <1>2, <1>4 DEF Ids
<1>8. Ids(u) \subseteq Ids(s) \cup Ids(t)
  <2> SUFFICES ASSUME NEW k \in 1..(n + m) PROVE u[k].id \in Ids(s) \cup Ids(t)
    BY <1>2 DEF Ids
  <2>1. CASE k \in 1..n
    BY <1>2, <2>1 DEF Ids
  <2>2. CASE k - n \in 1..m /\ n + (k - n) = k
    <3>1. u[k] = t[k - n]
      BY <1>2, <2>2
    <3> QED
      BY <1>2, <2>2, <3>1 DEF Ids
  <2> QED
    BY <1>5, <2>1, <2>2
<1> QED
  BY <1>1, <1>6, <1>7, <1>8 DEF u

LEMMA IdsAppend ==
  ASSUME NEW s \in Seq(Msg), NEW m \in Msg
  PROVE  Ids(Append(s, m)) = Ids(s) \cup {m.id} /\ Len(Append(s, m)) = Len(s) + 1
<1>1. /\ Len(s) \in Nat /\ DOMAIN s = 1..Len(s)
      /\ DOMAIN Append(s, m) = 1..(Len(s) + 1)
      /\ \A k \in 1..Len(s) : Append(s, m)[k] = s[k]
      /\ Append(s, m)[Len(s) + 1] = m
      /\ Len(Append(s, m)) = Len(s) + 1
  OBVIOUS
<1>2. \A k \in 1..(Len(s) + 1) : k \in 1..Len(s) \/ k = Len(s) + 1
  BY <1>1
<1>3. Len(s) + 1 \in 1..(Len(s) + 1) /\ \A k \in 1..Len(s) : k \in 1..(Len(s) + 1)
  BY <1>1
<1>4. Ids(Append(s, m)) \subseteq Ids(s) \cup {m.id}
  BY <1>1, <1>2 DEF Ids
<1>5. Ids(s) \subseteq Ids(Append(s, m)) /\ m.id \in Ids(Append(s, m))
  BY <1>1, <1>3 DEF Ids
<1> QED
  BY <1>1, <1>4, <1>5

LEMMA IdsTail ==
  ASSUME NEW s \in Seq(Msg), s # <<>>, Sorted(s)
  PROVE  /\ Ids(s) = {s[1].id} \cup Ids(Tail(s)) /\ s[1].id \notin Ids(Tail(s))
         /\ s[1] \in Msg /\ Tail(s) \in Seq(Msg) /\ Len(Tail(s)) = Len(s) - 1
<1>1. /\ Len(s) \in Nat /\ Len(s) >= 1 /\ DOMAIN s = 1..Len(s)
      /\ Tail(s) \in Seq(Msg) /\ Len(Tail(s)) = Len(s) - 1
      /\ DOMAIN Tail(s) = 1..(Len(s) - 1)
      /\ \A k \in 1..(Len(s) - 1) : Tail(s)[k] = s[k + 1]
  OBVIOUS
<1>2. \A k \in 1..Len(s) : s[k] \in Msg /\ s[k].id \in Nat
  <2>1. \A k \in 1..Len(s) : s[k] \in Msg
    OBVIOUS
  <2> QED
    BY <2>1 DEF Msg
<1>3. 1 \in 1..Len(s)
  BY <1>1
<1>4. \A k \in 1..(Len(s) - 1) : k + 1 \in 1..Len(s) /\ 1 < k + 1
  BY <1>1
<1>5. \A k \in 1..Len(s) : k = 1 \/ (k - 1 \in 1..(Len(s) - 1) /\ (k - 1) + 1 = k)
  BY <1>1
<1>6. s[1].id \notin Ids(Tail(s))
  <2>1. \A k \in 1..(Len(s) - 1) : s[1].id < s[k + 1].id
    BY <1>1, <1>3, <1>4 DEF Sorted
  <2>2. \A k \in 1..(Len(s) - 1) : Tail(s)[k].id # s[1].id
    BY <1>1, <1>2, <1>3, <1>4, <2>1
  <2> QED
    BY <1>1, <2>2 DEF Ids
<1>7. Ids(s) \subseteq {s[1].id} \cup Ids(Tail(s))
  <2> SUFFICES ASSUME NEW k \in 1..Len(s), k # 1 PROVE s[k].id \in Ids(Tail(s))
    BY <1>1 DEF Ids
  <2>1. k - 1 \in 1..(Len(s) - 1) /\ (k - 1) + 1 = k
    BY <1>5
  <2>2. Tail(s)[k - 1] = s[k]
    BY <1>1, <2>1
  <2> QED
    BY <1>1, <2>1, <2>2 DEF Ids
<1>8. Ids(Tail(s)) \subseteq Ids(s) /\ s[1].id \in Ids(s)
  BY <1>1, <1>3, <1>4 DEF Ids
<1> QED
  BY <1>1, <1>2, <1>3, <1>6, <1>7, <1>8

(* The drops of a purge are as many as the messages that waited.           *)
LEMMA Drops ==
  ASSUME NEW s \in Seq(Msg), Sorted(s)
  PROVE  LET X == {[msg |-> s[k], why |-> "ttl"] : k \in DOMAIN s}
         IN  IsFiniteSet(X) /\ Cardinality(X) = Len(s) /\ {x.msg.id : x \in X} = Ids(s)
<1> DEFINE X == {[msg |-> s[k], why |-> "ttl"] : k \in DOMAIN s}
           n == Len(s)
           f == [k \in 1..n |-> [msg |-> s[k], why |-> "ttl"]]
<1>1. n \in Nat /\ DOMAIN s = 1..n /\ \A k \in 1..n : s[k] \in Msg
  OBVIOUS
<1>2. \A j, k \in 1..n : s[j] = s[k] => j = k
  <2> SUFFICES ASSUME NEW j \in 1..n, NEW k \in 1..n, j < k PROVE s[j] # s[k]
    BY <1>1
  <2>1. s[j].id < s[k].id /\ s[j].id \in Nat /\ s[k].id \in Nat
    BY <1>1 DEF Sorted, Msg
  <2> QED
    BY <2>1
<1>3. f \in [1..n -> X] /\ (\A j, k \in 1..n : f[j] = f[k] => j = k) /\ \A x \in X : \E k \in 1..n : f[k] = x
  <2>1. \A k \in 1..n : f[k] = [msg |-> s[k], why |-> "ttl"] /\ f[k] \in X
    BY <1>1
  <2>2. \A j, k \in 1..n : f[j] = f[k] => s[j] = s[k]
    <3> SUFFICES ASSUME NEW j \in 1..n, NEW k \in 1..n, f[j] = f[k] PROVE s[j] = s[k]
      OBVIOUS
    <3>1. f[j].msg = s[j] /\ f[k].msg = s[k]
      BY <2>1
    <3> QED
      BY <3>1
  <2>3. f \in [1..n -> X]
    BY <2>1
  <2>4. \A x \in X : \E k \in 1..n : f[k] = x
    BY <1>1
  <2> QED
    BY <1>2, <2>2, <2>3, <2>4
<1> HIDE DEF f
<1>4. f \in Bijection(1..n, X)
  <2> HIDE DEF X, n
  <2> QED
    BY <1>3, Fun_IsBij
<1>5. IsFiniteSet(1..n) /\ Cardinality(1..n) = n
  <2> HIDE DEF n
  <2>1. n \in Int /\ 1 \in Int /\ n \in Nat
    BY <1>1
  <2>2. IsFiniteSet(1..n) /\ Cardinality(1..n) = IF 1 > n THEN 0 ELSE n - 1 + 1
    BY ONLY <2>1, FS_Interval
  <2> QED
    BY <2>1, <2>2
<1>6. IsFiniteSet(X) /\ Cardinality(X) = n
  <2> HIDE DEF X, n
  <2>1. ExistsBijection(1..n, X)
    BY <1>4 DEF ExistsBijection
  <2> QED
    BY <1>5, <2>1, FS_Bijection
<1>7. {x.msg.id : x \in X} = Ids(s)
  <2>1. ASSUME NEW x \in X PROVE x.msg.id \in Ids(s)
    <3>1. PICK k \in DOMAIN s : x = [msg |-> s[k], why |-> "ttl"]
      OBVIOUS
    <3> QED
      BY <3>1 DEF Ids
  <2>2. ASSUME NEW k \in DOMAIN s PROVE \E x \in X : x.msg.id = s[k].id
    <3> DEFINE x == [msg |-> s[k], why |-> "ttl"]
    <3>1. x \in X /\ x.msg.id = s[k].id
      OBVIOUS
    <3> QED
      BY <3>1
  <2> HIDE DEF X
  <2> QED
    BY <2>1, <2>2 DEF Ids
<1> QED
  BY <1>6, <1>7

LEMMA InitAcc == Init => AccInv
<1> SUFFICES ASSUME Init PROVE AccInv
  OBVIOUS
<1>1. written = <<>> /\ buffer = <<>> /\ lost = {} /\ sent = 0
  BY DEF Init
<1>2. Ids(written) = {} /\ Ids(buffer) = {} /\ Gone = {} /\ Len(written) = 0 /\ Len(buffer) = 0
  BY <1>1 DEF Ids, Gone
<1>3. IsFiniteSet(lost) /\ Cardinality(lost) = 0
  BY <1>1, FS_EmptySet
<1>4. 1..sent = {}
  BY <1>1
<1> QED
  BY <1>1, <1>2, <1>3, <1>4 DEF AccInv

(* Steps that leave every message where it is.                             *)
LEMMA AccKept ==
  ASSUME AccInv, UNCHANGED <<written, lost, sent>>, Ids(buffer') = Ids(buffer),
         Len(buffer') = Len(buffer)
  PROVE  AccInv'
<1>1. Ids(written)' = Ids(written) /\ Ids(buffer)' = Ids(buffer) /\ Gone' = Gone
  BY DEF Ids, Gone
<1> QED
  BY <1>1 DEF AccInv

LEMMA AccFlush ==
  ASSUME IInv, AccInv, FlushBuffer, UNCHANGED <<lost, sent>>
  PROVE  AccInv'
<1>1. /\ written \in Seq(Msg) /\ buffer \in Seq(Msg) /\ sent \in Nat
      /\ written' = written \o buffer /\ buffer' = <<>>
  BY DEF IInv, TypeOK, FlushBuffer
<1>2. Ids(written') = Ids(written) \cup Ids(buffer) /\ Len(written') = Len(written) + Len(buffer)
  BY <1>1, IdsConcat
<1>3. Ids(buffer') = {} /\ Len(buffer') = 0
  BY <1>1 DEF Ids
<1>4. Gone' = Gone /\ Ids(written)' = Ids(written') /\ Ids(buffer)' = Ids(buffer')
  BY DEF Gone, Ids
<1>5. /\ Len(written) \in Nat /\ Len(buffer) \in Nat /\ Cardinality(lost) \in Nat
  BY <1>1, FS_CardinalityType DEF AccInv
<1>6. Len(written') + Len(buffer') + Cardinality(lost) = sent
  BY <1>2, <1>3, <1>5 DEF AccInv
<1> QED
  BY <1>2, <1>3, <1>4, <1>6 DEF AccInv

LEMMA AccSend ==
  ASSUME IInv, AccInv, Send
  PROVE  AccInv'
<1> DEFINE m == [id |-> sent + 1, age |-> 0]
<1>1. /\ written \in Seq(Msg) /\ buffer \in Seq(Msg) /\ sent \in Nat /\ sent' = sent + 1
      /\ m \in Msg /\ m.id = sent + 1 /\ Sorted(buffer)
      /\ Len(written) \in Nat /\ Len(buffer) \in Nat
      /\ IsFiniteSet(lost) /\ Cardinality(lost) \in Nat
  BY FS_CardinalityType DEF IInv, TypeOK, OrderInv, Msg, Send, AccInv
<1>2. 1..(sent + 1) = (1..sent) \cup {sent + 1} /\ sent + 1 \notin 1..sent
  BY <1>1
<1>3. /\ Ids(written) \cup Ids(buffer) \cup Gone = 1..sent
      /\ Len(written) + Len(buffer) + Cardinality(lost) = sent
      /\ Ids(buffer) \cap Gone = {}
  BY DEF AccInv
<1>4. /\ Ids(written)' = Ids(written') /\ Ids(buffer)' = Ids(buffer')
      /\ (1..sent)' = 1..sent' /\ Gone' = {x.msg.id : x \in lost'}
  BY DEF Ids, Gone
<1>5. CASE SendNow
  <2>1. written' = Append(written, m) /\ buffer' = buffer /\ lost' = lost
    BY <1>5 DEF SendNow
  <2>2. Ids(written') = Ids(written) \cup {sent + 1} /\ Len(written') = Len(written) + 1
    BY <1>1, <2>1, IdsAppend
  <2>3. Gone' = Gone
    BY <2>1 DEF Gone
  <2>4. Len(written') + Len(buffer') + Cardinality(lost') = sent'
    BY <1>1, <1>3, <2>1, <2>2
  <2> HIDE DEF m
  <2> QED
    BY <1>1, <1>2, <1>3, <1>4, <2>1, <2>2, <2>3, <2>4 DEF AccInv
<1>6. CASE SendLater /\ Len(buffer) >= MaxBuffer
  <2>1. /\ written' = written /\ buffer' = Append(Tail(buffer), m)
        /\ lost' = lost \cup {[msg |-> buffer[1], why |-> "full"]}
    BY <1>6 DEF SendLater, Enqueue
  <2>2. buffer # <<>>
    BY <1>1, <1>6, Bounds
  <2>3. /\ Ids(buffer) = {buffer[1].id} \cup Ids(Tail(buffer)) /\ buffer[1].id \notin Ids(Tail(buffer))
        /\ buffer[1] \in Msg /\ Tail(buffer) \in Seq(Msg) /\ Len(Tail(buffer)) = Len(buffer) - 1
    BY <1>1, <2>2, IdsTail
  <2>4. /\ Ids(Append(Tail(buffer), m)) = Ids(Tail(buffer)) \cup {m.id}
        /\ Len(Append(Tail(buffer), m)) = Len(Tail(buffer)) + 1
    BY <1>1, <2>3, IdsAppend
  <2> DEFINE d == [msg |-> buffer[1], why |-> "full"]
             b1 == buffer[1].id
             T == Ids(Tail(buffer))
  <2>5. /\ Ids(buffer') = T \cup {sent + 1} /\ Len(buffer') = Len(buffer)
        /\ Ids(buffer) = {b1} \cup T /\ b1 \notin T
    BY <1>1, <2>1, <2>3, <2>4
  <2>6. d.msg.id = b1 /\ lost' = lost \cup {d}
    BY <2>1
  <2> HIDE DEF d, b1, T, m
  <2>7. Gone' = Gone \cup {b1}
    BY <2>6 DEF Gone
  <2>8. d \notin lost
    BY <1>3, <2>5, <2>6 DEF Gone
  <2>9. IsFiniteSet(lost') /\ Cardinality(lost') = Cardinality(lost) + 1
    BY <1>1, <2>6, <2>8, FS_AddElement
  <2>10. Len(written') + Len(buffer') + Cardinality(lost') = sent'
    BY <1>1, <1>3, <2>1, <2>5, <2>9
  <2>11. Ids(written') = Ids(written)
    BY <2>1
  <2>12. sent + 1 \notin Gone /\ b1 # sent + 1
    BY <1>2, <1>3, <2>5
  <2>13. Ids(buffer') \cap Gone' = {}
    BY <1>3, <2>5, <2>7, <2>12
  <2>14. Ids(written') \cup Ids(buffer') \cup Gone' = 1..sent'
    BY <1>1, <1>2, <1>3, <2>5, <2>7, <2>11
  <2> QED
    BY <1>4, <2>9, <2>10, <2>13, <2>14 DEF AccInv
<1>7. CASE SendLater /\ ~(Len(buffer) >= MaxBuffer)
  <2>1. written' = written /\ buffer' = Append(buffer, m) /\ lost' = lost
    BY <1>7 DEF SendLater, Enqueue
  <2>2. Ids(buffer') = Ids(buffer) \cup {sent + 1} /\ Len(buffer') = Len(buffer) + 1
    BY <1>1, <2>1, IdsAppend
  <2>3. Gone' = Gone
    BY <2>1 DEF Gone
  <2>4. Len(written') + Len(buffer') + Cardinality(lost') = sent'
    BY <1>1, <1>3, <2>1, <2>2
  <2> HIDE DEF m
  <2>5. sent + 1 \notin Gone
    BY <1>2, <1>3
  <2> QED
    BY <1>1, <1>2, <1>3, <1>4, <2>1, <2>2, <2>3, <2>4, <2>5 DEF AccInv
<1> QED
  BY <1>5, <1>6, <1>7 DEF Send

LEMMA AccPurge ==
  ASSUME IInv, AccInv, Purge
  PROVE  AccInv'
<1> DEFINE X == {[msg |-> buffer[k], why |-> "ttl"] : k \in DOMAIN buffer}
<1>1. /\ written' = written /\ buffer' = <<>> /\ lost' = lost \cup X /\ sent' = sent
      /\ buffer \in Seq(Msg) /\ written \in Seq(Msg) /\ Sorted(buffer)
      /\ Len(written) \in Nat /\ Len(buffer) \in Nat /\ sent \in Nat
      /\ IsFiniteSet(lost)
  BY DEF IInv, TypeOK, OrderInv, Purge, AccInv
<1>2. IsFiniteSet(X) /\ Cardinality(X) = Len(buffer) /\ {x.msg.id : x \in X} = Ids(buffer)
  BY <1>1, Drops
<1> HIDE DEF X
<1>3. Gone' = Gone \cup Ids(buffer)
  BY <1>1, <1>2 DEF Gone
<1>4. Ids(buffer') = {} /\ Len(buffer') = 0 /\ Ids(buffer)' = Ids(buffer') /\ Ids(written)' = Ids(written)
  BY <1>1 DEF Ids
<1>5. lost \cap X = {}
  <2> SUFFICES ASSUME NEW x \in lost, x \in X PROVE FALSE
    OBVIOUS
  <2>1. x.msg.id \in Ids(buffer)
    BY <1>2
  <2>2. x.msg.id \in Gone
    BY DEF Gone
  <2> QED
    BY <2>1, <2>2 DEF AccInv
<1>6. IsFiniteSet(lost') /\ Cardinality(lost') = Cardinality(lost) + Len(buffer)
  <2>1. IsFiniteSet(lost \cup X)
    BY <1>1, <1>2, FS_Union
  <2>2. Cardinality(lost \cup X) = Cardinality(lost) + Cardinality(X) - Cardinality({})
    BY <1>1, <1>2, <1>5, FS_Union
  <2>3. Cardinality({}) = 0 /\ Cardinality(lost) \in Nat
    BY <1>1, FS_EmptySet, FS_CardinalityType
  <2> QED
    BY <1>1, <1>2, <2>1, <2>2, <2>3
<1>7. Len(written') + Len(buffer') + Cardinality(lost') = sent'
  <2>1. Cardinality(lost) \in Nat /\ Len(written) + Len(buffer) + Cardinality(lost) = sent
    BY <1>1, FS_CardinalityType DEF AccInv
  <2> QED
    BY <1>1, <1>4, <1>6, <2>1
<1> QED
  BY <1>1, <1>3, <1>4, <1>6, <1>7 DEF AccInv

LEMMA NextAcc == IInv /\ AccInv /\ [Next]_vars => AccInv'
<1> SUFFICES ASSUME IInv, AccInv, [Next]_vars PROVE AccInv'
  OBVIOUS
<1>1. CASE UNCHANGED <<written, lost, sent, buffer>>
  BY <1>1, AccKept
<1>2. CASE Start \/ Stop \/ Redial
  BY <1>1, <1>2 DEF Start, Stop, Redial
<1>3. CASE Send
  BY <1>3, AccSend
<1>4. CASE Purge
  BY <1>4, AccPurge
<1>5. CASE Tick
  <2>1. /\ buffer' = [k \in DOMAIN buffer |-> [buffer[k] EXCEPT !.age = @ + 1]]
        /\ UNCHANGED <<written, lost, sent>>
    BY <1>5 DEF Tick
  <2>2. buffer \in Seq(Msg) /\ DOMAIN buffer = 1..Len(buffer) /\ Len(buffer) \in Nat
        /\ \A k \in DOMAIN buffer : buffer[k] \in Msg
    BY DEF IInv, TypeOK
  <2>3. /\ DOMAIN buffer' = DOMAIN buffer
        /\ \A k \in DOMAIN buffer : buffer'[k].id = buffer[k].id
    BY <2>1, <2>2 DEF Msg
  <2>4. Len(buffer') = Len(buffer)
    BY <2>2, <2>3
  <2>5. Ids(buffer') = Ids(buffer)
    BY <2>3 DEF Ids
  <2> QED
    BY <2>1, <2>4, <2>5, AccKept
<1>6. ASSUME NEW c \in Conn, Connection(c) \/ Open(c)
      PROVE  AccInv'
  BY <1>6, AccFlush DEF Connection, Open
<1>7. ASSUME NEW c \in Conn, Break(c) \/ OnClose(c)
      PROVE  AccInv'
  BY <1>1, <1>7 DEF Break, OnClose
<1>8. CASE UNCHANGED vars
  BY <1>1, <1>8 DEF vars
<1> QED
  BY <1>2, <1>3, <1>4, <1>5, <1>6, <1>7, <1>8 DEF Next

(* Every relayed message is written, waiting or dropped, and only one of   *)
(* the three, through every loss of the socket, flush and purge.           *)
THEOREM AllAccounted == Spec => []Accounted
<1>1. AccInv => Accounted
  BY DEF AccInv, Accounted, Ids, Gone
<1>2. Spec => []AccInv
  BY Invariance, InitAcc, NextAcc, PTL DEF Spec
<1> QED
  BY <1>1, <1>2, PTL
=============================================================================
