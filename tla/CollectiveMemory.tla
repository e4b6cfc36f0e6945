-------------------------- MODULE CollectiveMemory --------------------------
(* The collective memory graph of the intelligence service, three SQLite    *)
(* tables: what a session of a swarm taught, which of it came before which, *)
(* and what was transferred to other swarms. A session is ingested in one   *)
(* transaction, a transfer is not. better-sqlite3 enforces foreign keys. A  *)
(* weight is in thousandths.                                                *)
EXTENDS Swarms, Integers, Sequences, FiniteSets

CONSTANTS
  Lessons,        \* the pattern lists sessions may yield: sequences of [kind, summary]
  MaxSessions, MaxClones, MaxCrashes

ASSUME LessonsAssumption == \A lessons \in Lessons : IsList(lessons)

VARIABLES
  nodes,          \* collective_nodes: id |-> [swarm, kind, summary, weight]
  edges,          \* collective_edges: <<from, to>>
  transfers,      \* cross_swarm_transfers: [from, to, at, suffix]
  sessions,       \* sessions seen so far, ingested or not; also the time
  crashes         \* history: how often the process died in the middle of a transfer

collective == <<nodes, edges, transfers, sessions, crashes>>

CollectiveInit == nodes = <<>> /\ edges = {} /\ transfers = {} /\ sessions = 0 /\ crashes = 0

\* An id: the session and place of an original, and the swarms it was cloned to since.
Original(n) == [session |-> sessions, place |-> n, clonedTo |-> <<>>]
Clone(id, to) == [id EXCEPT !.clonedTo = Append(@, to)]
IsOriginal(id) == id.clonedTo = <<>>

Known(s, p) == {id \in DOMAIN nodes : nodes[id].swarm = s /\ nodes[id].kind = p.kind /\ nodes[id].summary = p.summary}

Inserted(s, lessons) ==
  LET fresh == {Original(n) : n \in {m \in DOMAIN lessons : Known(s, lessons[m]) = {}}} IN
  [id \in DOMAIN nodes \cup fresh |->
     IF id \in fresh
     THEN [swarm |-> s, kind |-> lessons[id.place].kind, summary |-> lessons[id.place].summary, weight |-> 1000]
     ELSE [nodes[id] EXCEPT !.weight =
             IF \E m \in DOMAIN lessons : id \in Known(s, lessons[m]) THEN @ + 300 ELSE @]]

\* Consecutive patterns of the session, reinforced ones under an id that no row has.
Preceding(lessons) == {<<Original(n), Original(n + 1)>> : n \in 1 .. Len(lessons) - 1}

IngestUnchecked(s, lessons) ==      \* foreign keys not enforced
  /\ sessions < MaxSessions /\ sessions' = sessions + 1
  /\ nodes' = Inserted(s, lessons)
  /\ edges' = edges \cup Preceding(lessons)
  /\ UNCHANGED <<transfers, crashes>>

\* POST /collective/ingest: the transaction fails, and the request with it,
\* when an edge names a node that is not there.
Ingest(s, lessons) ==
  /\ sessions < MaxSessions /\ sessions' = sessions + 1
  /\ IF \A e \in Preceding(lessons) : {e[1], e[2]} \subseteq DOMAIN Inserted(s, lessons)
     THEN /\ nodes' = Inserted(s, lessons)
          /\ edges' = edges \cup Preceding(lessons)
     ELSE UNCHANGED <<nodes, edges>>
  /\ UNCHANGED <<transfers, crashes>>

Transferable(s) ==
  {id \in DOMAIN nodes : nodes[id].swarm = s /\ nodes[id].kind \in {"success", "pattern", "governance_action"}}

\* The heaviest five, in some order among equals.
Top(s) ==
  {T \in SUBSET Transferable(s) :
     /\ Cardinality(T) = IF Cardinality(Transferable(s)) < 5 THEN Cardinality(Transferable(s)) ELSE 5
     /\ \A id \in T, other \in Transferable(s) \ T : nodes[id].weight >= nodes[other].weight}

\* The last characters of an id, the random ones of an original: those of a clone are its swarm's.
Suffix(id) == IF IsOriginal(id) THEN id ELSE id.clonedTo[Len(id.clonedTo)]

Recorded(T, s, to) == transfers \cup {[from |-> s, to |-> to, at |-> sessions, suffix |-> Suffix(id)] : id \in T}
Cloned(T, to) ==
  [id \in DOMAIN nodes \cup {Clone(i, to) : i \in T} |->
     IF id \in DOMAIN nodes THEN nodes[id]
     ELSE LET of == CHOOSE i \in T : Clone(i, to) = id IN
          [nodes[of] EXCEPT !.swarm = to, !.weight = @ \div 2]]

Clones == {id \in DOMAIN nodes : ~IsOriginal(id)}

\* POST /collective/transfer, of a swarm's knowledge to any swarm, itself
\* included: each record is written, if its id is new, before its clone is.
TransferTo(s, to) ==
  /\ Cardinality(Clones) < MaxClones
  /\ \E T \in Top(s) :
       \/ transfers' = Recorded(T, s, to) /\ nodes' = Cloned(T, to) /\ UNCHANGED crashes
       \/ \E done \in SUBSET T : \E next \in T \ done :
            /\ crashes < MaxCrashes /\ crashes' = crashes + 1
            /\ transfers' = Recorded(done \cup {next}, s, to)
            /\ nodes' = Cloned(done, to)
  /\ UNCHANGED <<edges, sessions>>

CollectiveNext ==
  \/ \E s \in Swarm, lessons \in Lessons : Ingest(s, lessons)
  \/ \E s \in Swarm, to \in Swarm : TransferTo(s, to)

-----------------------------------------------------------------------------
(* Properties                                                               *)

\* Every edge joins two lessons of one swarm, learnt in one session, and every
\* lesson but a session's last has the edge to its successor: a session is
\* remembered whole or not at all.
SessionsWhole ==
  /\ \A e \in edges : {e[1], e[2]} \subseteq DOMAIN nodes /\ nodes[e[1]].swarm = nodes[e[2]].swarm
  /\ \A id \in DOMAIN nodes : IsOriginal(id) =>
       \A n \in 1 .. id.place - 1 :
         LET before == [id EXCEPT !.place = n] IN <<before, [before EXCEPT !.place = n + 1]>> \in edges

\* Every clone is accounted for by a record of a transfer to its swarm, though
\* the process may die between the two. (The records of several clones of one
\* call may be one.)
ClonesRecorded ==
  \A id \in Clones : \E t \in transfers :
    t.to = nodes[id].swarm /\ t.suffix = Suffix([id EXCEPT !.clonedTo = SubSeq(@, 1, Len(@) - 1)])

\* The graph of lessons is whole: no session in part, no clone without its transfer.
GraphWhole == SessionsWhole /\ ClonesRecorded

=============================================================================
