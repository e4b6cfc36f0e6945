---------------------------- MODULE ReplayIngest ----------------------------
(***************************************************************************)
(* Ingestion in the replay service (services/replay-service/src/ingest.ts, *)
(* db/repository.ts): POST /ingest groups a batch by swarm and, for every  *)
(* swarm, creates its row, stores the events in one transaction, counts    *)
(* them, finalises the row and bookmarks notable events, each in a         *)
(* statement of its own.  A statement may fail, or the process die, between *)
(* any two; the relay may post the same events again.                      *)
(***************************************************************************)
EXTENDS Integers, Sequences, FiniteSetsExt

CONSTANTS
  Swarm, Event,
  Nothing,
  Info,       \* what an event says: swarm, kind, at (ms) and sequence
  Batches,    \* batches the relay posts
  MaxPosts    \* bound of the model: posts

Kinds == {"plain", "retry", "anomaly", "task_failed", "success",
          "SWARM_COMPLETED", "SWARM_FAILED"}

ASSUME EventAssumption ==
  Info \in [Event -> [swarm : Swarm, kind : Kinds, at : Nat, sequence : Nat]]
ASSUME BatchAssumption == Batches \subseteq Seq(Event) /\ <<>> \notin Batches
ASSUME NothingAssumption == Nothing \notin Nat
ASSUME BoundAssumption == MaxPosts \in Nat

VARIABLES
  sessions,   \* swarm_sessions: the rows there are
  saved,      \* stored_events: ids of the rows
  marks,      \* bookmarks: how many rows point at an event
  job,        \* the request being handled, or Nothing
  posts,      \* posts so far
  sent,       \* history: the copies of events in the batches posted
  acked       \* history: events of the batches answered 201

ingestVars == <<sessions, saved, marks, job, posts, sent, acked>>

Row == [started : Nat, ended : Nat \cup {Nothing}, events : Nat, retries : Nat,
        anomalies : Nat, status : {"running", "completed", "failed"}]
Job == [batch : Batches, done : SUBSET Swarm,
        step : {"ensure", "store", "count", "finalise", "bookmark"}]

Terminal == {"SWARM_COMPLETED", "SWARM_FAILED"}
Final(e) == IF Info[e].kind = "SWARM_COMPLETED" THEN "completed" ELSE "failed"

(* bookmarkTypeForEvent: whether it is null.                               *)
Notable(e) == Info[e].kind # "plain"

(* What the handler does with a batch it does at places of the batch.      *)
EventAt(n) == job.batch[n]
OfKind(places, kind) == Cardinality({n \in places : Info[EventAt(n)].kind = kind})

(* The places of the swarms still to be handled, and of the first of them   *)
(* (in the order of the Map).                                              *)
Rest == {n \in DOMAIN job.batch : Info[EventAt(n)].swarm \notin job.done}
Current == Info[EventAt(Min(Rest))].swarm
Group == {n \in DOMAIN job.batch : Info[EventAt(n)].swarm = Current}

IngestInit ==
  /\ sessions = [s \in {} |-> Nothing]
  /\ saved = {}
  /\ marks = [e \in Event |-> 0]
  /\ job = Nothing
  /\ posts = 0
  /\ sent = {}
  /\ acked = {}

(* A valid batch arrives: new, or one that was posted before.              *)
Post(batch) ==
  /\ job = Nothing /\ posts < MaxPosts
  /\ job' = [batch |-> batch, done |-> {}, step |-> "ensure"]
  /\ posts' = posts + 1
  /\ sent' = sent \cup {[post |-> posts', place |-> n, event |-> batch[n]] : n \in DOMAIN batch}
  /\ UNCHANGED <<sessions, saved, marks, acked>>

Moves(step, next) ==
  /\ job # Nothing /\ Rest # {}
  /\ job.step = step
  /\ job' = [job EXCEPT !.step = next]

NewRow == [started |-> Min({Info[EventAt(n)].at : n \in Group}), ended |-> Nothing,
           events |-> 0, retries |-> 0, anomalies |-> 0, status |-> "running"]

(* ensureSwarmSession: the first batch decides when the swarm started.     *)
Ensure ==
  /\ Moves("ensure", "store")
  /\ sessions' = [s \in DOMAIN sessions \cup {Current} |->
                   IF s \in DOMAIN sessions THEN sessions[s] ELSE NewRow]
  /\ UNCHANGED <<saved, marks, posts, sent, acked>>

(* insertEventBatch: one transaction of INSERT OR IGNORE.                  *)
Store ==
  /\ Moves("store", "count")
  /\ saved' = saved \cup {EventAt(n) : n \in Group}
  /\ UNCHANGED <<sessions, marks, posts, sent, acked>>

(* Mutation of Count: a retry counts as an anomaly.                        *)
CountMixed ==
  /\ Moves("count", "finalise")
  /\ sessions' = [sessions EXCEPT
       ![Current].events = @ + Cardinality(Group),
       ![Current].anomalies = @ + OfKind(Group, "anomaly") + OfKind(Group, "retry")]
  /\ UNCHANGED <<saved, marks, posts, sent, acked>>

(* updateSessionCounts: the whole group counts, rows ignored or not.       *)
Count ==
  /\ Moves("count", "finalise")
  /\ sessions' = [sessions EXCEPT
       ![Current].events = @ + Cardinality(Group),
       ![Current].retries = @ + OfKind(Group, "retry"),
       ![Current].anomalies = @ + OfKind(Group, "anomaly")]
  /\ UNCHANGED <<saved, marks, posts, sent, acked>>

(* What finalizeSwarmSession leaves of a row for the terminal events at     *)
(* some places: each overwrites what the one before left.                  *)
Finalised(row, places) ==
  LET ends == {n \in places : Info[EventAt(n)].kind \in Terminal}
  IN IF ends = {} THEN row
     ELSE [row EXCEPT !.status = Final(EventAt(Max(ends))), !.ended = Info[EventAt(Max(ends))].at]

(* insertBookmark, under a fresh id, for the notable events at some places. *)
Marked(places) ==
  [e \in Event |-> marks[e] + Cardinality({n \in places : Notable(e) /\ EventAt(n) = e})]

(* Mutation of Finalise: a row that has ended is left alone, so its end    *)
(* moves without its status.                                               *)
FinaliseTime ==
  /\ Moves("finalise", "bookmark")
  /\ sessions' = [sessions EXCEPT ![Current] =
       [Finalised(@, Group) EXCEPT !.status = IF sessions[Current].status = "running"
                                               THEN @ ELSE sessions[Current].status]]
  /\ UNCHANGED <<saved, marks, posts, sent, acked>>

Finalise ==
  /\ Moves("finalise", "bookmark")
  /\ sessions' = [sessions EXCEPT ![Current] = Finalised(@, Group)]
  /\ UNCHANGED <<saved, marks, posts, sent, acked>>

(* The bookmarks end the swarm's turn.                                     *)
Bookmark ==
  /\ job # Nothing /\ Rest # {} /\ job.step = "bookmark"
  /\ marks' = Marked(Group)
  /\ job' = [job EXCEPT !.done = @ \cup {Current}, !.step = "ensure"]
  /\ UNCHANGED <<sessions, saved, posts, sent, acked>>

Answer ==
  /\ job # Nothing /\ Rest = {}
  /\ acked' = acked \cup {EventAt(n) : n \in DOMAIN job.batch}
  /\ job' = Nothing
  /\ UNCHANGED <<sessions, saved, marks, posts, sent>>

(* A statement throws, and the relay is answered 500, or the process dies: *)
(* what was committed stays, part of a loop's statements included.         *)
Fail ==
  /\ job # Nothing
  /\ job' = Nothing
  /\ \/ UNCHANGED <<sessions, marks>>
     \/ /\ Rest # {}
        /\ \E n \in Group :
             LET before == {m \in Group : m < n} IN
             \/ /\ job.step = "finalise"
                /\ sessions' = [sessions EXCEPT ![Current] = Finalised(@, before)]
                /\ UNCHANGED marks
             \/ /\ job.step = "bookmark"
                /\ marks' = Marked(before)
                /\ UNCHANGED sessions
  /\ UNCHANGED <<saved, posts, sent, acked>>

IngestNext ==
  \/ \E batch \in Batches : Post(batch)
  \/ Ensure \/ Store \/ Count \/ Finalise \/ Bookmark \/ Answer \/ Fail

IngestSpec == IngestInit /\ [][IngestNext]_ingestVars

-----------------------------------------------------------------------------
(* What a reader of the timeline API is shown.                             *)
RowsOf(s) == {e \in saved : Info[e].swarm = s}

(* GET /timeline/:swarm_id between two offsets from the start: how many     *)
(* rows there are, and whether more than a page of up to limit shows.      *)
QueryTimeline(s, from, to, limit) ==
  LET start == sessions[s].started
      inside == {e \in RowsOf(s) : Info[e].at \in start + from .. start + to}
  IN [total |-> Cardinality(inside), has_more |-> Cardinality(inside) > limit]

(* buildMetricsSummary: totals come from the rows, retries and anomalies   *)
(* from the counters.                                                      *)
MetricsSummary(s) ==
  [total |-> Cardinality(RowsOf(s)),
   failures |-> Cardinality({e \in RowsOf(s) : Info[e].kind = "task_failed"}),
   retries |-> sessions[s].retries,
   anomalies |-> sessions[s].anomalies]

-----------------------------------------------------------------------------
Of(S, s) == {e \in S : Info[e].swarm = s}
OfK(S, s, kind) == {e \in Of(S, s) : Info[e].kind = kind}
CopiesOf(S) == {c \in sent : c.event \in S}

Copy == [post : Nat, place : Nat, event : Event]

IngestTypeOK ==
  /\ DOMAIN sessions \subseteq Swarm
  /\ \A s \in DOMAIN sessions : sessions[s] \in Row
  /\ saved \subseteq Event /\ acked \subseteq Event
  /\ marks \in [Event -> Nat] /\ sent \subseteq Copy
  /\ job \in Job \cup {Nothing} /\ posts \in 0..MaxPosts

(* Whatever fails and whatever is posted again, an acknowledged event is   *)
(* stored, counted and, when notable, bookmarked at least once, and nothing *)
(* is counted or bookmarked more often than it was posted                  *)
(* (updateSessionCounts and insertBookmark do not look at what was there). *)
CountedPerAttempt ==
  /\ acked \subseteq saved
  /\ \A s \in Swarm :
       /\ Of(saved, s) # {} => s \in DOMAIN sessions
       /\ s \in DOMAIN sessions =>
            LET within(n, S) == n \in Cardinality(acked \cap S)..Cardinality(CopiesOf(S))
            IN /\ within(sessions[s].events, Of(Event, s))
               /\ within(sessions[s].retries, OfK(Event, s, "retry"))
               /\ within(sessions[s].anomalies, OfK(Event, s, "anomaly"))
  /\ \A e \in Event : /\ marks[e] <= Cardinality(CopiesOf({e}))
                       /\ e \in acked /\ Notable(e) => marks[e] > 0

PostedOnce(s) == \A c \in CopiesOf(Of(Event, s)) : c.event \in acked /\ CopiesOf({c.event}) = {c}

(* A swarm whose events were each posted once, and acknowledged, is shown  *)
(* as it was: counters, rows, the timeline from its start and the metrics  *)
(* agree, and every notable event has one bookmark.                        *)
ExactWhenPostedOnce ==
  \A s \in DOMAIN sessions : PostedOnce(s) =>
    LET shown == MetricsSummary(s)
    IN /\ shown.total = sessions[s].events
       /\ shown.retries = Cardinality(OfK(saved, s, "retry"))
       /\ shown.anomalies = Cardinality(OfK(saved, s, "anomaly"))
       /\ \A e \in Of(saved, s) : Notable(e) => marks[e] = 1
       /\ \A to \in {Info[e].at : e \in Event} :
            (\A e \in Of(saved, s) : Info[e].at \in sessions[s].started .. sessions[s].started + to) =>
              LET page == QueryTimeline(s, 0, to, 1)
              IN page.total = sessions[s].events /\ page.has_more = (shown.total > 1)

(* What is stored of the swarms is right as far as repeated posts allow, and *)
(* exact when there were none.                                               *)
CountersTrue == CountedPerAttempt /\ ExactWhenPostedOnce

(* The end of a swarm is that of one of its stored events: status and time *)
(* of the same one, however many ends were posted in whatever order; and a *)
(* swarm one of whose ends was acknowledged is not shown as running.       *)
EndIsAnEvents ==
  \A s \in DOMAIN sessions :
    /\ sessions[s].status # "running" =>
         \E e \in RowsOf(s) : /\ Info[e].kind \in Terminal
                              /\ sessions[s].status = Final(e)
                              /\ sessions[s].ended = Info[e].at
    /\ (\E e \in Of(acked, s) : Info[e].kind \in Terminal) => sessions[s].status # "running"
=============================================================================
