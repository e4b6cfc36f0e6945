----------------------------- MODULE MetaPipeline -----------------------------
(***************************************************************************)
(* The meta-agent pipeline: the backend's client of the sidecar            *)
(* (apps/backend/app/clients/meta_client.py, with _handle_meta_insights of *)
(* main.py as its callback) and the sidecar that answers POST /analyze     *)
(* (services/meta-agent).                                                  *)
(*                                                                         *)
(* A dispatch is a task of the backend's event loop.  It passes the        *)
(* debounce and the semaphore in one turn of that loop, waits for the      *)
(* sidecar, shows the insights of the answer one by one, and gives its     *)
(* slot back.  A request lives on in the sidecar when its dispatch has     *)
(* given up.  The sidecar's upserts are synchronous: while a request       *)
(* stores its insights nothing else of the sidecar runs.                   *)
(*                                                                         *)
(* The clock counts units of which TraceGap make the 2 s between two       *)
(* dispatches of a trace and RateWindow the 1 s of both rate limits.       *)
(***************************************************************************)
EXTENDS Integers, Sequences, FiniteSets

CONSTANTS
  Dispatches,  \* the calls of _dispatch_meta, each made at most once
  Traces,      \* trace ids; a periodic dispatch has none
  Keys,        \* dedup keys
  Findings,    \* the insights an analysis may find: sequences of keys
  Slots,       \* META_DISPATCH_SEMAPHORE_SIZE (16)
  RateMax,     \* dispatches per RateWindow (50)
  LimiterMax,  \* RATE_LIMIT_PER_IP (10), per RateWindow
  TraceGap,    \* seconds between two dispatches of a trace (2)
  RateWindow,  \* the second of both limits (1)
  MaxInsights, \* insights of an answer that are shown (50)
  MaxTime      \* bound of the clock

ASSUME SizesAssumption ==
  /\ {Slots, RateMax, LimiterMax} \subseteq Nat \ {0}
  /\ {TraceGap, RateWindow, MaxInsights, MaxTime} \subseteq Nat
ASSUME FindingsAssumption == Findings \subseteq Seq(Keys)
ASSUME DispatchesAssumption == IsFiniteSet(Dispatches)

NoTrace == "no trace"
Never == -1

ASSUME TracesAssumption == NoTrace \notin Traces

VARIABLES
  now,       \* the clock of both processes
  ticks,     \* _global_dispatch_ticks
  last,      \* _trace_last_dispatch
  free,      \* free slots of _meta_semaphore
  call,      \* the state of each dispatch
  answer,    \* the insights its callback goes through
  handled,   \* how many of them it has gone through
  shown,     \* META_INSIGHT events recorded and broadcast, per key
  passed,    \* history: the dispatches that passed the debounce
  trusted,   \* the backend's token is the sidecar's
  auth,      \* META_REQUIRE_AUTH_IN_PROD
  enabled,   \* InsightStore.enabled
  bucket,    \* the limiter's times for the backend's address
  admitted,  \* history: the times the limiter let a request in since it started
  side,      \* the state of each request in the sidecar
  found,     \* the insights of its analysis
  stored,    \* how many of them are in the database
  rows       \* MetaInsight.occurrence_count, 0 when there is no row

backend == <<ticks, last, free, call, answer, handled, shown, passed>>
sidecar == <<trusted, auth, enabled, bucket, admitted, side, found, stored, rows>>
metaVars == <<now, backend, sidecar>>

MetaInit ==
  /\ now = 0
  /\ ticks = <<>> /\ last = [t \in Traces |-> Never]
  /\ free = Slots /\ call = [d \in Dispatches |-> "idle"]
  /\ answer = [d \in Dispatches |-> <<>>] /\ handled = [d \in Dispatches |-> 0]
  /\ shown = [k \in Keys |-> 0] /\ passed = <<>>
  /\ trusted \in BOOLEAN /\ auth \in BOOLEAN /\ enabled \in BOOLEAN
  /\ bucket = <<>> /\ admitted = <<>>
  /\ side = [d \in Dispatches |-> "none"]
  /\ found = [d \in Dispatches |-> <<>>] /\ stored = [d \in Dispatches |-> 0]
  /\ rows = [k \in Keys |-> 0]

-------------------------------------------------------------------------------
(* The two sliding windows.                                                *)

(* The while loop pops exactly the first n times of q.                     *)
Expired(q, n) ==
  /\ \A i \in 1..n : q[i] < now - RateWindow
  /\ n < Len(q) => q[n + 1] >= now - RateWindow

Rest(q, n) == SubSeq(q, n + 1, Len(q))

(* What is left is at the limit.                                           *)
Full(q, n, max) == Len(Rest(q, n)) >= max

-------------------------------------------------------------------------------
(* The backend.                                                            *)

(* The trace was dispatched less than TraceGap ago.                        *)
Recent(t) == t \in Traces /\ last[t] # Never /\ now - last[t] < TraceGap

Drop(d) == call' = [call EXCEPT ![d] = "dropped"] /\ UNCHANGED <<free, side>>

(* async with _meta_semaphore, entered only when a slot is free.           *)
Send(d) ==
  /\ free > 0
  /\ free' = free - 1
  /\ call' = [call EXCEPT ![d] = "sent"]
  /\ side' = [side EXCEPT ![d] = "wire"]

(* dispatch_to_meta up to its first await.  The debounce is recorded before *)
(* the semaphore is looked at.                                             *)
Dispatch(d, t) ==
  /\ call[d] = "idle"
  /\ \E n \in 0..Len(ticks) :
       /\ Expired(ticks, n)
       /\ \/ /\ Full(ticks, n, RateMax) \/ Recent(t)
             /\ ticks' = Rest(ticks, n)
             /\ Drop(d)
             /\ UNCHANGED <<last, passed>>
          \/ /\ ~Full(ticks, n, RateMax) /\ ~Recent(t)
             /\ ticks' = Append(Rest(ticks, n), now)
             /\ last' = IF t \in Traces THEN [last EXCEPT ![t] = now] ELSE last
             /\ passed' = Append(passed, [trace |-> t, at |-> now])
             /\ (free = 0 /\ Drop(d)) \/ Send(d)
  /\ UNCHANGED <<now, answer, handled, shown,
                 trusted, auth, enabled, bucket, admitted, found, stored, rows>>

(* The block of the semaphore is left.                                     *)
Release(d) == call' = [call EXCEPT ![d] = "done"] /\ free' = free + 1

(* The answer arrives; its insights are handled while the slot is held.    *)
Receive(d) ==
  /\ call[d] = "sent" /\ side[d] = "answered"
  /\ LET insights == SubSeq(found[d], 1,
                            IF Len(found[d]) > MaxInsights THEN MaxInsights ELSE Len(found[d]))
     IN \/ /\ insights = <<>>
           /\ Release(d)
           /\ UNCHANGED answer
        \/ /\ insights # <<>>
           /\ call' = [call EXCEPT ![d] = "handling"]
           /\ answer' = [answer EXCEPT ![d] = insights]
           /\ UNCHANGED free
  /\ UNCHANGED <<now, ticks, last, handled, shown, passed, sidecar>>

(* One insight of _handle_meta_insights: it is shown, or an exception is    *)
(* swallowed before it is.                                                 *)
Handle(d) ==
  /\ call[d] = "handling"
  /\ handled' = [handled EXCEPT ![d] = @ + 1]
  /\ LET k == answer[d][handled[d] + 1]
     IN shown' = [shown EXCEPT ![k] = @ + 1] \/ UNCHANGED shown
  /\ IF handled[d] + 1 = Len(answer[d]) THEN Release(d) ELSE UNCHANGED <<call, free>>
  /\ UNCHANGED <<now, ticks, last, answer, passed, sidecar>>

(* Mutation of CallFails: an exception leaves the slot taken. *)
CallFailsKeeping(d) ==
  /\ call[d] = "sent"
  /\ call' = [call EXCEPT ![d] = "done"]
  /\ UNCHANGED <<now, ticks, last, free, answer, handled, shown, passed, sidecar>>

(* Mutation of CallFails: a request has no timeout of its own. *)
CallFailsIfReached(d) ==
  /\ call[d] = "sent" /\ side[d] \in {"refused", "failed", "lost"}
  /\ Release(d)
  /\ UNCHANGED <<now, ticks, last, answer, handled, shown, passed, sidecar>>

(* The request times out, is refused, fails or is answered with an error:   *)
(* the exception is swallowed and the slot given back.                     *)
CallFails(d) ==
  /\ call[d] = "sent"
  /\ Release(d)
  /\ UNCHANGED <<now, ticks, last, answer, handled, shown, passed, sidecar>>

-------------------------------------------------------------------------------
(* The sidecar.                                                            *)

Storing(d) == side[d] = "storing"

(* No request is in its synchronous upsert loop.                           *)
LoopFree == \A d \in Dispatches : ~Storing(d)

Become(d, s) == side' = [side EXCEPT ![d] = s]

(* The request arrives.  It is refused when its body is too large or, with  *)
(* the wrong token, when tokens are required; a request with the right      *)
(* token does not count against the limiter.                               *)
Arrive(d) ==
  /\ side[d] = "wire" /\ LoopFree
  /\ \/ Become(d, "refused") /\ UNCHANGED <<bucket, admitted>>
     \/ trusted /\ Become(d, "analyzing") /\ UNCHANGED <<bucket, admitted>>
     \/ /\ ~auth /\ ~trusted
        /\ \E n \in 0..Len(bucket) :
             /\ Expired(bucket, n)
             /\ \/ /\ Full(bucket, n, LimiterMax)
                   /\ bucket' = Rest(bucket, n)
                   /\ Become(d, "refused")
                   /\ UNCHANGED admitted
                \/ /\ ~Full(bucket, n, LimiterMax)
                   /\ bucket' = Append(Rest(bucket, n), now)
                   /\ admitted' = Append(admitted, now)
                   /\ Become(d, "analyzing")
  /\ UNCHANGED <<now, backend, trusted, auth, enabled, found, stored, rows>>

(* The heuristics are over, each within its budget: a slow or failing one   *)
(* contributes nothing.  The upsert loop begins.                           *)
Analyzed(d) ==
  /\ side[d] = "analyzing" /\ LoopFree
  /\ \E f \in Findings : found' = [found EXCEPT ![d] = f]
  /\ Become(d, "storing")
  /\ UNCHANGED <<now, backend, trusted, auth, enabled, bucket, admitted, stored, rows>>

(* MERGE by dedup key: the row is created with 1 or counts one more.       *)
Merge(d) ==
  /\ stored[d] < Len(found[d])
  /\ stored' = [stored EXCEPT ![d] = @ + 1]
  /\ rows' = [rows EXCEPT ![found[d][stored[d] + 1]] = @ + 1]

(* upsert_insight returns.                                                 *)
Upsert(d) ==
  /\ Storing(d) /\ enabled
  /\ Merge(d)
  /\ UNCHANGED <<now, backend, trusted, auth, enabled, bucket, admitted, side, found>>

(* upsert_insight raises, before the row is written or after it, while the  *)
(* evidence is linked: the request is answered with 500.                   *)
UpsertFails(d) ==
  /\ Storing(d) /\ enabled /\ stored[d] < Len(found[d])
  /\ Merge(d) \/ UNCHANGED <<stored, rows>>
  /\ Become(d, "failed")
  /\ UNCHANGED <<now, backend, trusted, auth, enabled, bucket, admitted, found>>

(* Mutation of Reply: the answer does not wait for the upserts. *)
ReplyAtOnce(d) ==
  /\ Storing(d)
  /\ Become(d, "answered")
  /\ UNCHANGED <<now, backend, trusted, auth, enabled, bucket, admitted, found, stored, rows>>

(* All insights are returned, those that were there already too.  Without a *)
(* database upsert_insight does nothing.                                   *)
Reply(d) ==
  /\ Storing(d)
  /\ enabled => stored[d] = Len(found[d])
  /\ Become(d, "answered")
  /\ UNCHANGED <<now, backend, trusted, auth, enabled, bucket, admitted, found, stored, rows>>

(* The sidecar restarts: requests it was working on are lost, the database  *)
(* stays and may or may not be reached this time.                          *)
Restart ==
  /\ side' = [d \in Dispatches |->
                IF side[d] \in {"analyzing", "storing"} THEN "lost" ELSE side[d]]
  /\ enabled' \in BOOLEAN
  /\ bucket' = <<>> /\ admitted' = <<>>
  /\ UNCHANGED <<now, backend, trusted, auth, found, stored, rows>>

-------------------------------------------------------------------------------
Tick == now < MaxTime /\ now' = now + 1 /\ UNCHANGED <<backend, sidecar>>

MetaNext ==
  \/ \E d \in Dispatches, t \in Traces \cup {NoTrace} : Dispatch(d, t)
  \/ \E d \in Dispatches :
       \/ Receive(d) \/ Handle(d) \/ CallFails(d)
       \/ Arrive(d) \/ Analyzed(d) \/ Upsert(d) \/ UpsertFails(d) \/ Reply(d)
  \/ Restart
  \/ Tick

(* httpx ends every wait of a request with an answer or a timeout, and the  *)
(* persistence thread and the broadcast of an insight return.  Nothing is   *)
(* asked of the sidecar.                                                   *)
Fairness ==
  \A d \in Dispatches : WF_metaVars(Receive(d) \/ CallFails(d)) /\ WF_metaVars(Handle(d))

MetaSpec == MetaInit /\ [][MetaNext]_metaVars /\ Fairness

-------------------------------------------------------------------------------
(* Properties.                                                             *)

Times == 0..MaxTime

(* Every variable keeps its type.                                          *)
MetaTypeOK ==
  /\ now \in Times
  /\ ticks \in Seq(Times) /\ Len(ticks) <= RateMax
  /\ last \in [Traces -> Times \cup {Never}]
  /\ free \in 0..Slots
  /\ call \in [Dispatches -> {"idle", "dropped", "sent", "handling", "done"}]
  /\ answer \in [Dispatches -> Seq(Keys)]
  /\ handled \in [Dispatches -> Nat]
  /\ shown \in [Keys -> Nat]
  /\ passed \in Seq([trace : Traces \cup {NoTrace}, at : Times])
  /\ {trusted, auth, enabled} \subseteq BOOLEAN
  /\ bucket \in Seq(Times) /\ Len(bucket) <= LimiterMax
  /\ admitted \in Seq(Times)
  /\ side \in [Dispatches -> {"none", "wire", "refused", "analyzing", "storing",
                              "failed", "answered", "lost"}]
  /\ found \in [Dispatches -> Seq(Keys)]
  /\ stored \in [Dispatches -> Nat]
  /\ rows \in [Keys -> Nat]

(* meta_client.py: every slot of the semaphore is free or held by exactly   *)
(* one dispatch that waits for the sidecar or shows its insights, whatever  *)
(* ends the dispatch.                                                      *)
Busy == {d \in Dispatches : call[d] \in {"sent", "handling"}}
SlotsAccounted == free + Cardinality(Busy) = Slots

(* _passes_debounce: two dispatches of a trace are at least TraceGap apart, *)
(* however many dispatches of other traces come between.                   *)
TraceSpaced ==
  \A i, j \in DOMAIN passed :
    i < j /\ passed[i].trace = passed[j].trace /\ passed[i].trace \in Traces =>
      passed[j].at - passed[i].at >= TraceGap

(* _passes_debounce: any dispatch and the RateMax-th after it are more than *)
(* RateWindow apart: no window of that length holds more than RateMax.     *)
RateBounded ==
  \A i \in DOMAIN passed :
    i + RateMax \in DOMAIN passed => passed[i + RateMax].at - passed[i].at > RateWindow

(* meta_client.py: a dispatch passes three limits, of slots, of its trace   *)
(* and of all traces, and each holds whatever the others let through.      *)
DispatchesLimited == SlotsAccounted /\ TraceSpaced /\ RateBounded

(* LocalRateLimiter.allow: the same of the untrusted requests that one life *)
(* of the sidecar analyses.                                                *)
LimiterBounded ==
  \A i \in DOMAIN admitted :
    i + LimiterMax \in DOMAIN admitted => admitted[i + LimiterMax] - admitted[i] > RateWindow

(* InsightStore.upsert_insight: an occurrence_count is the number of times  *)
(* an analysis found the insight and reached the database, those of        *)
(* requests that failed later, or were given up or lost, included.         *)
RowsCountUpserts ==
  \A k \in Keys :
    rows[k] = Cardinality({u \in UNION {{d} \X (1..stored[d]) : d \in Dispatches} :
                             found[u[1]][u[2]] = k})

(* routes.py and _handle_meta_insights: an answer that is being shown has   *)
(* all its insights in the database, or none because the sidecar had no    *)
(* database; no answer was sent half stored.                               *)
ShownWasStored ==
  \A d \in Dispatches :
    call[d] = "handling" =>
      stored[d] = 0 \/ \A i \in DOMAIN answer[d] : rows[answer[d][i]] > 0

(* An insight's row counts what was upserted, and what viewers are shown is  *)
(* in the database, whichever requests fail, are given up or are lost.       *)
InsightsAccounted == RowsCountUpserts /\ ShownWasStored

(* dispatch_to_meta: a dispatch that holds a slot gives it back, though the *)
(* sidecar may never answer.                                               *)
SlotsReturn == \A d \in Dispatches : call[d] \in {"sent", "handling"} ~> call[d] = "done"
===============================================================================
