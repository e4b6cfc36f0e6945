--------------------------- MODULE MCReplayService ---------------------------
(* The replay service for TLC, one part at a time: its player, of events    *)
(* stored in an order that is not that of their times, and its ingestion, of *)
(* two swarms, with a batch of both, an end that is followed by another, and *)
(* batches that overlap.                                                    *)
EXTENDS ReplayPlayer, ReplayIngest, TLC

VARIABLE part     \* which of them this behavior is of

MCAt == <<1, 3, 2, 2>>

Say(s, kind, at, n) == [swarm |-> s, kind |-> kind, at |-> at, sequence |-> n]
MCInfo == [e1 |-> Say("s1", "plain", 2, 1), e2 |-> Say("s1", "retry", 4, 2),
           e3 |-> Say("s1", "SWARM_FAILED", 5, 3), e4 |-> Say("s1", "SWARM_COMPLETED", 1, 4),
           e5 |-> Say("s2", "anomaly", 3, 1)]
MCBatches == {<<"e1", "e5", "e2">>, <<"e3", "e4">>, <<"e2", "e4">>, <<"e3">>, <<"e2", "e2">>}

MCInit == Init /\ IngestInit /\ part \in {"player", "ingestion"}

MCNext ==
  \/ part = "player"    /\ Next       /\ UNCHANGED <<part, ingestVars>>
  \/ part = "ingestion" /\ IngestNext /\ UNCHANGED <<part, vars>>

MCSpec == MCInit /\ [][MCNext]_<<vars, ingestVars, part>> /\ Fairness
================================================================================
