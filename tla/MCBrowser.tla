----------------------------- MODULE MCBrowser -----------------------------
(* Two traces; the page sees the end of a failing run, a run that ends as  *)
(* next starts, or handoffs between two agents and a decision.             *)
EXTENDS Browser

CONSTANTS s1, B1, F1, X1, E1, S2, D1, H1, H2, t1, t2, a, b

From(kind, t, source, verified) ==
  [trace |-> t, kind |-> kind, source |-> source, verified |-> verified, spoofed |-> FALSE]
Of(kind, t) == From(kind, t, "runtime", TRUE)

MCInfo ==
  (B1 :> Of("STEP_STARTED", t1)) @@
  (F1 :> Of("STEP_FAILED", t1)) @@ (X1 :> Of("SWARM_FAILED", t1)) @@
  (E1 :> Of("SWARM_COMPLETED", t1)) @@ (S2 :> Of("SWARM_STARTED", t2)) @@
  (D1 :> From("DECISION", t1, "derived", FALSE)) @@
  (H1 :> From("TASK_HANDOFF", t2, "synthetic", FALSE)) @@
  (H2 :> From("TASK_HANDOFF", t2, "unknown", FALSE))

Handoff(from, to) == [agent |-> from, from |-> from, to |-> to]
MCSays == (H1 :> Handoff(a, b)) @@ (H2 :> Handoff(b, a)) @@
          [e \in Event |-> [agent |-> b, from |-> None, to |-> None]]
MCStepOf == [e \in Event |-> "fetch"]
MCScripts == {<<B1, F1, X1>>, <<B1, E1, S2>>, <<H1, D1, H2>>}
MCSnapshots == {(a :> "FAILED")}

(* The scripts are in the order the backend publishes.                     *)
ASSUME InOrderAssumption == RunsInOrder
=============================================================================
