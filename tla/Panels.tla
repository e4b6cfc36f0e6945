------------------------------- MODULE Panels -------------------------------
(* Two panels of the dashboard that follow the store's list of events by    *)
(* React effects: AgentEcosystemPanel, which keeps a map of agents, and     *)
(* DiagnosticsPanel, which keeps records, a selection and the detail of the *)
(* record selected.                                                         *)
(* The store appends events in batches, drops the oldest and forgets those  *)
(* of traces that it evicts; an effect runs later, and sees what is left.   *)
EXTENDS Integers, Sequences, FiniteSets, SequencesExt, FiniteSetsExt

CONSTANTS
  Performers,    \* agents that events or the registry name
  Few, Many,     \* how many events the ecosystem's effect takes (5 and 10)
  Requests,      \* requests with a diagnostic, by id
  TraceOf,       \* the trace of each request
  NoId,
  Kept,          \* what the store keeps of events
  MaxArrivals    \* bound of the model: events that arrive

Traces == {TraceOf[r] : r \in Requests}

ASSUME PanelsAssumption ==
  /\ Kept \in Nat /\ MaxArrivals \in Nat
  /\ Few \in Nat /\ Many \in Nat /\ Few <= Many
  /\ NoId \notin Requests \cup Traces \cup Performers /\ Requests \cap Traces = {}

VARIABLES
  order,      \* eventOrder of the store, the latest last: [id, about]
  arrived,    \* how many events the store has been given
  selection,  \* selectedRequestId and selectedTraceId of the store
  ecosystem,  \* of the ecosystem: lastEventId, the last event shown of each agent and,
              \* as history, the arrivals since its effect and the most there were
  diagnostics \* of the diagnostics panel: see DiagnosticsOpened

panelVars == <<order, arrived, selection, ecosystem, diagnostics>>

EcosystemOpened(behind) ==
  [cursor |-> 0, shown |-> <<>>, behind |-> behind, burst |-> 0]

\* Records by request, whether the list is shown, the selection, the detail, the
\* loads that are not aborted, the failure shown, and the effects to run.
DiagnosticsOpened ==
  [records |-> {}, list |-> "loading", selected |-> NoId, detail |-> NoId, loading |-> {},
   failed |-> FALSE, changed |-> {"events", "detail", "selection"}]

PanelsInit ==
  /\ order = <<>> /\ arrived = 0 /\ selection = [request |-> NoId, trace |-> NoId]
  /\ ecosystem = EcosystemOpened(0)
  /\ diagnostics = DiagnosticsOpened

-----------------------------------------------------------------------------
(* The store                                                                *)

Newest(s) == IF Len(s) > Kept THEN SubSeq(s, Len(s) - Kept + 1, Len(s)) ELSE s

Numbered(batch) == [i \in DOMAIN batch |-> [id |-> arrived + i, about |-> batch[i]]]

\* addBatchEvents gives a batch and evictOldestEvents what is too much; an event
\* about none of those is nothing to the panel.
Gathers(abouts) ==
  \E n \in 1..(MaxArrivals - arrived) : \E batch \in [1..n -> abouts \cup {NoId}] :
    /\ order' = Newest(order \o Numbered(batch))
    /\ arrived' = arrived + n
    /\ ecosystem' = [ecosystem EXCEPT !.behind = @ + n]

\* A trace is evicted or outlives its time, here one of a single event.
Forgets ==
  /\ \E i \in DOMAIN order : order' = RemoveAt(order, i)
  /\ UNCHANGED <<arrived, ecosystem>>

StoreTurns(abouts) ==
  /\ Gathers(abouts) \/ Forgets
  /\ diagnostics' = [diagnostics EXCEPT !.changed = @ \cup {"events"}]
  /\ UNCHANGED selection

-----------------------------------------------------------------------------
(* AgentEcosystemPanel: of an agent's state it keeps which event told it.   *)

Places(id) == {j \in DOMAIN order : order[j].id = id}

AfterNever(cursor) ==        \* nothing when the cursor's event is gone
  {i \in DOMAIN order : \E j \in Places(cursor) : i > j}

\* The places after the cursor's, or the last few when the store has forgotten that one.
After(cursor) ==
  IF Places(cursor) = {} THEN {i \in DOMAIN order : i > Len(order) - Few}
  ELSE {i \in DOMAIN order : \A j \in Places(cursor) : i > j}

\* The last of the events at some places that is about an agent tells its state.
LastTold(shown, places) ==
  LET about(a) == {i \in places : order[i].about = a}
  IN [a \in DOMAIN shown \cup ({order[i].about : i \in places} \ {NoId}) |->
        IF about(a) = {} THEN shown[a] ELSE order[Max(about(a))].id]

\* The cursor moves to the last event even if not all before it are looked at.
EcosystemEffect ==
  /\ order # <<>>
  /\ LET new == After(ecosystem.cursor)
         looked == {i \in new : i < Min(new) + Many}
     IN ecosystem' =
          [cursor |-> IF new = {} THEN ecosystem.cursor ELSE Last(order).id,
           shown |-> LastTold(ecosystem.shown, looked),
           behind |-> 0, burst |-> Max({ecosystem.burst, ecosystem.behind})]
  /\ UNCHANGED <<order, arrived, selection, diagnostics>>

\* A poll of the registry is answered, whenever: agents it names appear idle.
RegistryAnswers ==
  /\ \E named \in SUBSET Performers :
       ecosystem' = [ecosystem EXCEPT !.shown =
                       [a \in DOMAIN @ \cup named |-> IF a \in DOMAIN @ THEN @[a] ELSE 0]]
  /\ UNCHANGED <<order, arrived, selection, diagnostics>>

EcosystemReopened ==
  /\ ecosystem' = EcosystemOpened(Len(order))
  /\ UNCHANGED <<order, arrived, selection, diagnostics>>

EcosystemNext ==
  StoreTurns(Performers) \/ EcosystemEffect \/ RegistryAnswers \/ EcosystemReopened

-----------------------------------------------------------------------------
(* DiagnosticsPanel                                                         *)

\* The selection made elsewhere: of a request, else of a trace.
External == IF selection.request # NoId THEN selection.request ELSE selection.trace

\* The load of an earlier selection is aborted, and its answer ignored.
ReloadedBesides(known) == diagnostics.loading \cup (IF known THEN {diagnostics.selected} ELSE {})
Reloaded(known) == IF known THEN {diagnostics.selected} ELSE {}

\* React runs, in their order, the effects whose dependencies have changed:
\* the latest event's, the detail's and the selection's, all of which see the
\* state that was rendered.
DiagnosticsEffects ==
  LET d == diagnostics
      told == "events" \in d.changed /\ order # <<>> /\ Last(order).about \in Requests
      latest == IF told THEN Last(order).about ELSE NoId
      chosen == told /\ TraceOf[latest] \in {selection.request, selection.trace}
      redo == "detail" \in d.changed
      known == d.selected \in d.records
      follow == "selection" \in d.changed /\ External \notin {NoId, d.selected}
      selected == IF follow THEN External ELSE IF chosen THEN latest ELSE d.selected
  IN /\ d.changed # {}
     /\ diagnostics' =
          [d EXCEPT !.records = IF told THEN @ \cup {latest} ELSE @,
                    !.selected = selected,
                    !.detail = IF redo /\ ~known THEN NoId ELSE IF chosen THEN latest ELSE @,
                    !.loading = IF redo THEN Reloaded(known) ELSE @,
                    !.failed = @ /\ ~redo,
                    !.changed = (IF told THEN {"detail"} ELSE {})
                                \cup (IF selected # d.selected THEN {"detail", "selection"} ELSE {})]
     /\ UNCHANGED <<order, arrived, selection, ecosystem>>

\* The list as the backend had it takes the place of what events have told since.
ListAnswers ==
  /\ diagnostics.list = "loading"
  /\ \/ \E stored \in SUBSET Requests :
          diagnostics' = [diagnostics EXCEPT !.list = "shown", !.records = stored, !.changed = @ \cup {"detail"}]
     \/ diagnostics' = [diagnostics EXCEPT !.list = "failed"]
  /\ UNCHANGED <<order, arrived, selection, ecosystem>>

DetailAnswers(r) ==
  /\ r \in diagnostics.loading
  /\ \/ diagnostics' = [diagnostics EXCEPT !.loading = @ \ {r}, !.detail = r]
     \/ diagnostics' = [diagnostics EXCEPT !.loading = @ \ {r}, !.failed = TRUE]
  /\ UNCHANGED <<order, arrived, selection, ecosystem>>

\* A row is clicked: its request is selected as request and as trace.
RowClicked(r) ==
  /\ r \in diagnostics.records /\ diagnostics.list = "shown"
  /\ selection' = [request |-> r, trace |-> r]
  /\ diagnostics' = [diagnostics EXCEPT !.selected = r,
       !.changed = @ \cup (IF selection = selection' THEN {} ELSE {"events", "selection"})
                     \cup (IF diagnostics.selected = r THEN {} ELSE {"detail", "selection"})]
  /\ UNCHANGED <<order, arrived, ecosystem>>

\* Another panel selects a trace, or a request, or nothing.
SelectedElsewhere ==
  /\ \/ \E t \in Traces \cup {NoId} : selection' = [selection EXCEPT !.trace = t]
     \/ \E r \in Requests \cup {NoId} : selection' = [selection EXCEPT !.request = r]
  /\ selection' # selection
  /\ diagnostics' = [diagnostics EXCEPT !.changed = @ \cup {"events", "selection"}]
  /\ UNCHANGED <<order, arrived, ecosystem>>

\* The panel is left for another view and opened again.
DiagnosticsReopened ==
  /\ diagnostics' = DiagnosticsOpened
  /\ UNCHANGED <<order, arrived, selection, ecosystem>>

DiagnosticsNext ==
  \/ StoreTurns(Requests) \/ DiagnosticsEffects \/ ListAnswers \/ SelectedElsewhere \/ DiagnosticsReopened
  \/ \E r \in Requests : DetailAnswers(r) \/ RowClicked(r)

-----------------------------------------------------------------------------
(* Properties                                                               *)

\* As long as no more events came between two runs of its effect than it takes
\* when it has lost its place, the map of agents misses nothing that the store
\* still has and shows no agent as an older event left it, although the store
\* evicts or forgets the very event its cursor names (AgentEcosystemPanel).
NothingMissedOutsideBursts ==
  (ecosystem.behind = 0 /\ ecosystem.burst <= Few) =>
    \A i \in DOMAIN order : order[i].about # NoId =>
      /\ order[i].about \in DOMAIN ecosystem.shown
      /\ ecosystem.shown[order[i].about] >= order[i].id

\* Whatever order clicks, events, the list and details arrive in, a detail on
\* the screen is of the record selected, once nothing is on its way, unless the
\* panel says that it could not be loaded (DiagnosticsPanel).
DetailFits ==
  (diagnostics.changed = {} /\ diagnostics.loading = {} /\ ~diagnostics.failed) =>
    diagnostics.detail \in {NoId, diagnostics.selected}
=============================================================================
