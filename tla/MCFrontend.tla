----------------------------- MODULE MCFrontend -----------------------------
(* The clients in a browser for TLC, one at a time: the hook of the page's   *)
(* sockets, the client of the SDK in another application, the operations    *)
(* views, and two panels that follow the store.                             *)
EXTENDS WsClient, Sdk, Viz, Panels, TLC

VARIABLE client     \* which of them this behavior is of

MCZones == <<"INTAKE", "DISPATCH">>
MCPipeline == ("INTAKE" :> {"DISPATCH"}) @@ ("DISPATCH" :> {})
MCAgents == <<"agent-1", "agent-2">>
MCRoles == {"intake-agent", "dispatch-agent", "hitl-agent"}
MCRoleOf == ("INTAKE" :> "intake-agent") @@ ("DISPATCH" :> "dispatch-agent")

Message(kind, agent, node, step) == [kind |-> kind, agent |-> agent, node |-> node, step |-> step]
MCMessages == {Message("AGENT_MOVE", "agent-1", "DISPATCH", Nil),
               Message("AGENT_SPAWN", "stranger", Nil, 1),
               Message("ANOMALY", Nil, Nil, Nil), Message("META_INSIGHT", Nil, Nil, Nil)}

MCTraceOf == ("request-1" :> "trace-1") @@ ("request-2" :> "trace-2")

Init ==
  /\ WsInit /\ SdkInit /\ VizInit /\ PanelsInit
  /\ client \in {"page", "application", "views", "ecosystem", "diagnostics"}

Others(vars) == UNCHANGED <<client, vars>>

(* What bounds two of the parts further: the last click on Live is made     *)
(* only without a canvas, and of the events the diagnostics panel looks at  *)
(* none but the latest.                                                     *)
Views == VizNext /\ (lives' < MaxLive \/ engine' = NoEngine)
Diagnostics == DiagnosticsNext /\ arrived' + 1 < MaxArrivals

Next ==
  \/ client = "page"        /\ WsNext        /\ Others(<<sdkVars, vizVars, panelVars>>)
  \/ client = "application" /\ SdkNext       /\ Others(<<wsVars, vizVars, panelVars>>)
  \/ client = "views"       /\ Views         /\ Others(<<wsVars, sdkVars, panelVars>>)
  \/ client = "ecosystem"   /\ EcosystemNext /\ Others(<<wsVars, sdkVars, vizVars>>)
  \/ client = "diagnostics" /\ Diagnostics   /\ Others(<<wsVars, sdkVars, vizVars>>)

Spec == Init /\ [][Next]_<<wsVars, sdkVars, vizVars, panelVars, client>> /\ WsFairness

-----------------------------------------------------------------------------
(* In each of the three clients that reconnect by themselves (useWebSocket,  *)
(* WebSocketConnector and VizBridge) only clicks and calls multiply          *)
(* connections: sockets that live or close and timers that will open one are *)
(* no more than the times somebody asked to connect, through replacements,   *)
(* closes, disconnects and timers that nothing names any longer; nor is a    *)
(* subscriber told of an event more often than that.                         *)
OnlyClicksMultiply == ConnectionsBounded /\ LinksBounded /\ ToldPerConnection /\ SourcesBounded
=============================================================================
