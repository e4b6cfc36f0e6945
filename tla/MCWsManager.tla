----------------------------- MODULE MCWsManager -----------------------------
(* WsManager for TLC. With authentication on, either every client is super   *)
(* and all broadcasts run, or clients and the message have any tenants and   *)
(* only the first broadcast runs: the tenants are then all that matters.     *)
EXTENDS WsManager

First == CHOOSE b \in Task : TRUE
Unscoped(b) == bc[b].tenant = None

Trusted ==
  /\ \A c \in Client : context[c] = [tenant |-> None, super |-> TRUE]
  /\ \A b \in Task : Unscoped(b)

MCInit == ManagerInit /\ \A b \in Task \ {First} : Unscoped(b)
MCNext == ManagerNext /\ (Trusted \/ \A b \in Task \ {First} : bc'[b].pc = "idle")
MCSpec == MCInit /\ [][MCNext]_managerVars /\ ManagerFairness
==============================================================================
