---------------------------- MODULE Intelligence ----------------------------
(* The state the intelligence service keeps between requests: the records   *)
(* of human oversight, the collective memory and the history of runs, in    *)
(* SQLite; the civilizations, their treaties and the cooldowns of actions,  *)
(* in memory; the philosophy and structure, in memory, with the eras, in    *)
(* SQLite. Each handler touches one of these, the requests about the events *)
(* of a swarm and its evolution none. The process may be started again at   *)
(* any time and forgets what was in memory.                                 *)
EXTENDS Oversight, Planetary, Civilization, Governor, CollectiveMemory, Insight, Evolution, Learning

CONSTANTS Uses      \* the kinds of clients of a run

VARIABLE use        \* the kind of requests the clients of this behaviour send

services == <<oversight, planetary, civilization, governor, collective, insight, evolution, learning>>
intelligence == <<services, use>>

Init ==
  /\ OversightInit /\ PlanetaryInit /\ CivilizationInit /\ GovernorInit /\ CollectiveInit
  /\ InsightInit /\ EvolutionInit /\ LearningInit
  /\ use \in Uses
  /\ use # "oversight" => deaths = 0    \* a seeding cut short shows to nobody else

OversightRequest ==
  /\ use = "oversight" /\ OversightNext
  /\ UNCHANGED <<planetary, civilization, governor, collective, insight, evolution, learning, use>>

PlanetaryRequest ==
  /\ use = "planetary" /\ PlanetaryNext
  /\ UNCHANGED <<oversight, civilization, governor, collective, insight, evolution, learning, use>>

StructureRequest ==
  /\ use = "structure" /\ StructureNext
  /\ UNCHANGED <<oversight, planetary, governor, collective, insight, evolution, learning, use>>

MemoryRequest ==
  /\ use = "memory" /\ MemoryNext
  /\ UNCHANGED <<oversight, planetary, governor, collective, insight, evolution, learning, use>>

GovernorRequest ==
  /\ use = "governor" /\ GovernorNext
  /\ UNCHANGED <<oversight, planetary, civilization, collective, insight, evolution, learning, use>>

CollectiveRequest ==
  /\ use = "collective" /\ CollectiveNext
  /\ UNCHANGED <<oversight, planetary, civilization, governor, insight, evolution, learning, use>>

InsightRequest ==
  /\ use = "insight" /\ InsightNext
  /\ UNCHANGED <<oversight, planetary, civilization, governor, collective, evolution, learning, use>>

EvolutionRequest ==
  /\ use = "evolution" /\ EvolutionNext
  /\ UNCHANGED <<oversight, planetary, civilization, governor, collective, insight, learning, use>>

LearningRequest ==
  /\ use = "learning" /\ LearningNext
  /\ UNCHANGED <<oversight, planetary, civilization, governor, collective, insight, evolution, use>>

\* A request that is cut off by the death of the process restarts it as well:
\* the actions above do so where it makes a difference to the tables.
Restart ==
  /\ OversightRestart /\ PlanetaryRestart /\ CivilizationRestart /\ GovernorRestart /\ InsightRestart
  /\ EvolutionRestart /\ LearningRestart
  /\ UNCHANGED <<deaths, collective, use>>

Next ==
  \/ OversightRequest \/ PlanetaryRequest \/ StructureRequest
  \/ MemoryRequest \/ GovernorRequest \/ CollectiveRequest \/ InsightRequest
  \/ EvolutionRequest \/ LearningRequest
  \/ Restart

Spec == Init /\ [][Next]_intelligence

=============================================================================
