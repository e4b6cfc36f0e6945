---------------------------- MODULE Civilization ----------------------------
(* Civilizational memory and self-structuring in the intelligence service:  *)
(* the governing philosophy and the organizational structure, kept once for *)
(* all swarms and only in memory, and the eras of each swarm and the        *)
(* patterns learnt from them, kept in SQLite with the open era of each      *)
(* swarm remembered in memory. Scores are percentages. A handler runs to    *)
(* its end before the next starts; the process may die between two of its   *)
(* statements.                                                              *)
EXTENDS Swarms, Integers, Sequences, FiniteSets

CONSTANTS
  Readings,      \* what the events of a request may give: [health, anomaly, retry, entropy]
  MaxEras, MaxGenerations, MaxLives

\* An era is remembered by its row, which None is not.
ASSUME RowAssumption == None \notin Nat

VARIABLES
  philosophy,    \* currentPhilosophy: None or [ideology, generation]
  generation,    \* philosophyGeneration
  structure,     \* currentStructure: None or how many active institutions of each kind
  activeEras,    \* swarm |-> the row of its era, or None
  eras,          \* civilization_eras: [swarm, kind, ideology, peak, trough, open, life]
  patterns,      \* civilization_patterns: [swarm, kind, ideology] |-> recurrences
  life           \* history: how often the service has been started

civilization == <<philosophy, generation, structure, activeEras, eras, patterns, life>>

Forgotten ==
  /\ philosophy' = None /\ generation' = 0 /\ structure' = None
  /\ activeEras' = [s \in Swarm |-> None] /\ life' = life + 1

CivilizationInit ==
  /\ philosophy = None /\ generation = 0 /\ structure = None
  /\ activeEras = [s \in Swarm |-> None] /\ life = 1
  /\ eras = <<>> /\ patterns = <<>>

CivilizationRestart == life < MaxLives /\ Forgotten /\ UNCHANGED <<eras, patterns>>

-----------------------------------------------------------------------------
(* Philosophy                                                               *)

Ideology == {"decentralized_autonomy", "federated_republic", "hierarchical_mandate",
             "consensus_democracy", "evolutionary_meritocracy", "adaptive_anarchy"}

\* POST /civilization/philosophy: the fittest of five seeds, or of the current
\* philosophy and four mutants of it, a mutant having any ideology. Which is
\* the fittest depends on the scores; the current one wins a tie.
EvolvePhilosophy ==
  /\ generation < MaxGenerations
  /\ generation' = generation + 1
  /\ \E i \in Ideology :
       philosophy' \in
         IF philosophy = None
         THEN IF i = "adaptive_anarchy" THEN {} ELSE {[ideology |-> i, generation |-> generation']}
         ELSE {philosophy, [ideology |-> i, generation |-> generation']}
  /\ UNCHANGED <<structure, activeEras, eras, patterns, life>>

-----------------------------------------------------------------------------
(* Institutions                                                             *)

InstitutionKind == {"oversight_council", "strategic_assembly", "evolutionary_board",
                    "research_guild", "crisis_tribunal"}

Warranted(r) ==
  (IF r.anomaly > 15 THEN {"oversight_council"} ELSE {}) \cup
  (IF r.health > 60 THEN {"strategic_assembly"} ELSE {}) \cup
  (IF r.retry < 25 /\ r.health > 55 THEN {"evolutionary_board"} ELSE {}) \cup
  (IF r.entropy > 35 THEN {"research_guild"} ELSE {}) \cup
  (IF r.health < 35 THEN {"crisis_tribunal"} ELSE {})

\* deriveInstitutions looks at the institutions there are, whichever swarm's they are.
DeriveInstitutions(r, existing) == {k \in Warranted(r) : existing[k] = 0}
With(existing, founded) == [k \in InstitutionKind |-> existing[k] + (IF k \in founded THEN 1 ELSE 0)]
Existing == IF structure = None THEN [k \in InstitutionKind |-> 0] ELSE structure

\* POST /civilization/structure only adds institutions.
EvolveStructure(r) ==
  /\ structure' = With(Existing, DeriveInstitutions(r, Existing))
  /\ UNCHANGED <<philosophy, generation, activeEras, eras, patterns, life>>

\* POST /civilization/institutions also dissolves the tribunals when the swarm
\* that asks is healthy; before any structure its institutions are only reported.
FormInstitutions(r) ==
  LET kept == IF r.health > 55 THEN [Existing EXCEPT !["crisis_tribunal"] = 0] ELSE Existing IN
  /\ structure' = IF structure = None THEN None ELSE With(kept, DeriveInstitutions(r, Existing))
  /\ UNCHANGED <<philosophy, generation, activeEras, eras, patterns, life>>

-----------------------------------------------------------------------------
(* Eras                                                                     *)

ClassifyEraKind(h, era) ==
  LET delta == 2 * h - (era.peak + era.trough) IN    \* doubled
  IF h < 30 THEN "crisis"
  ELSE IF h > 80 /\ delta > 10 THEN "golden_age"
  ELSE IF delta < -24 /\ h < 55 THEN "decline"
  ELSE IF delta > 30 /\ era.kind = "crisis" THEN "renaissance"
  ELSE IF delta > 16 /\ era.kind = "decline" THEN "reformation"
  ELSE IF delta < -16 /\ era.kind = "golden_age" THEN "transformation"
  ELSE IF h > 60 /\ era.kind = "founding" THEN "expansion"
  ELSE era.kind

NewEra(s, kind, h, ideology) ==
  [swarm |-> s, kind |-> kind, ideology |-> ideology, peak |-> h, trough |-> h, open |-> TRUE, life |-> life]

Pattern(era) == [swarm |-> era.swarm, kind |-> era.kind, ideology |-> era.ideology]

\* extractLessons: golden ages and crises make patterns, or reinforce them.
Reinforced(era) ==
  IF era.kind \notin {"golden_age", "crisis"} THEN patterns
  ELSE [p \in DOMAIN patterns \cup {Pattern(era)} |->
          (IF p \in DOMAIN patterns THEN patterns[p] ELSE 0) + (IF p = Pattern(era) THEN 1 ELSE 0)]

Governing(ideology) ==
  IF ideology # None THEN ideology ELSE IF philosophy # None THEN philosophy.ideology ELSE "federated_republic"

\* POST /civilization/memory/record within the era of the swarm.
Snapshot(s, h) ==
  LET i == activeEras[s] IN
  /\ i # None /\ ClassifyEraKind(h, eras[i]) = eras[i].kind
  /\ eras' = [eras EXCEPT ![i].peak = IF h > @ THEN h ELSE @, ![i].trough = IF h < @ THEN h ELSE @]
  /\ UNCHANGED <<philosophy, generation, structure, activeEras, patterns, life>>

FoundEraOnly(s, h, ideology) ==   \* the era is never remembered
  /\ activeEras[s] = None /\ Len(eras) < MaxEras
  /\ eras' = Append(eras, NewEra(s, "founding", h, Governing(ideology)))
  /\ UNCHANGED <<philosophy, generation, structure, activeEras, patterns, life>>

\* The first snapshot of a swarm since the start of the service.
FoundEra(s, h, ideology) ==
  /\ activeEras[s] = None /\ Len(eras) < MaxEras
  /\ eras' = Append(eras, NewEra(s, "founding", h, Governing(ideology)))
  /\ activeEras' = [activeEras EXCEPT ![s] = Len(eras')]
  /\ UNCHANGED <<philosophy, generation, structure, patterns, life>>

\* A snapshot that ends the era of the swarm and opens the next, unless the
\* process dies when it has closed the old one, or has learnt from it as well.
ChangeEra(s, h, ideology) ==
  LET i == activeEras[s]
      closed == [eras EXCEPT ![i].open = FALSE]
      kind == ClassifyEraKind(h, eras[i])
  IN
  /\ i # None /\ kind # eras[i].kind /\ Len(eras) < MaxEras
  /\ \/ /\ eras' = Append(closed, NewEra(s, kind, h, Governing(ideology)))
        /\ activeEras' = [activeEras EXCEPT ![s] = Len(eras')]
        /\ patterns' = Reinforced(eras[i])
        /\ UNCHANGED <<philosophy, generation, structure, life>>
     \/ /\ life < MaxLives /\ Forgotten /\ eras' = closed
        /\ patterns' \in {patterns, Reinforced(eras[i])}

StructureNext ==
  \/ EvolvePhilosophy
  \/ \E r \in Readings : EvolveStructure(r) \/ FormInstitutions(r)

MemoryNext ==
  \/ EvolvePhilosophy
  \/ \E s \in Swarm, r \in Readings :
       \/ Snapshot(s, r.health)
       \/ \E i \in {None, "adaptive_anarchy"} : FoundEra(s, r.health, i) \/ ChangeEra(s, r.health, i)

-----------------------------------------------------------------------------
(* Properties                                                               *)

\* A life of the service leaves at most one era of a swarm open, the one it
\* remembers, and the open eras of earlier lives are never closed: the memory
\* reported has at most one open era per start of the service.
OneOpenEraPerLife ==
  /\ \A i, j \in DOMAIN eras :
       (eras[i].open /\ eras[j].open /\ eras[i].swarm = eras[j].swarm /\ eras[i].life = eras[j].life) => i = j
  /\ \A s \in Swarm : activeEras[s] # None =>
       LET era == eras[activeEras[s]] IN era.open /\ era.swarm = s /\ era.life = life

\* A pattern recurs as often as eras of its kind and ideology have ended in the
\* swarm; all patterns together miss an era per crash at most.
PatternsCountEras ==
  LET ended(p) == {i \in DOMAIN eras : ~eras[i].open /\ Pattern(eras[i]) = p}
      lasting == {i \in DOMAIN eras : ~eras[i].open /\ eras[i].kind \in {"golden_age", "crisis"}}
      recurrences == UNION {{p} \X (1 .. patterns[p]) : p \in DOMAIN patterns}
  IN /\ \A p \in DOMAIN patterns : patterns[p] <= Cardinality(ended(p))
     /\ Cardinality(lasting) < Cardinality(recurrences) + life

\* However the swarms' readings alternate between the two handlers that found
\* institutions, the structure never has two of a kind: a swarm finds the
\* institutions of another in its place.
OneInstitutionPerKind ==
  structure # None => \A k \in InstitutionKind : structure[k] <= 1

\* The records of the civilization agree over crashes and restarts, whatever order
\* the swarms' readings come in: eras, the one remembered, the patterns learnt
\* from those that ended, and the institutions found.
HistoryAgrees == OneOpenEraPerLife /\ PatternsCountEras /\ OneInstitutionPerKind
=============================================================================
