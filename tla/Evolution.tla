----------------------------- MODULE Evolution ------------------------------
(* How a request to /evolution breeds variants of an orchestration: each    *)
(* genome is one mutation of the events of a swarm and its fitness is their *)
(* health. The handler is synchronous: the steps below are those of its     *)
(* loop, and what it draws at random is a choice. Fitness is in thousandths *)
(* and times are in seconds; that the code rounds fitness to hundredths is  *)
(* left out.                                                                *)
EXTENDS Analysis

CONSTANTS
  Samples,            \* what a request sends: [events, lasts], with events of no task
  Draws,              \* the mutations that are drawn
  PopulationSize, Generations, Elites, Patience, MaxBranches

AllMutations == <<"adjust_retry_policy", "reorder_pipeline", "merge_agents", "split_agent",
                  "shift_governance_threshold", "change_priority_weights", "introduce_buffer_agent">>

ASSUME EvolutionAssumption ==
  /\ \A s \in Samples : IsList(s.events)
  /\ None \notin ToSet(AllMutations) /\ Draws \subseteq ToSet(AllMutations)
  /\ Elites \in 1 .. PopulationSize /\ PopulationSize \in Nat
  /\ Generations \in 2 .. 8 /\ Patience \in Nat /\ MaxBranches \in Nat \ {0}

VARIABLE evolution    \* the request at work, None without one

EvolutionInit == evolution = None

-----------------------------------------------------------------------------
(* Genomes: [id, generation, parent, kind, param, fitness] *)

\* The parameters go on from the parent's where it has the same mutation.
Param(kind, parent) ==
  LET of(default) == IF parent.kind = kind THEN parent.param ELSE default IN
  CASE kind = "adjust_retry_policy" -> Most(1, of(3) - 1)
    [] kind = "shift_governance_threshold" -> Most(30, of(55) - 10)
    [] OTHER -> None

Buffered(es, refs) ==
  es \o Each(refs, LAMBDA n : [es[n] EXCEPT !.type = "TASK_COMPLETED", !.agent = "agent_buffer", !.took = None, !.target = None])

\* The events as they would be: with random copies there are several outcomes.
\* Only the mutation of the genome itself counts, never those of its ancestors.
Applied(es, kind, param) ==
  LET of(type) == {n \in DOMAIN es : es[n].type = type}
      anomalies == of("ANOMALY_DETECTED")
      prevented == {n \in anomalies : Cardinality({m \in anomalies : m <= n}) <= (Len(es) * param) \div 1000}
  IN CASE kind = "adjust_retry_policy" -> {Limited(es, of("TASK_RETRY"), param)}
       [] kind = "shift_governance_threshold" -> {FlattenSeq([n \in DOMAIN es |-> Some(n \notin prevented, es[n])])}
       [] kind = "introduce_buffer_agent" -> {Buffered(es, refs) : refs \in [1 .. Cap(3, Len(es)) -> DOMAIN es]}
       [] kind = "merge_agents" ->
            {Each(es, LAMBDA e : IF e.agent = "agent_validate" THEN [e EXCEPT !.agent = "agent_process"] ELSE e)}
       [] OTHER -> {es}

Params == {None, 1, 2, 30, 35, 45}

\* evaluateFitness, worked out beforehand for every sample and mutation.
Fitness ==
  [s \in Samples |-> [g \in {<<None, None>>} \cup ToSet(AllMutations) \X Params |->
    IF g[1] \in {"adjust_retry_policy", "shift_governance_threshold"} /\ g[2] = None THEN {}
    ELSE {HealthReport(es, s.lasts).overall : es \in Applied(s.events, g[1], g[2])}]]

Baseline(s) ==
  [id |-> 0, generation |-> 0, parent |-> None, kind |-> None, param |-> None,
   fitness |-> CHOOSE f \in Fitness[s][<<None, None>>] : TRUE]

Genome(id, generation, parent, kind, fitness) ==
  [id |-> id, generation |-> generation, parent |-> parent.id, kind |-> kind,
   param |-> Param(kind, parent), fitness |-> fitness]

FittestFirst(gs) == Ranked(gs, LAMBDA g : g.fitness)

AvgFitness(gs) == SumOf(Each(gs, LAMBDA g : g.fitness)) \div Len(gs)

FirstOfEach(gs) ==
  FlattenSeq([n \in DOMAIN gs |-> Some(\A m \in 1 .. n - 1 : gs[m].id # gs[n].id, gs[n])])

\* The mutations of the fittest fifth of all genomes, the most frequent first.
Dominant(all) ==
  LET top == SelectSeq(SubSeq(all, 1, Most(1, Len(all) \div 5)), LAMBDA g : g.kind # None) IN
  FirstFew(Ranked(Listed(Each(top, LAMBDA g : g.kind)), LAMBDA k : Len(OfKind(top, k))), 3)

-----------------------------------------------------------------------------
(* The digital twin of an evolution *)

\* 30 sin(1.3 i + g) for the steps i = 0 .. 9 and the generations g = 0 .. 7.
Noise == <<<<0, 29, 15, -21, -27, 6, 30, 10, -25, -23>>, <<25, 22, -13, -29, -2, 28, 18, -19, -28, 4>>,
           <<27, -5, -30, -11, 24, 24, -11, -30, -5, 27>>, <<4, -27, -19, 17, 28, -2, -29, -13, 22, 25>>,
           <<-23, -25, 9, 30, 7, -26, -21, 15, 29, 0>>, <<-29, 1, 29, 15, -21, -26, 7, 30, 9, -25>>,
           <<-8, 26, 22, -14, -29, -2, 28, 17, -19, -27>>, <<20, 27, -5, -30, -11, 24, 24, -11, -30, -4>>>>

DriftRate(kind) ==
  IF kind = None THEN -2
  ELSE [adjust_retry_policy |-> 8, shift_governance_threshold |-> 6, introduce_buffer_agent |-> 4, merge_agents |-> 5,
        change_priority_weights |-> 3, reorder_pipeline |-> 2, split_agent |-> 7][kind]

Trajectory(g) ==
  LET go(path, noise) == Append(path, Clamp((IF path = <<>> THEN g.fitness ELSE Last(path)) + DriftRate(g.kind) + noise)) IN
  FoldLeft(go, <<>>, Noise[g.generation + 1])

Branch(g) ==
  LET path == Trajectory(g) IN
  [genome |-> g.id, generation |-> g.generation, parent |-> g.parent, kind |-> g.kind,
   trajectory |-> path, fitness |-> SumOf(path) \div Len(path)]

DominantRisk(health) ==
  IF health < 450 THEN "health_degradation" ELSE IF health < 650 THEN "efficiency_drift" ELSE None

\* No step of a trajectory is large enough for an opportunity.
Opportunities(path) ==
  LET delta(n) == path[n] - path[n - 1]
      chance(n) == Some(delta(n) < -80, [at |-> n, kind |-> "preemptive_governance"])
                     \o Some(delta(n) > 60 /\ path[n] > 700, [at |-> n, kind |-> "evolution_window"])
  IN FirstFew(FlattenSeq([n \in 1 .. Len(path) - 1 |-> chance(n + 1)]), 5)

Forecast(branch) ==
  LET path == branch.trajectory
      failing == SelectSeq(Places(path), LAMBDA n : path[n] < 350)
  IN [risks |-> Each(path, DominantRisk), failure |-> IF failing = <<>> THEN None ELSE failing[1],
      opportunities |-> Opportunities(path), plan |-> Some(branch.kind # None, branch.kind)]

\* The weak branches are pruned, and the fittest of the others is recommended.
Pruned(branches, surviving) ==
  LET recommended == IF surviving = <<>> THEN branches[1] ELSE surviving[1] IN
  [explored |-> Len(branches), surviving |-> surviving, recommended |-> recommended, forecast |-> Forecast(recommended)]
Compared(branches) == Pruned(branches, FittestFirst(SelectSeq(branches, LAMBDA b : b.fitness >= 400)))
Twin(generations) == Compared(Each(FirstFew(FittestFirst(generations), MaxBranches), Branch))

-----------------------------------------------------------------------------
(* The handler *)

\* The fittest go on unchanged, but for their generation.
SurvivorsAsTheyCome(population, generation) ==
  Each(FirstFew(population, Elites), LAMBDA g : [g EXCEPT !.generation = generation])
Survivors(population, generation) ==
  Each(FirstFew(FittestFirst(population), Elites), LAMBDA g : [g EXCEPT !.generation = generation])

\* The baseline and its first mutations: the second to the sixth of the list.
Founders(first, fitness) ==
  LET kind(n) == AllMutations[(n % Len(AllMutations)) + 1]
      fit(n) == CHOOSE f \in fitness[<<kind(n), Param(kind(n), first)>>] : TRUE
  IN <<first>> \o [n \in 1 .. PopulationSize - 1 |-> Genome(n, 1, first, kind(n), fit(n))]

Begun(s, to, population) ==
  [sample |-> s, to |-> to, population |-> population, all |-> population, bred |-> PopulationSize,
   next |-> Survivors(population, 1), generation |-> 1, stalled |-> 0, trend |-> <<AvgFitness(population)>>, result |-> <<>>]

Evolve(s, to) == evolution = None /\ evolution' = Begun(s, to, Founders(Baseline(s), Fitness[s]))

Parent(n) == FittestFirst(evolution.population)[n]

Breed(n, kind) ==
  LET parent == Parent(n) IN
  /\ evolution # None /\ evolution.result = <<>> /\ Len(evolution.next) < PopulationSize
  /\ \E f \in Fitness[evolution.sample][<<kind, Param(kind, parent)>>] :
       evolution' = [evolution EXCEPT !.next = Append(@, Genome(evolution.bred, evolution.generation, parent, kind, f)),
                                      !.bred = @ + 1]

BestOf(gs) == FittestFirst(gs)[1].fitness

\* Both are sorted, the fittest first.
Result(population, all, trend, converged) ==
  [best |-> population[1], worst |-> Last(population), generations |-> FirstOfEach(all), trend |-> trend,
   converged |-> converged, dominant |-> Dominant(all), twin |-> None]

\* The generation is complete: the next one begins, unless three have not
\* become better by a hundredth or there have been enough.
Turn ==
  LET e == evolution
      stalled == IF BestOf(e.next) - BestOf(e.population) < 10 THEN e.stalled + 1 ELSE 0
      converged == BestOf(e.next) - BestOf(e.population) < 10 /\ stalled >= Patience
      over == converged \/ e.generation + 1 >= Generations
      all == e.all \o e.next
      trend == Append(e.trend, AvgFitness(e.next))
  IN /\ evolution # None /\ evolution.result = <<>> /\ Len(evolution.next) = PopulationSize
     /\ evolution' = [e EXCEPT !.population = e.next, !.all = all, !.stalled = stalled, !.trend = trend,
                               !.next = IF over THEN <<>> ELSE Survivors(e.next, e.generation + 1),
                               !.generation = IF over THEN @ ELSE @ + 1,
                               !.result = Some(over, Result(FittestFirst(e.next), FittestFirst(all), trend, converged))]

\* A request to the twin goes on from the result.
Explore ==
  /\ evolution # None /\ evolution.to = "twin" /\ evolution.result # <<>> /\ evolution.result[1].twin = None
  /\ evolution' = [evolution EXCEPT !.result[1].twin = Twin(evolution.result[1].generations)]

EvolutionNext ==
  \/ \E s \in Samples, to \in {"evolve", "twin"} : Evolve(s, to)
  \/ \E n \in 1 .. Elites, kind \in Draws : Breed(n, kind)
  \/ Turn
  \/ Explore

\* A request dies with the process.
EvolutionRestart == evolution' = None

-----------------------------------------------------------------------------
(* Properties *)

\* Of all genomes that were ever evaluated, the baseline among them, none is
\* fitter than the best genome of the answer: no generation loses what an
\* earlier one had found.
BestIsBest ==
  evolution # None /\ evolution.result # <<>> =>
    \A n \in DOMAIN evolution.all : evolution.all[n].fitness <= evolution.result[1].best.fitness

\* Whoever was bred in a generation has a parent in the generation before it
\* that fewer than Elites of that generation surpass, and nobody else lives on.
OnlyTheFittestBreed ==
  evolution # None =>
    LET all == evolution.all
        of(g) == {all[n] : n \in g * PopulationSize + 1 .. (g + 1) * PopulationSize}
        surpassing(x, g) == {y \in of(g) : y.fitness > x.fitness}
        last == (Len(all) \div PopulationSize) - 1
    IN \A g \in 1 .. last : \A x \in of(g) :
         \E y \in of(g - 1) : /\ y.id = x.id \/ y.id = x.parent
                              /\ Cardinality(surpassing(y, g - 1)) < Elites

\* Selection works: only the fittest breed, and the best ever found is the answer.
SelectionWorks == BestIsBest /\ OnlyTheFittestBreed

=============================================================================
