------------------------- MODULE IntelligenceProofs -------------------------
(***************************************************************************)
(* Proofs about Intelligence, for any swarms, people, constraints, reports *)
(* and lessons, and any number of rows, eras, sessions and restarts: the   *)
(* records of human oversight, verdicts and ballots, the eras of a swarm,  *)
(* the cooldowns of the governors, the graph of lessons, what the          *)
(* civilizations of a federation agree on, how genomes are bred and which  *)
(* of them is the best, and the memory of runs.                            *)
(***************************************************************************)
EXTENDS AnalysisProofs

-----------------------------------------------------------------------------
(* Human oversight: what every table holds.                                *)

Tally == [decisions : Nat, approvals : Nat]
Ticket ==
  [swarm : Swarm, risk : {"critical", "high", "medium", "low"}, expired : BOOLEAN,
   status : {"pending", "auto_approved", "approved", "vetoed"}, reviewer : Person \cup {None, "system"}]
Rule == Range(DefaultConstraints) \cup NewConstraints
Violation == [swarm : Swarm, deed : Deed, of : Nat, severity : {"blocked", "warning", "none"}]
Policy == [swarm : Swarm, supersedes : Nat \cup {None}, active : BOOLEAN, override : BOOLEAN]
Account == [swarm : Swarm, kind : {"intervention", "institution_formation"}]
Ballot == [ticket : Nat, by : Person, decision : {"approved", "vetoed"}, known : BOOLEAN]

OversightTypes ==
  /\ operators \in [DOMAIN operators -> Tally]
  /\ tickets \in Seq(Ticket)
  /\ constraints \in Seq(Rule) /\ constraints # <<>>
  /\ violations \in Seq(Violation)
  /\ policies \in Seq(Policy)
  /\ interventions \in Nat /\ amendments \in Nat
  /\ lineage \in Seq(Account)
  /\ ballots \in Seq(Ballot)
  /\ deaths \in Nat

(* A refusal that is recorded names the constraint that refused, one that  *)
(* blocks whatever the health.                                             *)
RefusalsNamed ==
  \A n \in DOMAIN violations : violations[n].severity = "blocked" =>
    /\ violations[n].of \in DOMAIN constraints
    /\ constraints[violations[n].of].kind \in Blocking
    /\ Applies(constraints[violations[n].of], violations[n].deed)

(* Reviews are of requests there are; those that count, of operators that  *)
(* are registered.                                                         *)
BallotsCast ==
  \A n \in DOMAIN ballots :
    /\ ballots[n].ticket \in DOMAIN tickets
    /\ ballots[n].known => ballots[n].by \in DOMAIN operators

OversightInv ==
  /\ OversightTypes /\ RefusalsNamed /\ BallotsCast
  /\ RecordsKeepUp /\ PoliciesInForce /\ DecisionsCounted /\ LastBallotStands

OversightStep ==
  \/ OversightNext
  \/ OversightRestart /\ UNCHANGED deaths
  \/ UNCHANGED oversight

(* The constraints the service comes with.                                 *)
LEMMA DefaultRules == DefaultConstraints \in Seq(Rule) /\ DefaultConstraints # <<>>
<1> DEFINE R == Range(DefaultConstraints)
<1>1. DefaultConstraints \in Seq(R)
  <2>1. \A i \in 1 .. 8 : DefaultConstraints[i] \in R
    BY DEF DefaultConstraints, Range
  <2>2. Len(DefaultConstraints) = 8 /\ DOMAIN DefaultConstraints = 1 .. 8
    BY DEF DefaultConstraints
  <2>3. DefaultConstraints = [i \in 1 .. 8 |-> DefaultConstraints[i]]
    BY DEF DefaultConstraints
  <2> HIDE DEF R
  <2> QED
    BY <2>1, <2>2, <2>3
<1>2. DefaultConstraints # <<>>
  BY DEF DefaultConstraints
<1>3. R \subseteq Rule
  BY DEF Rule
<1> HIDE DEF R
<1> QED
  BY <1>1, <1>2, <1>3

LEMMA OversightTyped == OversightInit => OversightTypes
<1> SUFFICES ASSUME OversightInit PROVE OversightTypes
  OBVIOUS
<1>1. NewOperator \in Tally
  BY DEF NewOperator, Tally
<1>2. operators \in [DOMAIN operators -> Tally] /\ deaths \in Nat
  BY <1>1 DEF OversightInit, SeedingCutShort, SeedOperators
<1>3. constraints \in Seq(Rule) /\ constraints # <<>>
  <2>1. CASE constraints = DefaultConstraints
    BY <2>1, DefaultRules
  <2>2. ASSUME NEW n \in 1 .. Len(DefaultConstraints) - 1, constraints = SubSeq(DefaultConstraints, 1, n)
        PROVE  constraints \in Seq(Rule) /\ constraints # <<>>
    <3>1. PICK d : d = DefaultConstraints
      OBVIOUS
    <3>2. d \in Seq(Rule) /\ n \in 1 .. Len(d) - 1 /\ constraints = SubSeq(d, 1, n)
      BY <2>2, <3>1, DefaultRules
    <3>3. constraints \in Seq(Rule) /\ Len(constraints) = n
      BY ONLY <3>2
    <3> QED
      BY <3>3
  <2> QED
    BY <2>1, <2>2 DEF OversightInit, SeedingCutShort, SeedConstraints
<1> QED
  BY <1>2, <1>3 DEF OversightInit, OversightTypes

LEMMA OversightTypesKept ==
  ASSUME OversightTypes, OversightStep
  PROVE  OversightTypes'
<1>1. ASSUME NEW s \in Swarm, NEW d \in Deed, NEW h \in Health, RequestApproval(s, d, h)
      PROVE  OversightTypes'
  <2>1. NewTicket(s, ClassifyRisk(d, h)) \in Ticket
    BY DEF NewTicket, ClassifyRisk, RequiresHuman, Ticket
  <2>2. Entry(s, "intervention") \in Account
    BY DEF Entry, Account
  <2>3. tickets' \in Seq(Ticket)
    BY <1>1, <2>1 DEF RequestApproval, OversightTypes
  <2>4. lineage' \in Seq(Account)
    <3>1. lineage' \in {lineage, Append(lineage, Entry(s, "intervention"))}
      BY <1>1, Zenon DEF RequestApproval
    <3>2. lineage \in Seq(Account)
      BY DEF OversightTypes
    <3> QED
      BY <2>2, <3>1, <3>2
  <2> QED
    BY <1>1, <2>3, <2>4 DEF RequestApproval, OversightTypes, Lives, Dies
<1>2. ASSUME NEW s \in Swarm, NEW d \in Deed, NEW h \in Health, Evaluate(s, d, h)
      PROVE  OversightTypes'
  <2> DEFINE broken == Violated(d, h)
             row(i) == [swarm |-> s, deed |-> d, of |-> i, severity |-> Severity(constraints[i], h)]
  <2>1. PICK order \in [1 .. Cardinality(broken) -> broken], m \in 0 .. Cardinality(broken) :
          violations' = violations \o [n \in 1 .. m |-> row(order[n])]
    BY <1>2 DEF Evaluate
  <2>2. broken \in SUBSET (1 .. Len(constraints)) /\ Len(constraints) \in Nat
    BY DEF Violated, OversightTypes
  <2>3. Cardinality(broken) \in Nat
    BY <2>2, CountPlaces
  <2>4. \A n \in 1 .. m : row(order[n]) \in Violation
    BY <2>1, <2>2, <2>3 DEF Violation, Severity
  <2> HIDE DEF broken, row
  <2>5. [n \in 1 .. m |-> row(order[n])] \in Seq(Violation)
    BY <2>3, <2>4
  <2>6. violations' \in Seq(Violation)
    BY <2>1, <2>5 DEF OversightTypes
  <2> QED
    BY <1>2, <2>6 DEF Evaluate, OversightTypes, Lives, Dies
<1>3. ASSUME NEW i \in DOMAIN tickets, Expire(i)
      PROVE  OversightTypes'
  <2>1. tickets' \in Seq(Ticket)
    <3>1. tickets[i] \in Ticket
      BY DEF OversightTypes
    <3>2. [tickets[i] EXCEPT !.expired = TRUE] \in Ticket
      BY <3>1 DEF Ticket
    <3> QED
      BY <1>3, <3>2 DEF Expire, OversightTypes
  <2> QED
    BY <1>3, <2>1 DEF Expire, OversightTypes
<1>4. ASSUME NEW i \in DOMAIN tickets, NEW p \in Person, NEW v \in {"approved", "vetoed"},
             ReviewApproval(i, p, v)
      PROVE  OversightTypes'
  <2>1. tickets' \in Seq(Ticket)
    <3>1. tickets[i] \in Ticket
      BY DEF OversightTypes
    <3>2. [tickets[i] EXCEPT !.status = v, !.reviewer = p] \in Ticket
      BY <3>1 DEF Ticket
    <3>3. tickets' = [tickets EXCEPT ![i] = [tickets[i] EXCEPT !.status = v, !.reviewer = p]]
      BY <1>4, <3>1 DEF ReviewApproval, OversightTypes, Ticket
    <3> QED
      BY <3>2, <3>3 DEF OversightTypes
  <2>2. operators' \in [DOMAIN operators' -> Tally]
    <3>1. p \in DOMAIN operators => Counted(operators[p], v) \in Tally
      BY DEF Counted, OversightTypes, Tally
    <3> QED
      BY <1>4, <3>1 DEF ReviewApproval, OversightTypes
  <2>3. ballots' \in Seq(Ballot)
    <3>1. [ticket |-> i, by |-> p, decision |-> v,
           known |-> p \in DOMAIN operators /\ deaths' = deaths] \in Ballot
      BY DEF Ballot, OversightTypes
    <3> QED
      BY <1>4, <3>1 DEF ReviewApproval, OversightTypes
  <2> QED
    BY <1>4, <2>1, <2>2, <2>3 DEF ReviewApproval, OversightTypes, Lives, Dies
<1>5. ASSUME NEW p \in Person, UpsertOperator(p)
      PROVE  OversightTypes'
  BY <1>5 DEF UpsertOperator, OversightTypes, NewOperator, Tally
<1>6. ASSUME NEW c \in NewConstraints, AddConstraint(c)
      PROVE  OversightTypes'
  <2>1. constraints' \in Seq(Rule) /\ constraints' # <<>>
    <3>1. constraints' = Append(constraints, c)
      BY <1>6 DEF AddConstraint
    <3>2. constraints \in Seq(Rule)
      BY DEF OversightTypes
    <3>3. c \in Rule
      BY DEF Rule
    <3> QED
      BY ONLY <3>1, <3>2, <3>3
  <2> QED
    BY <1>6, <2>1 DEF AddConstraint, OversightTypes
<1>7. ASSUME NEW s \in Swarm, NEW i \in Nat \cup {None}, NEW o \in BOOLEAN
      PROVE  Enacted(s, i, o) \in Seq(Policy)
  <2> DEFINE held == [j \in DOMAIN policies |->
                        IF j = i THEN [policies[j] EXCEPT !.active = FALSE] ELSE policies[j]]
             new == [swarm |-> s, supersedes |-> i, active |-> TRUE, override |-> o]
  <2>1. ASSUME NEW j \in DOMAIN policies PROVE held[j] \in Policy
    <3>1. policies[j] \in Policy
      BY DEF OversightTypes
    <3>2. [policies[j] EXCEPT !.active = FALSE] \in Policy
      BY <3>1 DEF Policy
    <3> QED
      BY <3>1, <3>2
  <2>2. new \in Policy
    BY <1>7 DEF Policy
  <2>3. Enacted(s, i, o) = Append(held, new)
    BY DEF Enacted
  <2>4. DOMAIN held = 1 .. Len(policies) /\ Len(policies) \in Nat
    BY DEF OversightTypes
  <2> HIDE DEF held, new
  <2>5. held \in Seq(Policy)
    <3>1. held = [j \in 1 .. Len(policies) |-> held[j]]
      BY <2>4 DEF held
    <3> QED
      BY <2>1, <2>4, <3>1
  <2> QED
    BY <2>2, <2>3, <2>5
<1>8. ASSUME NEW s \in Swarm, NEW i \in DOMAIN policies \cup {None}, EnactPolicy(s, i)
      PROVE  OversightTypes'
  <2>1. policies' \in Seq(Policy)
    <3>1. i \in Nat \cup {None} /\ policies \in Seq(Policy)
      BY DEF OversightTypes
    <3>2. CASE policies' = Enacted(s, i, FALSE)
      BY <1>7, <3>1, <3>2
    <3>3. CASE i # None /\ policies' = [policies EXCEPT ![i].active = FALSE]
      <4>1. i \in DOMAIN policies
        BY <3>3
      <4>2. policies[i] \in Policy
        BY <3>1, <4>1
      <4>3. [policies[i] EXCEPT !.active = FALSE] \in Policy
        BY <4>2 DEF Policy
      <4> QED
        BY <3>1, <3>3, <4>1, <4>3
    <3> QED
      BY <1>8, <3>2, <3>3 DEF EnactPolicy
  <2>2. deaths' \in Nat
    <3>1. deaths' \in {deaths, deaths + 1} /\ deaths \in Nat
      BY <1>8 DEF EnactPolicy, OversightTypes, Lives, Dies
    <3> QED
      BY ONLY <3>1
  <2> QED
    BY <1>8, <2>1, <2>2 DEF EnactPolicy, OversightTypes
<1>9. ASSUME NEW s \in Swarm, Intervene(s)
      PROVE  OversightTypes'
  <2>1. policies' \in Seq(Policy)
    <3>1. policies' \in {policies, Enacted(s, None, TRUE)}
      BY <1>9 DEF Intervene
    <3> QED
      BY <1>7, <3>1 DEF OversightTypes
  <2>2. interventions' \in Nat /\ deaths' \in Nat
    <3>1. interventions' = interventions + 1 /\ (deaths' = deaths \/ deaths' = deaths + 1)
      BY <1>9 DEF Intervene, Lives, Dies
    <3>2. interventions \in Nat /\ deaths \in Nat
      BY DEF OversightTypes
    <3> QED
      BY ONLY <3>1, <3>2
  <2> QED
    BY <1>9, <2>1, <2>2 DEF Intervene, OversightTypes
<1>10. ASSUME NEW s \in Swarm, Amend(s) \/ Explain(s)
       PROVE  OversightTypes'
  <2>1. lineage' \in Seq(Account)
    <3>1. \/ \E k \in {"intervention", "institution_formation"} : lineage' = Append(lineage, Entry(s, k))
          \/ lineage' = lineage
      BY <1>10 DEF Amend, Explain
    <3>2. \A k \in {"intervention", "institution_formation"} : Entry(s, k) \in Account
      BY DEF Entry, Account
    <3>3. lineage \in Seq(Account)
      BY DEF OversightTypes
    <3> QED
      BY ONLY <3>1, <3>2, <3>3
  <2>2. amendments' \in Nat /\ deaths' \in Nat
    <3>1. amendments' \in {amendments, amendments + 1} /\ deaths' \in {deaths, deaths + 1}
      BY <1>10 DEF Amend, Explain, Lives, Dies
    <3>2. amendments \in Nat /\ deaths \in Nat
      BY DEF OversightTypes
    <3> QED
      BY ONLY <3>1, <3>2
  <2> QED
    BY <1>10, <2>1, <2>2 DEF Amend, Explain, OversightTypes
<1>11. ASSUME OversightRestart, UNCHANGED deaths
       PROVE  OversightTypes'
  <2>1. operators' \in [DOMAIN operators' -> Tally]
    BY <1>11 DEF OversightRestart, SeedOperators, OversightTypes, NewOperator, Tally
  <2>2. constraints' = constraints
    BY <1>11 DEF OversightRestart, SeedConstraints, OversightTypes
  <2> QED
    BY <1>11, <2>1, <2>2 DEF OversightRestart, OversightTypes
<1>12. CASE UNCHANGED oversight
  BY <1>12 DEF oversight, OversightTypes
<1> QED
  BY <1>1, <1>2, <1>3, <1>4, <1>5, <1>6, <1>8, <1>9, <1>10, <1>11, <1>12
  DEF OversightStep, OversightNext

(* Constraints stay in their places.                                       *)
LEMMA ConstraintsStay ==
  ASSUME OversightTypes, OversightStep
  PROVE  \A i \in DOMAIN constraints : i \in DOMAIN constraints' /\ constraints'[i] = constraints[i]
<1>1. ASSUME NEW c \in NewConstraints, AddConstraint(c)
      PROVE  \A i \in DOMAIN constraints : i \in DOMAIN constraints' /\ constraints'[i] = constraints[i]
  <2>1. constraints' = Append(constraints, c)
    BY <1>1 DEF AddConstraint
  <2>2. constraints \in Seq(Rule)
    BY DEF OversightTypes
  <2>3. c \in Rule
    BY DEF Rule
  <2> QED
    BY <2>1, <2>2, <2>3
<1>2. ASSUME OversightRestart
      PROVE  constraints' = constraints
  BY <1>2 DEF OversightRestart, SeedConstraints, OversightTypes
<1>3. CASE UNCHANGED constraints
  BY <1>3
<1> QED
  BY <1>1, <1>2, <1>3, Zenon
  DEF OversightStep, OversightNext, oversight, RequestApproval, Evaluate, Expire, ReviewApproval,
      UpsertOperator, EnactPolicy, Intervene, Amend, Explain

LEMMA RefusalsNamedKept ==
  ASSUME OversightTypes, RefusalsNamed, OversightStep
  PROVE  RefusalsNamed'
<1> DEFINE named(v) == v.severity = "blocked" =>
             /\ v.of \in DOMAIN constraints
             /\ constraints[v.of].kind \in Blocking
             /\ Applies(constraints[v.of], v.deed)
           still(v) == v.severity = "blocked" =>
             /\ v.of \in DOMAIN constraints'
             /\ constraints'[v.of].kind \in Blocking
             /\ Applies(constraints'[v.of], v.deed)
<1>1. \A v : named(v) => still(v)
  BY ConstraintsStay
<1>2. ASSUME NEW s \in Swarm, NEW d \in Deed, NEW h \in Health, Evaluate(s, d, h)
      PROVE  \A n \in DOMAIN violations' : named(violations'[n])
  <2> DEFINE broken == Violated(d, h)
             row(i) == [swarm |-> s, deed |-> d, of |-> i, severity |-> Severity(constraints[i], h)]
  <2>1. PICK order \in [1 .. Cardinality(broken) -> broken], m \in 0 .. Cardinality(broken) :
          violations' = violations \o [n \in 1 .. m |-> row(order[n])]
    BY <1>2 DEF Evaluate
  <2>2. \A i \in broken : named(row(i))
    BY DEF Violated, Severity
  <2>3. broken \in SUBSET (1 .. Len(constraints)) /\ Len(constraints) \in Nat
    BY DEF Violated, OversightTypes
  <2>4. Cardinality(broken) \in Nat
    BY <2>3, CountPlaces
  <2> HIDE DEF broken
  <2> DEFINE new == [n \in 1 .. m |-> row(order[n])]
  <2>5. \A n \in DOMAIN violations : named(violations[n])
    BY DEF RefusalsNamed
  <2>6. /\ Len(new) = m /\ DOMAIN new = 1 .. m
        /\ \A n \in 1 .. m : named(new[n])
    <3>1. m \in Nat /\ \A n \in 1 .. m : order[n] \in broken
      BY <2>1, <2>4
    <3> HIDE DEF named
    <3> QED
      BY <2>2, <2>4, <3>1
  <2>7. violations \in Seq(Violation)
    BY DEF OversightTypes
  <2>8. violations' = violations \o new
    BY <2>1
  <2> HIDE DEF named, new, row, broken
  <2>9. /\ DOMAIN violations' = 1 .. Len(violations) + Len(new)
        /\ \A n \in 1 .. Len(violations) + Len(new) :
             violations'[n] = IF n <= Len(violations) THEN violations[n] ELSE new[n - Len(violations)]
    BY <2>4, <2>6, <2>7, <2>8
  <2>10. Len(violations) \in Nat /\ DOMAIN violations = 1 .. Len(violations)
    BY <2>7
  <2> QED
    BY <2>4, <2>5, <2>6, <2>9, <2>10
<1>3. \A n \in DOMAIN violations' : named(violations'[n])
  <2> HIDE DEF named
  <2>1. (\E s \in Swarm, d \in Deed, h \in Health : Evaluate(s, d, h)) \/ UNCHANGED violations
    BY Zenon DEF OversightStep, OversightNext, oversight, RequestApproval, Expire, ReviewApproval,
      UpsertOperator, AddConstraint, EnactPolicy, Intervene, Amend, Explain, OversightRestart
  <2>2. CASE UNCHANGED violations
    BY <2>2 DEF RefusalsNamed, named
  <2> QED
    BY <1>2, <2>1, <2>2
<1>4. \A n \in DOMAIN violations' : still(violations'[n])
  <2> HIDE DEF named, still
  <2> QED
    BY <1>1, <1>3
<1> QED
  BY <1>4 DEF RefusalsNamed, Applies

(* Refusals that name their constraint stand.                              *)
LEMMA RefusalsStand ==
  ASSUME RefusalsNamed
  PROVE  RefusedStaysRefused
<1> SUFFICES ASSUME NEW n \in DOMAIN violations, violations[n].severity = "blocked", NEW h \in Health
             PROVE  ~Allowed(violations[n].deed, h)
  BY DEF RefusedStaysRefused
<1> DEFINE i == violations[n].of
<1>1. i \in DOMAIN constraints /\ constraints[i].kind \in Blocking /\ Applies(constraints[i], violations[n].deed)
  BY DEF RefusalsNamed
<1>2. Severity(constraints[i], h) # "none"
  BY <1>1 DEF Severity
<1> QED
  BY <1>1, <1>2 DEF Allowed, Violated

-----------------------------------------------------------------------------
(* Human oversight: reviews and verdicts.                                  *)

(* The row t of request i is as the last of the ballots b on it says.      *)
Settled(t, i, b) ==
  LET cast == {n \in DOMAIN b : b[n].ticket = i} IN
  IF cast = {} THEN t.status \in {"pending", "auto_approved"}
  ELSE \E n \in cast : (\A m \in cast : m <= n) /\ t.status = b[n].decision /\ t.reviewer = b[n].by

(* One row never holds the two approvals a consensus takes.                *)
LEMMA OneRowOneVote ==
  ASSUME NEW status, NEW reviewer
  PROVE  ~(Cardinality(IF status = "approved" THEN {reviewer} ELSE {}) >= 2)
BY FS_EmptySet, FS_Singleton

LEMMA ConsensusPending ==
  ASSUME NEW i
  PROVE  /\ ComputeConsensus(i, 2) \in {"vetoed", "pending"}
         /\ ComputeConsensus(i, 2)' \in {"vetoed", "pending"}
<1>1. ~(Cardinality(IF tickets[i].status = "approved" THEN {tickets[i].reviewer} ELSE {}) >= 2)
  BY OneRowOneVote
<1>2. ~(Cardinality(IF tickets'[i].status = "approved" THEN {tickets'[i].reviewer} ELSE {}) >= 2)
  BY OneRowOneVote
<1> QED
  BY <1>1, <1>2 DEF ComputeConsensus

LEMMA VerdictsSettled ==
  LastBallotStands <=> \A i \in DOMAIN tickets : Settled(tickets[i], i, ballots)
BY ConsensusPending DEF LastBallotStands, Settled

LEMMA VerdictsSettledNext ==
  LastBallotStands' <=> \A i \in DOMAIN tickets' : Settled(tickets'[i], i, ballots')
BY ConsensusPending DEF LastBallotStands, Settled

(* Which steps touch the requests and their reviews.                       *)
LEMMA ReviewSteps ==
  ASSUME OversightStep
  PROVE  \/ \E s \in Swarm, d \in Deed, h \in Health : RequestApproval(s, d, h)
         \/ \E i \in DOMAIN tickets : Expire(i)
         \/ \E i \in DOMAIN tickets, p \in Person, v \in {"approved", "vetoed"} : ReviewApproval(i, p, v)
         \/ UNCHANGED <<tickets, ballots>>
BY Zenon DEF OversightStep, OversightNext, oversight, Evaluate, UpsertOperator, AddConstraint,
   EnactPolicy, Intervene, Amend, Explain, OversightRestart

LEMMA LastBallotKept ==
  ASSUME OversightTypes, BallotsCast, LastBallotStands, OversightStep
  PROVE  LastBallotStands'
<1>1. \A i \in DOMAIN tickets : Settled(tickets[i], i, ballots)
  BY VerdictsSettled
<1>2. \A n \in DOMAIN ballots : ballots[n].ticket \in DOMAIN tickets
  BY DEF BallotsCast
<1>3. /\ tickets \in Seq(Ticket) /\ DOMAIN tickets = 1 .. Len(tickets) /\ Len(tickets) \in Nat
      /\ ballots \in Seq(Ballot) /\ DOMAIN ballots = 1 .. Len(ballots) /\ Len(ballots) \in Nat
  BY DEF OversightTypes
<1>4. ASSUME NEW s \in Swarm, NEW d \in Deed, NEW h \in Health, RequestApproval(s, d, h)
      PROVE  \A i \in DOMAIN tickets' : Settled(tickets'[i], i, ballots')
  <2> DEFINE new == NewTicket(s, ClassifyRisk(d, h))
  <2>1. tickets' = Append(tickets, new) /\ ballots' = ballots
    BY <1>4 DEF RequestApproval
  <2>2. new.status \in {"pending", "auto_approved"}
    BY DEF NewTicket
  <2> HIDE DEF new
  <2>3. DOMAIN tickets' = 1 .. Len(tickets) + 1 /\ tickets'[Len(tickets) + 1] = new
    BY <1>3, <2>1
  <2>4. \A i \in 1 .. Len(tickets) : tickets'[i] = tickets[i]
    BY <1>3, <2>1
  <2>5. {n \in DOMAIN ballots : ballots[n].ticket = Len(tickets) + 1} = {}
    BY <1>2, <1>3
  <2>6. Settled(new, Len(tickets) + 1, ballots)
    BY <2>2, <2>5 DEF Settled
  <2> QED
    BY <1>1, <1>3, <2>1, <2>3, <2>4, <2>6
<1>5. ASSUME NEW i \in DOMAIN tickets, Expire(i)
      PROVE  \A j \in DOMAIN tickets' : Settled(tickets'[j], j, ballots')
  <2>1. tickets' = [tickets EXCEPT ![i].expired = TRUE] /\ ballots' = ballots
    BY <1>5 DEF Expire
  <2>2. \A j \in DOMAIN tickets : tickets[j] \in Ticket
    BY <1>3
  <2>3. \A j \in DOMAIN tickets :
          tickets'[j].status = tickets[j].status /\ tickets'[j].reviewer = tickets[j].reviewer
    BY <2>1, <2>2 DEF Ticket
  <2>4. DOMAIN tickets' = DOMAIN tickets
    BY <2>1
  <2> QED
    BY <1>1, <2>1, <2>3, <2>4 DEF Settled
<1>6. ASSUME NEW i \in DOMAIN tickets, NEW p \in Person, NEW v \in {"approved", "vetoed"},
             ReviewApproval(i, p, v)
      PROVE  \A j \in DOMAIN tickets' : Settled(tickets'[j], j, ballots')
  <2>1. PICK k \in BOOLEAN :
          ballots' = Append(ballots, [ticket |-> i, by |-> p, decision |-> v, known |-> k])
    BY <1>6, Zenon DEF ReviewApproval
  <2>2. tickets' = [tickets EXCEPT ![i].status = v, ![i].reviewer = p]
    BY <1>6 DEF ReviewApproval
  <2>3. \A j \in DOMAIN tickets : tickets[j] \in Ticket
    BY <1>3
  <2>4. /\ DOMAIN tickets' = DOMAIN tickets
        /\ tickets'[i].status = v /\ tickets'[i].reviewer = p
        /\ \A j \in DOMAIN tickets \ {i} : tickets'[j] = tickets[j]
    BY <2>2, <2>3 DEF Ticket
  <2> DEFINE b == [ticket |-> i, by |-> p, decision |-> v, known |-> k]
             last == Len(ballots) + 1
  <2>5. b.ticket = i /\ b.by = p /\ b.decision = v
    OBVIOUS
  <2> HIDE DEF b
  <2>6. /\ DOMAIN ballots' = 1 .. last /\ ballots'[last] = b
        /\ \A n \in 1 .. Len(ballots) : ballots'[n] = ballots[n]
    BY <1>3, <2>1 DEF b
  <2>7. Settled(tickets'[i], i, ballots')
    <3> DEFINE cast == {n \in DOMAIN ballots' : ballots'[n].ticket = i}
    <3>1. last \in cast /\ \A m \in cast : m <= last
      BY <1>3, <2>5, <2>6
    <3>2. tickets'[i].status = ballots'[last].decision /\ tickets'[i].reviewer = ballots'[last].by
      BY <2>4, <2>5, <2>6
    <3> QED
      BY <3>1, <3>2 DEF Settled
  <2>8. ASSUME NEW j \in DOMAIN tickets \ {i}
        PROVE  Settled(tickets'[j], j, ballots')
    <3>1. {n \in DOMAIN ballots' : ballots'[n].ticket = j} = {n \in DOMAIN ballots : ballots[n].ticket = j}
      BY <1>3, <2>5, <2>6
    <3>2. \A n \in DOMAIN ballots : ballots'[n] = ballots[n]
      BY <1>3, <2>6
    <3>3. tickets'[j] = tickets[j] /\ Settled(tickets[j], j, ballots)
      BY <1>1, <2>4
    <3> QED
      BY <3>1, <3>2, <3>3 DEF Settled
  <2> QED
    BY <2>4, <2>7, <2>8
<1>7. CASE UNCHANGED <<tickets, ballots>>
  BY <1>1, <1>7, VerdictsSettledNext
<1> QED
  BY <1>4, <1>5, <1>6, <1>7, ReviewSteps, VerdictsSettledNext

LEMMA BallotsCastKept ==
  ASSUME OversightTypes, BallotsCast, OversightStep
  PROVE  BallotsCast'
<1>1. /\ tickets \in Seq(Ticket) /\ DOMAIN tickets = 1 .. Len(tickets) /\ Len(tickets) \in Nat
      /\ ballots \in Seq(Ballot) /\ DOMAIN ballots = 1 .. Len(ballots) /\ Len(ballots) \in Nat
  BY DEF OversightTypes
<1>2. \A n \in DOMAIN ballots :
        ballots[n].ticket \in DOMAIN tickets /\ (ballots[n].known => ballots[n].by \in DOMAIN operators)
  BY DEF BallotsCast
<1>3. DOMAIN tickets \subseteq DOMAIN tickets'
  <2>1. ASSUME NEW t, tickets' = Append(tickets, t) PROVE DOMAIN tickets \subseteq DOMAIN tickets'
    BY <1>1, <2>1
  <2>2. (\E t : tickets' = Append(tickets, t)) \/ DOMAIN tickets' = DOMAIN tickets
    BY ReviewSteps DEF RequestApproval, Expire, ReviewApproval
  <2> QED
    BY <2>1, <2>2
<1>4. DOMAIN operators \subseteq DOMAIN operators'
  <2>1. ASSUME NEW p \in Person, UpsertOperator(p) PROVE DOMAIN operators \subseteq DOMAIN operators'
    BY <2>1 DEF UpsertOperator
  <2>2. ASSUME OversightRestart PROVE DOMAIN operators \subseteq DOMAIN operators'
    BY <2>2 DEF OversightRestart, SeedOperators
  <2>3. ASSUME NEW i, NEW p, NEW v, ReviewApproval(i, p, v) PROVE DOMAIN operators \subseteq DOMAIN operators'
    BY <2>3 DEF ReviewApproval
  <2>4. CASE UNCHANGED operators
    BY <2>4
  <2> QED
    BY <2>1, <2>2, <2>3, <2>4, Zenon DEF OversightStep, OversightNext, oversight, RequestApproval,
       Expire, Evaluate, AddConstraint, EnactPolicy, Intervene, Amend, Explain
<1>5. ASSUME NEW i \in DOMAIN tickets, NEW p \in Person, NEW v \in {"approved", "vetoed"},
             ReviewApproval(i, p, v)
      PROVE  BallotsCast'
  <2>1. PICK k \in BOOLEAN : /\ ballots' = Append(ballots, [ticket |-> i, by |-> p, decision |-> v, known |-> k])
                             /\ k => p \in DOMAIN operators
    BY <1>5, Zenon DEF ReviewApproval
  <2> DEFINE b == [ticket |-> i, by |-> p, decision |-> v, known |-> k]
             last == Len(ballots) + 1
  <2>2. b.ticket = i /\ b.by = p /\ b.known = k
    OBVIOUS
  <2> HIDE DEF b
  <2>3. /\ DOMAIN ballots' = 1 .. last /\ ballots'[last] = b
        /\ \A n \in 1 .. Len(ballots) : ballots'[n] = ballots[n]
    BY <1>1, <2>1 DEF b
  <2> QED
    BY <1>1, <1>2, <1>3, <1>4, <2>1, <2>2, <2>3 DEF BallotsCast
<1>6. CASE UNCHANGED ballots
  BY <1>2, <1>3, <1>4, <1>6 DEF BallotsCast
<1> QED
  BY <1>5, <1>6, ReviewSteps DEF RequestApproval, Expire

-----------------------------------------------------------------------------
(* Human oversight: the operators' totals.                                 *)

(* The ballots of b that count for operator p, those that approve, and a   *)
(* tally o of both.                                                        *)
CountedOf(p, b) == {n \in DOMAIN b : b[n].by = p /\ b[n].known}
ApprovedOf(p, b) == {n \in CountedOf(p, b) : b[n].decision = "approved"}
Tallied(o, p, b) ==
  o.decisions = Cardinality(CountedOf(p, b)) /\ o.approvals = Cardinality(ApprovedOf(p, b))

LEMMA TotalsTallied ==
  /\ DecisionsCounted <=> \A p \in DOMAIN operators : Tallied(operators[p], p, ballots)
  /\ DecisionsCounted' <=> \A p \in DOMAIN operators' : Tallied(operators'[p], p, ballots')
BY DEF DecisionsCounted, Tallied, CountedOf, ApprovedOf

(* An operator nobody's counted reviews name has nothing to its name.      *)
LEMMA NothingCounted ==
  ASSUME NEW p, NEW b, CountedOf(p, b) = {}
  PROVE  Tallied(NewOperator, p, b)
<1>1. ApprovedOf(p, b) = {}
  BY DEF ApprovedOf
<1> QED
  BY <1>1, FS_EmptySet DEF Tallied, NewOperator

LEMMA DecisionsCountedKept ==
  ASSUME OversightTypes, BallotsCast, DecisionsCounted, OversightStep
  PROVE  DecisionsCounted'
<1>1. \A p \in DOMAIN operators : Tallied(operators[p], p, ballots)
  BY TotalsTallied
<1>2. /\ ballots \in Seq(Ballot) /\ DOMAIN ballots = 1 .. Len(ballots) /\ Len(ballots) \in Nat
      /\ operators \in [DOMAIN operators -> Tally]
  BY DEF OversightTypes
<1>3. \A p : p \notin DOMAIN operators => CountedOf(p, ballots) = {}
  BY DEF BallotsCast, CountedOf
<1>4. ASSUME NEW i \in DOMAIN tickets, NEW p \in Person, NEW v \in {"approved", "vetoed"},
             ReviewApproval(i, p, v)
      PROVE  \A q \in DOMAIN operators' : Tallied(operators'[q], q, ballots')
  <2> DEFINE k == p \in DOMAIN operators /\ deaths' = deaths
             b == [ticket |-> i, by |-> p, decision |-> v, known |-> k]
             last == Len(ballots) + 1
  <2>1. ballots' = Append(ballots, b)
    BY <1>4 DEF ReviewApproval
  <2>2. b.by = p /\ b.known = k /\ b.decision = v
    OBVIOUS
  <2>3. k => operators' = [operators EXCEPT ![p] = Counted(@, v)]
    BY <1>4 DEF ReviewApproval, Dies, OversightTypes
  <2>4. ~k => operators' = operators
    BY <1>4, Zenon DEF ReviewApproval, Lives
  <2>5. k => p \in DOMAIN operators
    OBVIOUS
  <2>6. k \in BOOLEAN
    OBVIOUS
  <2> HIDE DEF b, k
  <2>7. /\ DOMAIN ballots' = 1 .. last /\ ballots'[last] = b
        /\ \A n \in 1 .. Len(ballots) : ballots'[n] = ballots[n]
    BY <1>2, <2>1
  <2>8. ASSUME NEW q, ~(k /\ q = p)
        PROVE  CountedOf(q, ballots') = CountedOf(q, ballots) /\ ApprovedOf(q, ballots') = ApprovedOf(q, ballots)
    <3>1. CountedOf(q, ballots') = CountedOf(q, ballots)
      BY <1>2, <2>2, <2>7, <2>8 DEF CountedOf
    <3>2. \A n \in CountedOf(q, ballots) : ballots'[n] = ballots[n]
      BY <1>2, <2>7 DEF CountedOf
    <3> QED
      BY <3>1, <3>2 DEF ApprovedOf
  <2>9. ASSUME NEW q \in DOMAIN operators, ~(k /\ q = p)
        PROVE  Tallied(operators'[q], q, ballots')
    <3>1. operators'[q] = operators[q]
      BY <1>2, <2>3, <2>4, <2>6, <2>9
    <3> QED
      BY <1>1, <2>8, <2>9, <3>1 DEF Tallied
  <2>10. ASSUME k
         PROVE  Tallied(operators'[p], p, ballots')
    <3>1. operators[p] \in Tally /\ operators'[p] = Counted(operators[p], v)
      BY <1>2, <2>3, <2>5, <2>10
    <3>2. CountedOf(p, ballots') = CountedOf(p, ballots) \cup {last}
      <4>1. ballots'[last].by = p /\ ballots'[last].known
        BY <2>2, <2>7, <2>10, Zenon
      <4> QED
        BY <1>2, <2>7, <4>1 DEF CountedOf
    <3>3. ApprovedOf(p, ballots') =
            ApprovedOf(p, ballots) \cup (IF v = "approved" THEN {last} ELSE {})
      <4>1. \A n \in CountedOf(p, ballots) : ballots'[n] = ballots[n]
        BY <1>2, <2>7 DEF CountedOf
      <4> QED
        BY <2>2, <2>7, <3>2, <4>1 DEF ApprovedOf
    <3>4. CountedOf(p, ballots) \in SUBSET (1 .. Len(ballots)) /\ ApprovedOf(p, ballots) \in SUBSET (1 .. Len(ballots))
      BY <1>2 DEF CountedOf, ApprovedOf
    <3>5. Cardinality(CountedOf(p, ballots')) = Cardinality(CountedOf(p, ballots)) + 1
      BY <1>2, <3>2, <3>4, CountPlaces
    <3>6. Cardinality(ApprovedOf(p, ballots')) =
            Cardinality(ApprovedOf(p, ballots)) + (IF v = "approved" THEN 1 ELSE 0)
      <4>1. CASE v = "approved"
        BY <1>2, <3>3, <3>4, <4>1, CountPlaces
      <4>2. CASE v # "approved"
        <5>1. ApprovedOf(p, ballots') = ApprovedOf(p, ballots)
          BY <3>3, <4>2
        <5>2. Cardinality(ApprovedOf(p, ballots)) \in Nat
          BY <1>2, <3>4, CountPlaces
        <5> QED
          BY <4>2, <5>1, <5>2
      <4> QED
        BY <4>1, <4>2
    <3>7. Tallied(operators[p], p, ballots)
      BY <1>1, <2>5, <2>10
    <3> QED
      BY <3>1, <3>5, <3>6, <3>7 DEF Tallied, Counted
  <2>11. DOMAIN operators' = DOMAIN operators
    BY <2>3, <2>4, <2>6
  <2> QED
    BY <2>6, <2>9, <2>10, <2>11
<1>5. ASSUME NEW p \in Person, UpsertOperator(p)
      PROVE  \A q \in DOMAIN operators' : Tallied(operators'[q], q, ballots')
  <2>1. /\ ballots' = ballots
        /\ \A q \in DOMAIN operators' :
             operators'[q] = IF q \in DOMAIN operators THEN operators[q] ELSE NewOperator
    BY <1>5 DEF UpsertOperator
  <2> QED
    BY <1>1, <1>3, <2>1, NothingCounted
<1>6. ASSUME OversightRestart
      PROVE  \A q \in DOMAIN operators' : Tallied(operators'[q], q, ballots')
  <2>1. /\ ballots' = ballots
        /\ \/ operators' = operators
           \/ DOMAIN operators = {} /\ operators' = [p \in Seeded |-> NewOperator]
    BY <1>6 DEF OversightRestart, SeedOperators
  <2> QED
    BY <1>1, <1>3, <2>1, NothingCounted
<1>7. CASE UNCHANGED <<operators, ballots>>
  BY <1>1, <1>7, TotalsTallied
<1> QED
  <2>1. \/ \E i \in DOMAIN tickets, p \in Person, v \in {"approved", "vetoed"} : ReviewApproval(i, p, v)
        \/ \E p \in Person : UpsertOperator(p)
        \/ OversightRestart
        \/ UNCHANGED <<operators, ballots>>
    BY Zenon DEF OversightStep, OversightNext, oversight, RequestApproval, Expire, Evaluate, AddConstraint,
       EnactPolicy, Intervene, Amend, Explain
  <2> QED
    BY <1>4, <1>5, <1>6, <1>7, <2>1, TotalsTallied

-----------------------------------------------------------------------------
(* Human oversight: policies and the records about them.                   *)

LEMMA PolicySteps ==
  ASSUME OversightTypes, OversightStep
  PROVE  \/ \E s \in Swarm, i \in Nat \cup {None}, o \in BOOLEAN :
              policies' = Enacted(s, i, o) /\ (o => i = None)
         \/ \E i \in DOMAIN policies : policies' = [policies EXCEPT ![i].active = FALSE]
         \/ UNCHANGED policies
<1>1. DOMAIN policies \subseteq Nat
  BY DEF OversightTypes
<1>2. ASSUME NEW s \in Swarm, NEW i \in DOMAIN policies \cup {None}, EnactPolicy(s, i)
      PROVE  \/ policies' = Enacted(s, i, FALSE)
             \/ i \in DOMAIN policies /\ policies' = [policies EXCEPT ![i].active = FALSE]
  BY <1>2 DEF EnactPolicy
<1>3. ASSUME NEW s \in Swarm, Intervene(s)
      PROVE  policies' = Enacted(s, None, TRUE) \/ UNCHANGED policies
  BY <1>3 DEF Intervene
<1>4. \/ \E s \in Swarm, i \in DOMAIN policies \cup {None} : EnactPolicy(s, i)
      \/ \E s \in Swarm : Intervene(s)
      \/ UNCHANGED policies
  BY Zenon DEF OversightStep, OversightNext, oversight, RequestApproval, Expire, Evaluate, AddConstraint,
     ReviewApproval, UpsertOperator, Amend, Explain, OversightRestart
<1> QED
  BY <1>1, <1>2, <1>3, <1>4

(* What a policy enacted does to the list.                                 *)
LEMMA EnactedList ==
  ASSUME OversightTypes, NEW s \in Swarm, NEW i \in Nat \cup {None}, NEW o \in BOOLEAN,
         policies' = Enacted(s, i, o)
  PROVE  LET n == Len(policies) IN
         /\ n \in Nat /\ DOMAIN policies = 1 .. n /\ DOMAIN policies' = 1 .. n + 1
         /\ policies'[n + 1] = [swarm |-> s, supersedes |-> i, active |-> TRUE, override |-> o]
         /\ \A j \in 1 .. n : /\ policies'[j].active = (IF j = i THEN FALSE ELSE policies[j].active)
                              /\ policies'[j].supersedes = policies[j].supersedes
                              /\ policies'[j].override = policies[j].override
<1> DEFINE held == [j \in DOMAIN policies |->
                      IF j = i THEN [policies[j] EXCEPT !.active = FALSE] ELSE policies[j]]
           new == [swarm |-> s, supersedes |-> i, active |-> TRUE, override |-> o]
           n == Len(policies)
<1>1. n \in Nat /\ DOMAIN policies = 1 .. n /\ \A j \in 1 .. n : policies[j] \in Policy
  BY DEF OversightTypes
<1>2. policies' = Append(held, new)
  BY DEF Enacted
<1>3. \A j \in 1 .. n : /\ held[j].active = (IF j = i THEN FALSE ELSE policies[j].active)
                        /\ held[j].supersedes = policies[j].supersedes
                        /\ held[j].override = policies[j].override
  BY <1>1 DEF Policy
<1>4. DOMAIN held = 1 .. n /\ Len(held) = n
  BY <1>1
<1> HIDE DEF held, new
<1>5. DOMAIN Append(held, new) = 1 .. n + 1 /\ Append(held, new)[n + 1] = new
      /\ \A j \in 1 .. n : Append(held, new)[j] = held[j]
  BY <1>1, <1>4 DEF Append
<1> QED
  BY <1>1, <1>2, <1>3, <1>5 DEF new

(* What a policy ended does to it.                                         *)
LEMMA EndedList ==
  ASSUME OversightTypes, NEW i \in DOMAIN policies, policies' = [policies EXCEPT ![i].active = FALSE]
  PROVE  /\ DOMAIN policies' = DOMAIN policies
         /\ \A j \in DOMAIN policies :
              /\ policies'[j].active = (IF j = i THEN FALSE ELSE policies[j].active)
              /\ policies'[j].supersedes = policies[j].supersedes
              /\ policies'[j].override = policies[j].override
<1>1. \A j \in DOMAIN policies : policies[j] \in Policy
  BY DEF OversightTypes
<1>2. \A j \in DOMAIN policies :
        policies'[j] = IF j = i THEN [policies[j] EXCEPT !.active = FALSE] ELSE policies[j]
  OBVIOUS
<1> QED
  BY <1>1, <1>2 DEF Policy

LEMMA PoliciesInForceKept ==
  ASSUME OversightTypes, PoliciesInForce, OversightStep
  PROVE  PoliciesInForce'
<1>1. ASSUME NEW s \in Swarm, NEW i \in Nat \cup {None}, NEW o \in BOOLEAN, policies' = Enacted(s, i, o)
      PROVE  PoliciesInForce'
  <2> DEFINE n == Len(policies)
  <2>1. /\ n \in Nat /\ DOMAIN policies = 1 .. n /\ DOMAIN policies' = 1 .. n + 1
        /\ policies'[n + 1] = [swarm |-> s, supersedes |-> i, active |-> TRUE, override |-> o]
        /\ \A j \in 1 .. n : /\ policies'[j].active = (IF j = i THEN FALSE ELSE policies[j].active)
                             /\ policies'[j].supersedes = policies[j].supersedes
    BY <1>1, EnactedList
  <2>2. policies'[n + 1].supersedes = i
    BY <2>1
  <2>3. \A j \in 1 .. n : policies[j].active => ~\E k \in 1 .. n : k > j /\ policies[k].supersedes = j
    BY <2>1 DEF PoliciesInForce
  <2> HIDE DEF n
  <2>4. ASSUME NEW j \in 1 .. n + 1, NEW k \in 1 .. n + 1, policies'[j].active,
               k > j, policies'[k].supersedes = j
        PROVE  FALSE
    <3>1. j \in 1 .. n
      BY <2>1, <2>4
    <3>2. j # i /\ policies[j].active
      BY <2>1, <2>4, <3>1
    <3>3. CASE k = n + 1
      BY <2>2, <2>4, <3>2, <3>3
    <3>4. CASE k \in 1 .. n
      BY <2>1, <2>3, <2>4, <3>1, <3>2, <3>4
    <3> QED
      BY <2>1, <3>3, <3>4
  <2> QED
    BY <2>1, <2>4 DEF PoliciesInForce
<1>2. ASSUME NEW i \in DOMAIN policies, policies' = [policies EXCEPT ![i].active = FALSE]
      PROVE  PoliciesInForce'
  <2>1. /\ DOMAIN policies' = DOMAIN policies
        /\ \A j \in DOMAIN policies :
             /\ policies'[j].active = (IF j = i THEN FALSE ELSE policies[j].active)
             /\ policies'[j].supersedes = policies[j].supersedes
    BY <1>2, EndedList
  <2> QED
    BY <2>1 DEF PoliciesInForce
<1>3. CASE UNCHANGED policies
  BY <1>3 DEF PoliciesInForce
<1> QED
  BY <1>1, <1>2, <1>3, PolicySteps

(* The policies that are overrides, those that ended without a successor,  *)
(* the requests that need a human and the explanations of one kind.        *)
Overrides(p) == {i \in DOMAIN p : p[i].override}
Unfollowed(p) == {i \in DOMAIN p : ~p[i].active /\ ~\E j \in DOMAIN p : j > i /\ p[j].supersedes = i}
Asked(t) == {i \in DOMAIN t : RequiresHuman(t[i].risk)}
LineageOf(k, a) == {i \in DOMAIN a : a[i].kind = k}
KeptUp(o, l, a, e, f, i, m, d) == o <= i /\ f <= m /\ i + a + m + l <= o + e + f + d

LEMMA KeepUpCounted ==
  /\ RecordsKeepUp <=>
       KeptUp(Cardinality(Overrides(policies)), Cardinality(Unfollowed(policies)), Cardinality(Asked(tickets)),
              Cardinality(LineageOf("intervention", lineage)),
              Cardinality(LineageOf("institution_formation", lineage)), interventions, amendments, deaths)
  /\ RecordsKeepUp' <=>
       KeptUp(Cardinality(Overrides(policies')), Cardinality(Unfollowed(policies')), Cardinality(Asked(tickets')),
              Cardinality(LineageOf("intervention", lineage')),
              Cardinality(LineageOf("institution_formation", lineage')), interventions', amendments', deaths')
BY DEF RecordsKeepUp, Orphaned, KeptUp, Overrides, Unfollowed, Asked, LineageOf

LEMMA CountsAreNumbers ==
  ASSUME OversightTypes
  PROVE  /\ Cardinality(Overrides(policies)) \in Nat /\ Cardinality(Unfollowed(policies)) \in Nat
         /\ Cardinality(Asked(tickets)) \in Nat
         /\ \A k : Cardinality(LineageOf(k, lineage)) \in Nat
         /\ interventions \in Nat /\ amendments \in Nat /\ deaths \in Nat
<1>1. /\ Len(policies) \in Nat /\ Overrides(policies) \in SUBSET (1 .. Len(policies))
      /\ Unfollowed(policies) \in SUBSET (1 .. Len(policies))
      /\ Len(tickets) \in Nat /\ Asked(tickets) \in SUBSET (1 .. Len(tickets))
      /\ Len(lineage) \in Nat /\ \A k : LineageOf(k, lineage) \in SUBSET (1 .. Len(lineage))
  BY DEF OversightTypes, Overrides, Unfollowed, Asked, LineageOf
<1>2. Cardinality(Overrides(policies)) \in Nat
  BY <1>1, CountPlaces
<1>3. Cardinality(Asked(tickets)) \in Nat
  BY <1>1, CountPlaces
<1>4. \A k : Cardinality(LineageOf(k, lineage)) \in Nat
  BY <1>1, CountPlaces
<1>5. Cardinality(Unfollowed(policies)) \in Nat
  BY <1>1, CountPlaces
<1> QED
  BY <1>2, <1>3, <1>4, <1>5 DEF OversightTypes

(* A policy that is enacted leaves none without a successor that had one,  *)
(* and one that is ended at most itself.                                   *)
LEMMA EndedFew ==
  ASSUME OversightTypes, NEW n \in Nat, NEW S, Unfollowed(policies) \in SUBSET (1 .. n), S \subseteq Unfollowed(policies)
  PROVE  Cardinality(S) \in Nat /\ Cardinality(S) <= Cardinality(Unfollowed(policies))
<1>1. IsFiniteSet(Unfollowed(policies))
  BY CountPlaces
<1> QED
  BY <1>1, FS_Subset, FS_CardinalityType

LEMMA EndedByEnacting ==
  ASSUME OversightTypes, NEW s \in Swarm, NEW i \in Nat \cup {None}, NEW o \in BOOLEAN,
         policies' = Enacted(s, i, o)
  PROVE  /\ Cardinality(Unfollowed(policies')) \in Nat
         /\ Cardinality(Unfollowed(policies')) <= Cardinality(Unfollowed(policies))
<1> DEFINE n == Len(policies)
<1>1. /\ n \in Nat /\ DOMAIN policies = 1 .. n /\ DOMAIN policies' = 1 .. n + 1
      /\ policies'[n + 1] = [swarm |-> s, supersedes |-> i, active |-> TRUE, override |-> o]
      /\ \A j \in 1 .. n : /\ policies'[j].active = (IF j = i THEN FALSE ELSE policies[j].active)
                           /\ policies'[j].supersedes = policies[j].supersedes
  BY EnactedList
<1>2. policies'[n + 1].supersedes = i /\ policies'[n + 1].active
  BY <1>1
<1> HIDE DEF n
<1>3. Unfollowed(policies') \subseteq Unfollowed(policies)
  <2> SUFFICES ASSUME NEW j \in Unfollowed(policies') PROVE j \in Unfollowed(policies)
    OBVIOUS
  <2>1. /\ j \in 1 .. n + 1 /\ ~policies'[j].active
        /\ \A k \in 1 .. n + 1 : ~(k > j /\ policies'[k].supersedes = j)
    BY <1>1 DEF Unfollowed
  <2>2. j \in 1 .. n
    BY <1>1, <1>2, <2>1
  <2>3. n + 1 \in 1 .. n + 1 /\ n + 1 > j
    BY <1>1, <2>2
  <2>4. j # i
    BY <1>2, <2>1, <2>3
  <2>5. ~policies[j].active
    BY <1>1, <2>1, <2>2, <2>4
  <2>6. ASSUME NEW k \in 1 .. n, k > j, policies[k].supersedes = j
        PROVE  FALSE
    <3>1. policies'[k].supersedes = j
      BY <1>1, <2>6
    <3>2. k \in 1 .. n + 1
      BY <1>1, <2>6
    <3> QED
      BY <2>1, <2>6, <3>1, <3>2
  <2> QED
    BY <1>1, <2>2, <2>5, <2>6 DEF Unfollowed
<1>4. Unfollowed(policies) \in SUBSET (1 .. n)
  BY <1>1 DEF Unfollowed
<1> QED
  BY <1>1, <1>3, <1>4, EndedFew

LEMMA EndedByEnding ==
  ASSUME OversightTypes, NEW i \in DOMAIN policies, policies' = [policies EXCEPT ![i].active = FALSE]
  PROVE  /\ Overrides(policies') = Overrides(policies)
         /\ Cardinality(Unfollowed(policies')) \in Nat
         /\ Cardinality(Unfollowed(policies')) <= Cardinality(Unfollowed(policies)) + 1
<1>1. /\ DOMAIN policies' = DOMAIN policies
      /\ \A j \in DOMAIN policies :
           /\ policies'[j].active = (IF j = i THEN FALSE ELSE policies[j].active)
           /\ policies'[j].supersedes = policies[j].supersedes
           /\ policies'[j].override = policies[j].override
  BY EndedList
<1>2. Overrides(policies') = Overrides(policies)
  BY <1>1 DEF Overrides
<1>3. Unfollowed(policies') \subseteq Unfollowed(policies) \cup {i}
  BY <1>1 DEF Unfollowed
<1>4. Len(policies) \in Nat /\ Unfollowed(policies) \in SUBSET (1 .. Len(policies))
  BY DEF OversightTypes, Unfollowed
<1>5. IsFiniteSet(Unfollowed(policies)) /\ Cardinality(Unfollowed(policies)) \in Nat
  BY <1>4, CountPlaces
<1>6. /\ IsFiniteSet(Unfollowed(policies) \cup {i})
      /\ Cardinality(Unfollowed(policies) \cup {i}) \in {Cardinality(Unfollowed(policies)), Cardinality(Unfollowed(policies)) + 1}
  BY <1>5, FS_AddElement
<1>7. /\ Cardinality(Unfollowed(policies')) \in Nat
      /\ Cardinality(Unfollowed(policies')) <= Cardinality(Unfollowed(policies) \cup {i})
  BY <1>3, <1>6, FS_Subset, FS_CardinalityType
<1> QED
  BY <1>2, <1>5, <1>6, <1>7

LEMMA OverridesGrow ==
  ASSUME OversightTypes, NEW s \in Swarm, NEW i \in Nat \cup {None}, NEW o \in BOOLEAN,
         policies' = Enacted(s, i, o)
  PROVE  /\ o => Cardinality(Overrides(policies')) = Cardinality(Overrides(policies)) + 1
         /\ ~o => Overrides(policies') = Overrides(policies)
<1> DEFINE n == Len(policies)
<1>1. /\ n \in Nat /\ DOMAIN policies = 1 .. n /\ DOMAIN policies' = 1 .. n + 1
      /\ policies'[n + 1] = [swarm |-> s, supersedes |-> i, active |-> TRUE, override |-> o]
      /\ \A j \in 1 .. n : policies'[j].override = policies[j].override
  BY EnactedList
<1>2. Overrides(policies) \in SUBSET (1 .. n)
  BY <1>1 DEF Overrides
<1> HIDE DEF n
<1>3. policies'[n + 1].override <=> o
  BY <1>1
<1>4. ASSUME policies'[n + 1].override
      PROVE  Cardinality(Overrides(policies')) = Cardinality(Overrides(policies)) + 1
  <2>1. Overrides(policies') = Overrides(policies) \cup {n + 1}
    <3>1. \A j \in 1 .. n : j \in Overrides(policies') <=> j \in Overrides(policies)
      BY <1>1 DEF Overrides
    <3>2. n + 1 \in Overrides(policies')
      <4>1. n + 1 \in DOMAIN policies'
        BY <1>1
      <4> QED
        BY <1>4, <4>1, Zenon DEF Overrides
    <3>3. Overrides(policies') \subseteq 1 .. n + 1 /\ \A j \in 1 .. n + 1 : j \in 1 .. n \/ j = n + 1
      BY <1>1 DEF Overrides
    <3> QED
      BY <1>2, <3>1, <3>2, <3>3
  <2> QED
    BY <1>1, <1>2, <2>1, CountPlaces
<1>5. ASSUME ~policies'[n + 1].override
      PROVE  Overrides(policies') = Overrides(policies)
  BY <1>1, <1>5 DEF Overrides
<1> QED
  BY <1>3, <1>4, <1>5

LEMMA AskedGrow ==
  ASSUME OversightTypes, NEW t \in Ticket, tickets' = Append(tickets, t)
  PROVE  Cardinality(Asked(tickets')) =
           Cardinality(Asked(tickets)) + (IF RequiresHuman(t.risk) THEN 1 ELSE 0)
<1> DEFINE n == Len(tickets)
<1>1. /\ n \in Nat /\ DOMAIN tickets = 1 .. n /\ DOMAIN tickets' = 1 .. n + 1
      /\ tickets'[n + 1] = t
      /\ \A j \in 1 .. n : tickets'[j] = tickets[j]
  BY DEF OversightTypes
<1>2. Asked(tickets) \in SUBSET (1 .. n)
  BY <1>1 DEF Asked
<1> HIDE DEF n
<1>3. CASE RequiresHuman(t.risk)
  <2>1. Asked(tickets') = Asked(tickets) \cup {n + 1}
    BY <1>1, <1>3 DEF Asked
  <2> QED
    BY <1>1, <1>2, <1>3, <2>1, CountPlaces
<1>4. CASE ~RequiresHuman(t.risk)
  <2>1. Asked(tickets') = Asked(tickets)
    BY <1>1, <1>4 DEF Asked
  <2>2. Cardinality(Asked(tickets)) \in Nat
    BY CountsAreNumbers
  <2> QED
    BY <1>4, <2>1, <2>2
<1> QED
  BY <1>3, <1>4

LEMMA LineageGrows ==
  ASSUME OversightTypes, NEW e \in Account, lineage' = Append(lineage, e), NEW k
  PROVE  Cardinality(LineageOf(k, lineage')) = Cardinality(LineageOf(k, lineage)) + (IF e.kind = k THEN 1 ELSE 0)
<1> DEFINE n == Len(lineage)
<1>1. /\ n \in Nat /\ DOMAIN lineage = 1 .. n /\ DOMAIN lineage' = 1 .. n + 1
      /\ lineage'[n + 1] = e
      /\ \A j \in 1 .. n : lineage'[j] = lineage[j]
  BY DEF OversightTypes
<1>2. LineageOf(k, lineage) \in SUBSET (1 .. n)
  BY <1>1 DEF LineageOf
<1> HIDE DEF n
<1>3. CASE e.kind = k
  <2>1. LineageOf(k, lineage') = LineageOf(k, lineage) \cup {n + 1}
    BY <1>1, <1>3 DEF LineageOf
  <2> QED
    BY <1>1, <1>2, <1>3, <2>1, CountPlaces
<1>4. CASE e.kind # k
  <2>1. LineageOf(k, lineage') = LineageOf(k, lineage)
    BY <1>1, <1>4 DEF LineageOf
  <2>2. Cardinality(LineageOf(k, lineage)) \in Nat
    BY CountsAreNumbers
  <2> QED
    BY <1>4, <2>1, <2>2
<1> QED
  BY <1>3, <1>4

(* What the entry of each kind adds to the two counts.                     *)
LEMMA LineageCounts ==
  ASSUME OversightTypes, NEW s \in Swarm
  PROVE  /\ lineage' = Append(lineage, Entry(s, "intervention")) =>
              /\ Cardinality(LineageOf("intervention", lineage')) = Cardinality(LineageOf("intervention", lineage)) + 1
              /\ Cardinality(LineageOf("institution_formation", lineage')) =
                   Cardinality(LineageOf("institution_formation", lineage))
         /\ lineage' = Append(lineage, Entry(s, "institution_formation")) =>
              /\ Cardinality(LineageOf("intervention", lineage')) = Cardinality(LineageOf("intervention", lineage))
              /\ Cardinality(LineageOf("institution_formation", lineage')) =
                   Cardinality(LineageOf("institution_formation", lineage)) + 1
<1>1. PICK x, y : x = "intervention" /\ y = "institution_formation"
  OBVIOUS
<1>2. x # y /\ Entry(s, x) \in Account /\ Entry(s, y) \in Account /\ Entry(s, x).kind = x /\ Entry(s, y).kind = y
  BY <1>1 DEF Entry, Account
<1>3. Cardinality(LineageOf(x, lineage)) \in Nat /\ Cardinality(LineageOf(y, lineage)) \in Nat
  BY CountsAreNumbers
<1>4. ASSUME lineage' = Append(lineage, Entry(s, x))
      PROVE  /\ Cardinality(LineageOf(x, lineage')) = Cardinality(LineageOf(x, lineage)) + 1
             /\ Cardinality(LineageOf(y, lineage')) = Cardinality(LineageOf(y, lineage))
  BY <1>2, <1>3, <1>4, LineageGrows
<1>5. ASSUME lineage' = Append(lineage, Entry(s, y))
      PROVE  /\ Cardinality(LineageOf(x, lineage')) = Cardinality(LineageOf(x, lineage))
             /\ Cardinality(LineageOf(y, lineage')) = Cardinality(LineageOf(y, lineage)) + 1
  BY <1>2, <1>3, <1>5, LineageGrows
<1> QED
  BY <1>1, <1>4, <1>5

LEMMA RecordsKeptUp ==
  ASSUME OversightTypes, RecordsKeepUp, OversightStep
  PROVE  RecordsKeepUp'
<1> DEFINE o == Cardinality(Overrides(policies))
           l == Cardinality(Unfollowed(policies))
           a == Cardinality(Asked(tickets))
           e == Cardinality(LineageOf("intervention", lineage))
           f == Cardinality(LineageOf("institution_formation", lineage))
           op == Cardinality(Overrides(policies'))
           lp == Cardinality(Unfollowed(policies'))
           ap == Cardinality(Asked(tickets'))
           ep == Cardinality(LineageOf("intervention", lineage'))
           fp == Cardinality(LineageOf("institution_formation", lineage'))
           i == interventions
           m == amendments
           kept == KeptUp(op, lp, ap, ep, fp, i', m', deaths')
<1>1. KeptUp(o, l, a, e, f, i, m, deaths)
  BY KeepUpCounted
<1>2. /\ o \in Nat /\ l \in Nat /\ a \in Nat /\ e \in Nat /\ f \in Nat
      /\ i \in Nat /\ m \in Nat /\ deaths \in Nat
  BY CountsAreNumbers
<1>3. SUFFICES kept
  BY KeepUpCounted
<1>4. ASSUME NEW s \in Swarm, NEW d \in Deed, NEW h \in Health, RequestApproval(s, d, h)
      PROVE  kept
  <2> DEFINE risk == ClassifyRisk(d, h)
             t == NewTicket(s, risk)
  <2>1. t \in Ticket /\ t.risk = risk
    BY DEF NewTicket, ClassifyRisk, RequiresHuman, Ticket
  <2>2. /\ tickets' = Append(tickets, t) /\ policies' = policies /\ i' = i /\ m' = m
        /\ \/ /\ deaths' = deaths
              /\ \/ RequiresHuman(risk) /\ lineage' = Append(lineage, Entry(s, "intervention"))
                 \/ ~RequiresHuman(risk) /\ lineage' = lineage
           \/ RequiresHuman(risk) /\ deaths' = deaths + 1 /\ lineage' = lineage
    BY <1>4, Zenon DEF RequestApproval, Lives, Dies
  <2> HIDE DEF t, risk
  <2>3. ap = a + (IF RequiresHuman(risk) THEN 1 ELSE 0)
    BY <2>1, <2>2, AskedGrow
  <2>4. op = o /\ lp = l
    BY <2>2
  <2>5. lineage' = Append(lineage, Entry(s, "intervention")) => ep = e + 1 /\ fp = f
    BY LineageCounts
  <2>6. lineage' = lineage => ep = e /\ fp = f
    OBVIOUS
  <2> HIDE DEF o, l, a, e, f, op, lp, ap, ep, fp
  <2>7. CASE RequiresHuman(risk)
    <3>1. ap = a + 1
      BY <2>3, <2>7
    <3>2. (deaths' = deaths /\ ep = e + 1 /\ fp = f) \/ (deaths' = deaths + 1 /\ ep = e /\ fp = f)
      BY <2>2, <2>5, <2>6, <2>7
    <3> QED
      BY <1>1, <1>2, <2>2, <2>4, <3>1, <3>2 DEF KeptUp
  <2>8. CASE ~RequiresHuman(risk)
    <3>1. ap = a /\ deaths' = deaths /\ ep = e /\ fp = f
      BY <1>2, <2>2, <2>3, <2>6, <2>8
    <3> QED
      BY <1>1, <1>2, <2>2, <2>4, <3>1 DEF KeptUp
  <2> QED
    BY <2>7, <2>8
<1>5. ASSUME NEW s \in Swarm, Intervene(s)
      PROVE  kept
  <2>1. /\ i' = i + 1 /\ m' = m /\ tickets' = tickets /\ lineage' = lineage
        /\ \/ deaths' = deaths /\ policies' = Enacted(s, None, TRUE)
           \/ deaths' = deaths + 1 /\ policies' = policies
    BY <1>5 DEF Intervene, Lives, Dies
  <2>2. ap = a /\ ep = e /\ fp = f
    BY <2>1
  <2>3. ASSUME policies' = Enacted(s, None, TRUE)
        PROVE  op = o + 1 /\ lp \in Nat /\ lp <= l
    BY <2>3, OverridesGrow, EndedByEnacting
  <2>4. policies' = policies => op = o /\ lp = l
    OBVIOUS
  <2> HIDE DEF o, l, a, e, f, op, lp, ap, ep, fp
  <2>5. CASE deaths' = deaths /\ policies' = Enacted(s, None, TRUE)
    BY <1>1, <1>2, <2>1, <2>2, <2>3, <2>5 DEF KeptUp
  <2>6. CASE deaths' = deaths + 1 /\ policies' = policies
    BY <1>1, <1>2, <2>1, <2>2, <2>4, <2>6 DEF KeptUp
  <2> QED
    BY <2>1, <2>5, <2>6
<1>6. ASSUME NEW s \in Swarm, NEW j \in DOMAIN policies \cup {None}, EnactPolicy(s, j)
      PROVE  kept
  <2>1. j \in Nat \cup {None}
    BY DEF OversightTypes
  <2>2. PICK b \in BOOLEAN : b = FALSE
    OBVIOUS
  <2>3. /\ ap = a /\ ep = e /\ fp = f /\ i' = i /\ m' = m
        /\ \/ deaths' = deaths /\ policies' = Enacted(s, j, b)
           \/ j # None /\ deaths' = deaths + 1 /\ policies' = [policies EXCEPT ![j].active = FALSE]
    BY <1>6, <2>2 DEF EnactPolicy, Lives, Dies
  <2>4. ASSUME policies' = Enacted(s, j, b)
        PROVE  op = o /\ lp \in Nat /\ lp <= l
    BY <2>1, <2>2, <2>4, OverridesGrow, EndedByEnacting
  <2>5. ASSUME j # None, policies' = [policies EXCEPT ![j].active = FALSE]
        PROVE  op = o /\ lp \in Nat /\ lp <= l + 1
    BY <2>5, EndedByEnding
  <2> HIDE DEF o, l, a, e, f, op, lp, ap, ep, fp
  <2>6. CASE deaths' = deaths /\ policies' = Enacted(s, j, b)
    BY <1>1, <1>2, <2>3, <2>4, <2>6 DEF KeptUp
  <2>7. CASE j # None /\ deaths' = deaths + 1 /\ policies' = [policies EXCEPT ![j].active = FALSE]
    BY <1>1, <1>2, <2>3, <2>5, <2>7 DEF KeptUp
  <2> QED
    BY <2>3, <2>6, <2>7
<1>7. ASSUME NEW s \in Swarm, Amend(s)
      PROVE  kept
  <2>1. /\ op = o /\ lp = l /\ ap = a /\ i' = i /\ m' = m + 1
        /\ \/ deaths' = deaths /\ lineage' = Append(lineage, Entry(s, "institution_formation"))
           \/ deaths' = deaths + 1 /\ lineage' = lineage
    BY <1>7 DEF Amend, Lives, Dies
  <2>2. lineage' = Append(lineage, Entry(s, "institution_formation")) => ep = e /\ fp = f + 1
    BY LineageCounts
  <2>3. lineage' = lineage => ep = e /\ fp = f
    OBVIOUS
  <2> HIDE DEF o, l, a, e, f, op, lp, ap, ep, fp
  <2> QED
    BY <1>1, <1>2, <2>1, <2>2, <2>3 DEF KeptUp
<1>8. ASSUME NEW s \in Swarm, Explain(s)
      PROVE  kept
  <2>1. op = o /\ lp = l /\ ap = a /\ i' = i /\ m' = m /\ deaths' = deaths
    BY <1>8 DEF Explain
  <2>2. ep = e + 1 /\ fp = f
    BY <1>8, LineageCounts DEF Explain
  <2> HIDE DEF o, l, a, e, f, op, lp, ap, ep, fp
  <2> QED
    BY <1>1, <1>2, <2>1, <2>2 DEF KeptUp
<1>9. ASSUME Asked(tickets') = Asked(tickets), UNCHANGED <<policies, lineage, interventions, amendments>>,
             deaths' \in {deaths, deaths + 1}
      PROVE  kept
  <2>1. op = o /\ lp = l /\ ap = a /\ ep = e /\ fp = f /\ i' = i /\ m' = m
    BY <1>9
  <2>2. deaths' = deaths \/ deaths' = deaths + 1
    BY <1>9
  <2> HIDE DEF o, l, a, e, f, op, lp, ap, ep, fp
  <2> QED
    BY ONLY <1>1, <1>2, <2>1, <2>2 DEF KeptUp
<1>10. ASSUME NEW j \in DOMAIN tickets, Expire(j) \/ \E p \in Person, v \in {"approved", "vetoed"} : ReviewApproval(j, p, v)
       PROVE  kept
  <2>1. \A k \in DOMAIN tickets : tickets[k] \in Ticket
    BY DEF OversightTypes
  <2>2. DOMAIN tickets' = DOMAIN tickets /\ \A k \in DOMAIN tickets : tickets'[k].risk = tickets[k].risk
    BY <1>10, <2>1 DEF Expire, ReviewApproval, Ticket
  <2>3. Asked(tickets') = Asked(tickets)
    BY <2>2 DEF Asked
  <2>4. UNCHANGED <<policies, lineage, interventions, amendments>> /\ deaths' \in {deaths, deaths + 1}
    BY <1>10 DEF Expire, ReviewApproval, Lives, Dies
  <2> QED
    BY <1>9, <2>3, <2>4
<1>11. ASSUME NEW s \in Swarm, NEW d \in Deed, NEW h \in Health, Evaluate(s, d, h)
       PROVE  kept
  <2>1. UNCHANGED <<tickets, policies, lineage, interventions, amendments>> /\ deaths' \in {deaths, deaths + 1}
    BY <1>11 DEF Evaluate, Lives, Dies
  <2> QED
    BY <1>9, <2>1
<1>12. CASE UNCHANGED <<policies, lineage, interventions, amendments, tickets, deaths>>
  BY <1>9, <1>12
<1> QED
  <2> HIDE DEF kept
  <2>1. \/ \E s \in Swarm, d \in Deed, h \in Health : RequestApproval(s, d, h) \/ Evaluate(s, d, h)
        \/ \E j \in DOMAIN tickets : Expire(j)
        \/ \E j \in DOMAIN tickets, p \in Person, v \in {"approved", "vetoed"} : ReviewApproval(j, p, v)
        \/ \E s \in Swarm, j \in DOMAIN policies \cup {None} : EnactPolicy(s, j)
        \/ \E s \in Swarm : Intervene(s) \/ Amend(s) \/ Explain(s)
        \/ UNCHANGED <<policies, lineage, interventions, amendments, tickets, deaths>>
    BY Zenon DEF OversightStep, OversightNext, oversight, AddConstraint, UpsertOperator, OversightRestart
  <2> QED
    BY <1>4, <1>5, <1>6, <1>7, <1>8, <1>10, <1>11, <1>12, <2>1, Zenon

-----------------------------------------------------------------------------
(* Human oversight: the theorems.                                          *)

LEMMA OversightStarts == OversightInit => OversightInv
<1> SUFFICES ASSUME OversightInit PROVE OversightInv
  OBVIOUS
<1>1. OversightTypes
  BY OversightTyped
<1>2. /\ \A p \in DOMAIN operators : operators[p] = NewOperator
      /\ tickets = <<>> /\ violations = <<>> /\ policies = <<>> /\ lineage = <<>> /\ ballots = <<>>
      /\ interventions = 0 /\ amendments = 0
  BY DEF OversightInit, SeedingCutShort, SeedOperators
<1>3. RefusalsNamed /\ BallotsCast /\ PoliciesInForce /\ LastBallotStands
  BY <1>2 DEF RefusalsNamed, BallotsCast, PoliciesInForce, LastBallotStands
<1>4. DecisionsCounted
  <2>1. \A p : CountedOf(p, ballots) = {}
    BY <1>2 DEF CountedOf
  <2> QED
    BY <1>2, <2>1, NothingCounted, TotalsTallied
<1>5. RecordsKeepUp
  <2>1. /\ Overrides(policies) = {} /\ Unfollowed(policies) = {} /\ Asked(tickets) = {}
        /\ LineageOf("intervention", lineage) = {} /\ LineageOf("institution_formation", lineage) = {}
    BY <1>2 DEF Overrides, Unfollowed, Asked, LineageOf
  <2>2. /\ Cardinality(Overrides(policies)) = 0 /\ Cardinality(Unfollowed(policies)) = 0
        /\ Cardinality(Asked(tickets)) = 0
        /\ Cardinality(LineageOf("intervention", lineage)) = 0
        /\ Cardinality(LineageOf("institution_formation", lineage)) = 0
    BY <2>1, FS_EmptySet
  <2>3. \A d \in Nat : KeptUp(0, 0, 0, 0, 0, 0, 0, d)
    BY DEF KeptUp
  <2>4. deaths \in Nat
    BY <1>1 DEF OversightTypes
  <2> QED
    BY <1>2, <2>2, <2>3, <2>4, KeepUpCounted, Zenon
<1> QED
  BY <1>1, <1>3, <1>4, <1>5 DEF OversightInv

LEMMA OversightKept == OversightInv /\ OversightStep => OversightInv'
BY OversightTypesKept, RefusalsNamedKept, BallotsCastKept, RecordsKeptUp, PoliciesInForceKept,
   DecisionsCountedKept, LastBallotKept DEF OversightInv

LEMMA OversightSteps == [Next]_intelligence => OversightStep
BY Zenon DEF Next, intelligence, services, OversightStep, OversightRequest, PlanetaryRequest, StructureRequest,
   MemoryRequest, GovernorRequest, CollectiveRequest, InsightRequest, EvolutionRequest, LearningRequest, Restart

LEMMA OversightAlways == Spec => []OversightInv
<1>1. Init => OversightInv
  BY OversightStarts DEF Init
<1>2. OversightInv /\ [Next]_intelligence => OversightInv'
  BY OversightKept, OversightSteps
<1> QED
  BY <1>1, <1>2, PTL DEF Spec

(* The tables of oversight agree with each other but for the crashes:      *)
(* operators' totals with their reviews, policies out of force with those  *)
(* that superseded them, interventions with their overrides, requests and  *)
(* amendments with their explanations. The process may die between any two *)
(* statements, those of a policy and its successor included.               *)
THEOREM RecordsAlwaysAgree == Spec => []RecordsAgree
<1>1. OversightInv => RecordsAgree
  BY DEF OversightInv, RecordsAgree
<1> QED
  BY <1>1, OversightAlways, PTL

(* What the constraints refused they refuse for good, and a request is     *)
(* always as its last review left it.                                      *)
THEOREM VerdictsAlwaysStand == Spec => []VerdictsStand
<1>1. OversightInv => VerdictsStand
  BY RefusalsStand DEF OversightInv, VerdictsStand
<1> QED
  BY <1>1, OversightAlways, PTL

-----------------------------------------------------------------------------
(* Civilizational memory: the invariant.                                   *)

EraKind == {"crisis", "golden_age", "decline", "renaissance", "reformation",
            "transformation", "expansion", "founding"}
HealthGiven == {r.health : r \in Readings}
Era == [swarm : Swarm, kind : EraKind, ideology : Ideology, peak : HealthGiven, trough : HealthGiven,
        open : BOOLEAN, life : Nat]

CivilizationTypes ==
  /\ philosophy # None => philosophy.ideology \in Ideology
  /\ structure # None => structure \in [InstitutionKind -> 0 .. 1]
  /\ activeEras \in [Swarm -> Nat \cup {None}]
  /\ eras \in Seq(Era)
  /\ patterns \in [DOMAIN patterns -> Nat]
  /\ life \in Nat \ {0}

(* The open era of this life is the one remembered; those of earlier lives *)
(* are one a swarm.                                                        *)
ErasRemembered ==
  /\ \A i \in DOMAIN eras :
       /\ eras[i].life <= life
       /\ eras[i].open /\ eras[i].life = life => activeEras[eras[i].swarm] = i
  /\ \A s \in Swarm : activeEras[s] # None => activeEras[s] \in DOMAIN eras
  /\ OneOpenEraPerLife

(* The eras of list e that have ended in pattern p, those that are learnt  *)
(* from, and the recurrences of the patterns pt, one by one.               *)
Ended(e, p) == {i \in DOMAIN e : ~e[i].open /\ Pattern(e[i]) = p}
Lasting(e) == {i \in DOMAIN e : ~e[i].open /\ e[i].kind \in {"golden_age", "crisis"}}
Recurrences(pt) == UNION {{p} \X (1 .. pt[p]) : p \in DOMAIN pt}

LessonsLearnt ==
  /\ IsFiniteSet(Recurrences(patterns))
  /\ \A p \in DOMAIN patterns : patterns[p] <= Cardinality(Ended(eras, p))
  /\ Cardinality(Lasting(eras)) < Cardinality(Recurrences(patterns)) + life

CivilizationInv == CivilizationTypes /\ ErasRemembered /\ LessonsLearnt

CivilizationStep ==
  StructureNext \/ MemoryNext \/ CivilizationRestart \/ UNCHANGED civilization

(* A founded or forgotten institution leaves at most one of each kind.     *)
LEMMA OneOfEachKind ==
  ASSUME CivilizationTypes, NEW r \in Readings, EvolveStructure(r) \/ FormInstitutions(r)
  PROVE  structure' # None => structure' \in [InstitutionKind -> 0 .. 1]
<1> DEFINE kept == IF r.health > 55 THEN [Existing EXCEPT !["crisis_tribunal"] = 0] ELSE Existing
<1>1. Existing \in [InstitutionKind -> 0 .. 1]
  BY DEF Existing, CivilizationTypes
<1>2. kept \in [InstitutionKind -> 0 .. 1] /\ \A k \in InstitutionKind : kept[k] <= Existing[k]
  <2> DEFINE other == [Existing EXCEPT !["crisis_tribunal"] = 0]
  <2>1. other \in [InstitutionKind -> 0 .. 1]
    <3>1. 0 \in 0 .. 1
      OBVIOUS
    <3> QED
      BY <1>1, <3>1
  <2>2. \A k \in InstitutionKind : other[k] <= Existing[k] /\ Existing[k] <= Existing[k]
    BY <1>1, <2>1
  <2>3. kept = other \/ kept = Existing
    OBVIOUS
  <2> HIDE DEF kept, other
  <2> QED
    BY <1>1, <2>1, <2>2, <2>3
<1>3. \A k \in DeriveInstitutions(r, Existing) : Existing[k] = 0
  BY DEF DeriveInstitutions
<1> HIDE DEF kept
<1>4. With(Existing, DeriveInstitutions(r, Existing)) \in [InstitutionKind -> 0 .. 1]
  BY <1>1, <1>3 DEF With
<1>5. With(kept, DeriveInstitutions(r, Existing)) \in [InstitutionKind -> 0 .. 1]
  <2>1. ASSUME NEW k \in InstitutionKind
        PROVE  kept[k] + (IF k \in DeriveInstitutions(r, Existing) THEN 1 ELSE 0) \in 0 .. 1
    <3>1. kept[k] \in 0 .. 1 /\ Existing[k] \in 0 .. 1 /\ kept[k] <= Existing[k]
      BY <1>1, <1>2
    <3>2. CASE k \in DeriveInstitutions(r, Existing)
      BY <1>3, <3>1, <3>2
    <3>3. CASE k \notin DeriveInstitutions(r, Existing)
      BY <3>1, <3>3
    <3> QED
      BY <3>2, <3>3
  <2> QED
    BY <2>1 DEF With
<1> QED
  BY <1>4, <1>5 DEF EvolveStructure, FormInstitutions, kept

(* The steps that leave the eras alone.                                    *)
LEMMA StructureKept ==
  ASSUME CivilizationInv,
         \/ EvolvePhilosophy
         \/ \E r \in Readings : EvolveStructure(r) \/ FormInstitutions(r)
         \/ UNCHANGED civilization
  PROVE  CivilizationInv'
<1>1. UNCHANGED <<activeEras, eras, patterns, life>>
  BY DEF EvolvePhilosophy, EvolveStructure, FormInstitutions, civilization
<1>2. philosophy' # None => philosophy'.ideology \in Ideology
  <2>1. CASE EvolvePhilosophy
    <3>1. PICK i \in Ideology :
            \/ philosophy' = philosophy /\ philosophy # None
            \/ philosophy' = [ideology |-> i, generation |-> generation']
      BY <2>1 DEF EvolvePhilosophy
    <3> QED
      BY <3>1 DEF CivilizationInv, CivilizationTypes
  <2>2. CASE ~EvolvePhilosophy
    BY <2>2 DEF EvolveStructure, FormInstitutions, civilization, CivilizationInv, CivilizationTypes
  <2> QED
    BY <2>1, <2>2
<1>3. structure' # None => structure' \in [InstitutionKind -> 0 .. 1]
  <2>1. CASE \E r \in Readings : EvolveStructure(r) \/ FormInstitutions(r)
    BY <2>1, OneOfEachKind DEF CivilizationInv
  <2>2. CASE UNCHANGED structure
    BY <2>2 DEF CivilizationInv, CivilizationTypes
  <2> QED
    BY <2>1, <2>2 DEF EvolvePhilosophy, civilization
<1>4. CivilizationTypes'
  BY <1>1, <1>2, <1>3 DEF CivilizationInv, CivilizationTypes
<1>5. ErasRemembered'
  BY <1>1 DEF CivilizationInv, ErasRemembered, OneOpenEraPerLife
<1>6. LessonsLearnt'
  BY <1>1 DEF CivilizationInv, LessonsLearnt
<1> QED
  BY <1>4, <1>5, <1>6 DEF CivilizationInv

(* The remembered era of a swarm.                                          *)
LEMMA RememberedEra ==
  ASSUME CivilizationInv, NEW s \in Swarm, activeEras[s] # None
  PROVE  LET i == activeEras[s] IN
         i \in DOMAIN eras /\ eras[i] \in Era /\ eras[i].open /\ eras[i].swarm = s /\ eras[i].life = life
BY DEF CivilizationInv, CivilizationTypes, ErasRemembered, OneOpenEraPerLife

LEMMA SnapshotKept ==
  ASSUME CivilizationInv, NEW s \in Swarm, NEW r \in Readings, Snapshot(s, r.health)
  PROVE  CivilizationInv'
<1> DEFINE i == activeEras[s]
           e == [eras[i] EXCEPT !.peak = IF r.health > @ THEN r.health ELSE @,
                                !.trough = IF r.health < @ THEN r.health ELSE @]
<1>1. i # None /\ UNCHANGED <<philosophy, generation, structure, activeEras, patterns, life>>
  BY DEF Snapshot
<1>2. i \in DOMAIN eras /\ eras[i] \in Era
  BY <1>1, RememberedEra
<1>3. eras \in Seq(Era)
  BY DEF CivilizationInv, CivilizationTypes
<1>4. eras' = [eras EXCEPT ![i] = e]
  BY <1>2, <1>3 DEF Snapshot, Era
<1>5. e \in Era
  <2>1. r.health \in HealthGiven
    BY DEF HealthGiven
  <2> QED
    BY <1>2, <2>1 DEF Era
<1>6. /\ e.open = eras[i].open /\ e.swarm = eras[i].swarm /\ e.kind = eras[i].kind
      /\ e.ideology = eras[i].ideology /\ e.life = eras[i].life
  BY <1>2 DEF Era
<1> HIDE DEF e, i
<1>7. eras' \in Seq(Era) /\ DOMAIN eras' = DOMAIN eras
  BY <1>2, <1>3, <1>4, <1>5
<1>8. \A j \in DOMAIN eras :
        /\ eras'[j].open = eras[j].open /\ eras'[j].swarm = eras[j].swarm /\ eras'[j].kind = eras[j].kind
        /\ eras'[j].ideology = eras[j].ideology /\ eras'[j].life = eras[j].life
  BY <1>2, <1>4, <1>6
<1>9. CivilizationTypes'
  BY <1>1, <1>7 DEF CivilizationInv, CivilizationTypes
<1>10. ErasRemembered'
  BY <1>1, <1>7, <1>8 DEF CivilizationInv, ErasRemembered, OneOpenEraPerLife
<1>11. LessonsLearnt'
  <2>1. \A j \in DOMAIN eras : Pattern(eras'[j]) = Pattern(eras[j])
    BY <1>8 DEF Pattern
  <2>2. \A p : Ended(eras', p) = Ended(eras, p)
    BY <1>7, <1>8, <2>1 DEF Ended
  <2>3. Lasting(eras') = Lasting(eras)
    BY <1>7, <1>8 DEF Lasting
  <2> QED
    BY <1>1, <2>2, <2>3 DEF CivilizationInv, LessonsLearnt
<1> QED
  BY <1>9, <1>10, <1>11 DEF CivilizationInv

(* A new era: its swarm has none that is open in this life.                *)
LEMMA NewEraTyped ==
  ASSUME CivilizationTypes, NEW s \in Swarm, NEW kind \in EraKind, NEW r \in Readings,
         NEW ideology \in {None, "adaptive_anarchy"}
  PROVE  NewEra(s, kind, r.health, Governing(ideology)) \in Era
<1>1. Governing(ideology) \in Ideology
  BY DEF Governing, Ideology, CivilizationTypes
<1>2. r.health \in HealthGiven
  BY DEF HealthGiven
<1> QED
  BY <1>1, <1>2 DEF NewEra, Era, CivilizationTypes

LEMMA FoundEraKept ==
  ASSUME CivilizationInv, NEW s \in Swarm, NEW r \in Readings,
         NEW ideology \in {None, "adaptive_anarchy"}, FoundEra(s, r.health, ideology)
  PROVE  CivilizationInv'
<1> DEFINE n == Len(eras)
           new == NewEra(s, "founding", r.health, Governing(ideology))
<1>1. eras \in Seq(Era) /\ n \in Nat /\ DOMAIN eras = 1 .. n /\ life \in Nat /\ activeEras \in [Swarm -> Nat \cup {None}]
  BY DEF CivilizationInv, CivilizationTypes
<1>2. /\ activeEras[s] = None /\ eras' = Append(eras, new)
      /\ UNCHANGED <<philosophy, generation, structure, patterns, life>>
  BY DEF FoundEra
<1>3. new \in Era /\ new.open /\ new.swarm = s /\ new.life = life
  BY NewEraTyped DEF CivilizationInv, EraKind, NewEra
<1> HIDE DEF new
<1>4. /\ eras' \in Seq(Era) /\ Len(eras') = n + 1 /\ DOMAIN eras' = 1 .. n + 1 /\ eras'[n + 1] = new
      /\ \A j \in 1 .. n : eras'[j] = eras[j]
  BY <1>1, <1>2, <1>3
<1>5. activeEras' = [activeEras EXCEPT ![s] = n + 1]
  BY <1>4 DEF FoundEra
<1> HIDE DEF n
<1>6. CivilizationTypes'
  BY <1>1, <1>2, <1>4, <1>5 DEF CivilizationInv, CivilizationTypes
<1>7. \A j \in 1 .. n : ~(eras[j].open /\ eras[j].swarm = s /\ eras[j].life = life)
  BY <1>1, <1>2, RowAssumption DEF CivilizationInv, ErasRemembered
<1>8. n + 1 # None
  BY <1>1, RowAssumption
<1>9. ErasRemembered'
  <2>1. ASSUME NEW j \in 1 .. n + 1
        PROVE  eras'[j].life <= life /\ (eras'[j].open /\ eras'[j].life = life => activeEras'[eras'[j].swarm] = j)
    <3>1. CASE j = n + 1
      BY <1>1, <1>3, <1>4, <1>5, <3>1
    <3>2. CASE j \in 1 .. n
      <4>1. eras[j].life <= life /\ (eras[j].open /\ eras[j].life = life => activeEras[eras[j].swarm] = j)
        BY <1>1, <3>2 DEF CivilizationInv, ErasRemembered
      <4> QED
        BY <1>1, <1>4, <1>5, <1>7, <3>2, <4>1
    <3> QED
      BY <1>1, <3>1, <3>2
  <2>2. ASSUME NEW t \in Swarm, activeEras'[t] # None
        PROVE  /\ activeEras'[t] \in 1 .. n + 1
               /\ eras'[activeEras'[t]].open /\ eras'[activeEras'[t]].swarm = t /\ eras'[activeEras'[t]].life = life
    <3>1. CASE t = s
      BY <1>1, <1>3, <1>4, <1>5, <3>1
    <3>2. CASE t # s
      <4>1. activeEras'[t] = activeEras[t]
        BY <1>1, <1>5, <3>2
      <4>2. /\ activeEras[t] \in 1 .. n
            /\ eras[activeEras[t]].open /\ eras[activeEras[t]].swarm = t /\ eras[activeEras[t]].life = life
        BY <1>1, <2>2, <4>1, RememberedEra
      <4> QED
        BY <1>1, <1>4, <4>1, <4>2
    <3> QED
      BY <3>1, <3>2
  <2>3. ASSUME NEW i \in 1 .. n + 1, NEW j \in 1 .. n + 1, eras'[i].open, eras'[j].open,
               eras'[i].swarm = eras'[j].swarm, eras'[i].life = eras'[j].life
        PROVE  i = j
    <3>1. CASE i \in 1 .. n /\ j \in 1 .. n
      <4>1. eras'[i] = eras[i] /\ eras'[j] = eras[j] /\ i \in DOMAIN eras /\ j \in DOMAIN eras
        BY <1>1, <1>4, <3>1
      <4>2. /\ eras[i].open /\ eras[j].open
            /\ eras[i].swarm = eras[j].swarm /\ eras[i].life = eras[j].life
        BY <2>3, <4>1
      <4>3. OneOpenEraPerLife
        BY DEF CivilizationInv, ErasRemembered
      <4> QED
        BY <4>1, <4>2, <4>3 DEF OneOpenEraPerLife
    <3>2. CASE i = n + 1 /\ j \in 1 .. n
      BY <1>3, <1>4, <1>7, <2>3, <3>2
    <3>3. CASE i \in 1 .. n /\ j = n + 1
      BY <1>3, <1>4, <1>7, <2>3, <3>3
    <3> QED
      BY <1>1, <3>1, <3>2, <3>3
  <2> QED
    BY <1>2, <1>4, <2>1, <2>2, <2>3 DEF ErasRemembered, OneOpenEraPerLife
<1>10. LessonsLearnt'
  <2>1. \A p : Ended(eras', p) = Ended(eras, p)
    BY <1>1, <1>3, <1>4 DEF Ended
  <2>2. Lasting(eras') = Lasting(eras)
    BY <1>1, <1>3, <1>4 DEF Lasting
  <2> QED
    BY <1>2, <2>1, <2>2 DEF CivilizationInv, LessonsLearnt
<1> QED
  BY <1>6, <1>9, <1>10 DEF CivilizationInv

(* An era closes where it stands, and perhaps another opens behind: the    *)
(* one that closed has ended in its pattern, no other has.                 *)
LEMMA EraCloses ==
  ASSUME CivilizationTypes, NEW i \in DOMAIN eras, eras[i].open,
         \A j \in DOMAIN eras : j \in DOMAIN eras' /\ (j # i => eras'[j] = eras[j]),
         eras'[i] = [eras[i] EXCEPT !.open = FALSE],
         \A j \in DOMAIN eras' : j \in DOMAIN eras \/ eras'[j].open
  PROVE  /\ Ended(eras', Pattern(eras[i])) = Ended(eras, Pattern(eras[i])) \cup {i}
         /\ \A p : p # Pattern(eras[i]) => Ended(eras', p) = Ended(eras, p)
         /\ Lasting(eras') = IF eras[i].kind \in {"golden_age", "crisis"} THEN Lasting(eras) \cup {i} ELSE Lasting(eras)
         /\ i \notin Lasting(eras) /\ \A p : i \notin Ended(eras, p)
<1>1. eras[i] \in Era
  BY DEF CivilizationTypes
<1>2. /\ ~eras'[i].open /\ eras'[i].kind = eras[i].kind /\ eras'[i].swarm = eras[i].swarm
      /\ eras'[i].ideology = eras[i].ideology
  BY <1>1 DEF Era
<1>3. Pattern(eras'[i]) = Pattern(eras[i])
  BY <1>2 DEF Pattern
<1>4. i \notin Lasting(eras) /\ \A p : i \notin Ended(eras, p)
  BY DEF Lasting, Ended
<1>5. Ended(eras', Pattern(eras[i])) = Ended(eras, Pattern(eras[i])) \cup {i}
  BY <1>2, <1>3 DEF Ended
<1>6. ASSUME NEW p, p # Pattern(eras[i]) PROVE Ended(eras', p) = Ended(eras, p)
  BY <1>2, <1>3, <1>6 DEF Ended
<1>7. Lasting(eras') = IF eras[i].kind \in {"golden_age", "crisis"} THEN Lasting(eras) \cup {i} ELSE Lasting(eras)
  BY <1>2 DEF Lasting
<1> QED
  BY <1>4, <1>5, <1>6, <1>7

(* The sets of eras are finite.                                            *)
LEMMA EndedFinite ==
  ASSUME CivilizationTypes
  PROVE  /\ \A p : IsFiniteSet(Ended(eras, p)) /\ Cardinality(Ended(eras, p)) \in Nat
         /\ IsFiniteSet(Lasting(eras)) /\ Cardinality(Lasting(eras)) \in Nat
<1>1. Len(eras) \in Nat /\ Lasting(eras) \in SUBSET (1 .. Len(eras)) /\ \A p : Ended(eras, p) \in SUBSET (1 .. Len(eras))
  BY DEF CivilizationTypes, Ended, Lasting
<1> QED
  BY <1>1, CountPlaces

(* Learning from an era adds one recurrence, or a new pattern.             *)
LEMMA LessonAdded ==
  ASSUME CivilizationTypes, NEW i \in DOMAIN eras,
         eras[i].kind \in {"golden_age", "crisis"}, patterns' = Reinforced(eras[i])
  PROVE  /\ patterns' \in [DOMAIN patterns \cup {Pattern(eras[i])} -> Nat]
         /\ patterns'[Pattern(eras[i])] = (IF Pattern(eras[i]) \in DOMAIN patterns THEN patterns[Pattern(eras[i])] ELSE 0) + 1
         /\ \A p \in DOMAIN patterns \ {Pattern(eras[i])} : patterns'[p] = patterns[p]
         /\ \E x : x \notin Recurrences(patterns) /\ Recurrences(patterns') = Recurrences(patterns) \cup {x}
<1> DEFINE q == Pattern(eras[i])
           old == IF q \in DOMAIN patterns THEN patterns[q] ELSE 0
<1>1. patterns \in [DOMAIN patterns -> Nat]
  BY DEF CivilizationTypes
<1>2. patterns' = [p \in DOMAIN patterns \cup {q} |->
                     (IF p \in DOMAIN patterns THEN patterns[p] ELSE 0) + (IF p = q THEN 1 ELSE 0)]
  BY DEF Reinforced
<1>3. old \in Nat
  BY <1>1
<1> HIDE DEF q
<1>4. /\ DOMAIN patterns' = DOMAIN patterns \cup {q}
      /\ patterns'[q] = old + 1
      /\ \A p \in DOMAIN patterns \ {q} : patterns'[p] = patterns[p]
  BY <1>1, <1>2
<1>5. patterns' \in [DOMAIN patterns \cup {q} -> Nat]
  BY <1>1, <1>2
<1>6. \A p, k : <<p, k>> \in Recurrences(patterns) <=> p \in DOMAIN patterns /\ k \in 1 .. patterns[p]
  BY DEF Recurrences
<1>7. \A p, k : <<p, k>> \in Recurrences(patterns') <=> p \in DOMAIN patterns' /\ k \in 1 .. patterns'[p]
  BY DEF Recurrences
<1>8. (\A x \in Recurrences(patterns) : x = <<x[1], x[2]>>) /\ (\A x \in Recurrences(patterns') : x = <<x[1], x[2]>>)
  BY DEF Recurrences
<1>9. <<q, old + 1>> \notin Recurrences(patterns)
  BY <1>3, <1>6
<1>10. \A p, k : <<p, k>> \in Recurrences(patterns') <=> <<p, k>> \in Recurrences(patterns) \/ (p = q /\ k = old + 1)
  <2>1. ASSUME NEW p, NEW k, p # q
        PROVE  <<p, k>> \in Recurrences(patterns') <=> <<p, k>> \in Recurrences(patterns)
    BY <1>4, <1>6, <1>7, <2>1
  <2>2. ASSUME NEW k
        PROVE  <<q, k>> \in Recurrences(patterns') <=> <<q, k>> \in Recurrences(patterns) \/ k = old + 1
    <3>1. <<q, k>> \in Recurrences(patterns') <=> k \in 1 .. old + 1
      BY <1>4, <1>7
    <3>2. <<q, k>> \in Recurrences(patterns) <=> k \in 1 .. old
      <4>1. CASE q \in DOMAIN patterns
        BY <1>6, <4>1
      <4>2. CASE q \notin DOMAIN patterns
        BY <1>6, <4>2
      <4> QED
        BY <4>1, <4>2
    <3> HIDE DEF old
    <3>3. k \in 1 .. old + 1 <=> k \in 1 .. old \/ k = old + 1
      BY <1>3
    <3> QED
      BY <3>1, <3>2, <3>3
  <2> QED
    BY <2>1, <2>2
<1> HIDE DEF old
<1>11. Recurrences(patterns') = Recurrences(patterns) \cup {<<q, old + 1>>}
  <2>1. ASSUME NEW x PROVE x \in Recurrences(patterns') <=> x \in Recurrences(patterns) \cup {<<q, old + 1>>}
    <3>1. CASE x = <<x[1], x[2]>>
      <4>1. x = <<q, old + 1>> <=> x[1] = q /\ x[2] = old + 1
        BY <3>1
      <4> QED
        BY <1>10, <3>1, <4>1
    <3>2. CASE x # <<x[1], x[2]>>
      BY <1>8, <3>2
    <3> QED
      BY <3>1, <3>2
  <2> QED
    BY <2>1
<1> QED
  BY <1>4, <1>5, <1>9, <1>11 DEF q, old

LEMMA LessonsClose ==
  ASSUME CivilizationTypes, LessonsLearnt, NEW i \in DOMAIN eras, eras[i].open,
         \A j \in DOMAIN eras : j \in DOMAIN eras' /\ (j # i => eras'[j] = eras[j]),
         eras'[i] = [eras[i] EXCEPT !.open = FALSE],
         \A j \in DOMAIN eras' : j \in DOMAIN eras \/ eras'[j].open,
         \/ patterns' = Reinforced(eras[i]) /\ life' \in {life, life + 1}
         \/ patterns' = patterns /\ life' = life + 1
  PROVE  LessonsLearnt' /\ patterns' \in [DOMAIN patterns' -> Nat]
<1> DEFINE q == Pattern(eras[i])
           lesson == eras[i].kind \in {"golden_age", "crisis"}
<1>1. /\ Ended(eras', q) = Ended(eras, q) \cup {i}
      /\ \A p : p # q => Ended(eras', p) = Ended(eras, p)
      /\ Lasting(eras') = IF lesson THEN Lasting(eras) \cup {i} ELSE Lasting(eras)
      /\ i \notin Lasting(eras) /\ \A p : i \notin Ended(eras, p)
  BY EraCloses
<1>2. /\ \A p : IsFiniteSet(Ended(eras, p)) /\ Cardinality(Ended(eras, p)) \in Nat
      /\ IsFiniteSet(Lasting(eras)) /\ Cardinality(Lasting(eras)) \in Nat
  BY EndedFinite
<1>3. patterns \in [DOMAIN patterns -> Nat] /\ life \in Nat
  BY DEF CivilizationTypes
<1>4. /\ IsFiniteSet(Recurrences(patterns))
      /\ \A p \in DOMAIN patterns : patterns[p] <= Cardinality(Ended(eras, p))
      /\ Cardinality(Lasting(eras)) < Cardinality(Recurrences(patterns)) + life
  BY DEF LessonsLearnt
<1>5. Cardinality(Recurrences(patterns)) \in Nat
  BY <1>4, FS_CardinalityType
<1>6. Cardinality(Ended(eras', q)) = Cardinality(Ended(eras, q)) + 1
  <2>1. PICK S : S = Ended(eras, q)
    OBVIOUS
  <2>2. IsFiniteSet(S) /\ i \notin S /\ Ended(eras', q) = S \cup {i}
    BY <1>1, <1>2, <2>1
  <2>3. Cardinality(S \cup {i}) = Cardinality(S) + 1
    BY ONLY <2>2, FS_AddElement
  <2> HIDE DEF q
  <2> QED
    BY <2>1, <2>2, <2>3
<1>7. Cardinality(Lasting(eras')) = Cardinality(Lasting(eras)) + (IF lesson THEN 1 ELSE 0)
  <2>1. CASE lesson
    <3>1. PICK S : S = Lasting(eras)
      OBVIOUS
    <3>2. IsFiniteSet(S) /\ i \notin S /\ Lasting(eras') = S \cup {i}
      BY <1>1, <1>2, <2>1, <3>1
    <3>3. Cardinality(S \cup {i}) = Cardinality(S) + 1
      BY ONLY <3>2, FS_AddElement
    <3> HIDE DEF lesson
    <3> QED
      BY <2>1, <3>1, <3>2, <3>3
  <2>2. CASE ~lesson
    <3>1. Lasting(eras') = Lasting(eras)
      BY <1>1, <2>2
    <3> QED
      BY <1>2, <2>2, <3>1
  <2> QED
    BY <2>1, <2>2
<1>8. CASE patterns' = patterns
  <2>1. life' \in {life, life + 1} /\ (lesson => life' = life + 1)
    <3>1. CASE lesson /\ patterns' = Reinforced(eras[i])
      <4>1. q \in DOMAIN patterns /\ patterns[q] = patterns[q] + 1
        <5>1. /\ patterns' \in [DOMAIN patterns \cup {q} -> Nat]
              /\ patterns'[q] = (IF q \in DOMAIN patterns THEN patterns[q] ELSE 0) + 1
          BY <3>1, LessonAdded
        <5> HIDE DEF q
        <5> QED
          BY <1>8, <5>1
      <4> HIDE DEF q
      <4> QED
        BY <1>3, <4>1
    <3> QED
      BY <3>1
  <2>2. \A p \in DOMAIN patterns : patterns[p] <= Cardinality(Ended(eras', p))
    <3> HIDE DEF q
    <3>1. ASSUME NEW p \in DOMAIN patterns PROVE patterns[p] <= Cardinality(Ended(eras', p))
      <4>1. CASE p = q
        BY <1>2, <1>3, <1>4, <1>6, <4>1
      <4>2. CASE p # q
        BY <1>1, <1>4, <4>2
      <4> QED
        BY <4>1, <4>2
    <3> QED
      BY <3>1
  <2>3. Cardinality(Lasting(eras')) < Cardinality(Recurrences(patterns)) + life'
    <3> HIDE DEF lesson
    <3>1. CASE lesson
      BY <1>2, <1>3, <1>4, <1>5, <1>7, <2>1, <3>1
    <3>2. CASE ~lesson
      BY <1>2, <1>3, <1>4, <1>5, <1>7, <2>1, <3>2
    <3> QED
      BY <3>1, <3>2
  <2> QED
    BY <1>3, <1>4, <1>8, <2>2, <2>3 DEF LessonsLearnt
<1>9. CASE patterns' # patterns
  <2>1. lesson /\ patterns' = Reinforced(eras[i]) /\ life' \in {life, life + 1}
    BY <1>9 DEF Reinforced
  <2>2. /\ patterns' \in [DOMAIN patterns \cup {q} -> Nat]
        /\ patterns'[q] = (IF q \in DOMAIN patterns THEN patterns[q] ELSE 0) + 1
        /\ \A p \in DOMAIN patterns \ {q} : patterns'[p] = patterns[p]
        /\ \E x : x \notin Recurrences(patterns) /\ Recurrences(patterns') = Recurrences(patterns) \cup {x}
    BY <2>1, LessonAdded
  <2>3. IsFiniteSet(Recurrences(patterns')) /\ Cardinality(Recurrences(patterns')) = Cardinality(Recurrences(patterns)) + 1
    BY <1>4, <2>2, FS_AddElement
  <2> HIDE DEF q
  <2>4. ASSUME NEW p \in DOMAIN patterns' PROVE patterns'[p] <= Cardinality(Ended(eras', p))
    <3>1. CASE p = q
      <4>1. CASE q \in DOMAIN patterns
        <5>1. patterns[q] \in Nat /\ patterns[q] <= Cardinality(Ended(eras, q)) /\ patterns'[q] = patterns[q] + 1
          BY <1>3, <1>4, <2>2, <4>1
        <5> QED
          BY <1>2, <1>6, <3>1, <5>1
      <4>2. CASE q \notin DOMAIN patterns
        <5>1. patterns'[q] = 1
          BY <2>2, <4>2
        <5> QED
          BY <1>2, <1>6, <3>1, <5>1
      <4> QED
        BY <4>1, <4>2
    <3>2. CASE p # q
      BY <1>1, <1>4, <2>2, <3>2
    <3> QED
      BY <3>1, <3>2
  <2>5. Cardinality(Lasting(eras')) < Cardinality(Recurrences(patterns')) + life'
    <3>1. Cardinality(Lasting(eras')) = Cardinality(Lasting(eras)) + 1
      BY <1>7, <2>1
    <3> QED
      BY <1>2, <1>3, <1>4, <1>5, <2>1, <2>3, <3>1
  <2> QED
    BY <2>2, <2>3, <2>4, <2>5 DEF LessonsLearnt
<1> QED
  BY <1>8, <1>9

(* A new life remembers no era, and the open eras are all of earlier ones. *)
LEMMA ForgottenKept ==
  ASSUME CivilizationInv, Forgotten, eras' \in Seq(Era), DOMAIN eras' = DOMAIN eras,
         \A j \in DOMAIN eras : /\ eras'[j].open => eras[j].open
                                /\ eras'[j].swarm = eras[j].swarm /\ eras'[j].life = eras[j].life
  PROVE  ErasRemembered' /\ (patterns' \in [DOMAIN patterns' -> Nat] => CivilizationTypes')
<1>1. /\ philosophy' = None /\ structure' = None /\ life' = life + 1
      /\ activeEras' = [s \in Swarm |-> None]
  BY DEF Forgotten
<1>2. life \in Nat \ {0} /\ \A j \in DOMAIN eras : eras[j].life \in Nat /\ eras[j].life <= life
  <2>1. life \in Nat \ {0} /\ \A j \in DOMAIN eras : eras[j] \in Era
    BY DEF CivilizationInv, CivilizationTypes
  <2>2. \A j \in DOMAIN eras : eras[j].life <= life
    BY DEF CivilizationInv, ErasRemembered
  <2> QED
    BY <2>1, <2>2 DEF Era
<1>3. \A j \in DOMAIN eras' : eras'[j].life <= life' /\ eras'[j].life # life'
  BY <1>1, <1>2
<1>4. \A s \in Swarm : activeEras'[s] = None
  BY <1>1
<1>5. OneOpenEraPerLife'
  BY <1>4 DEF CivilizationInv, ErasRemembered, OneOpenEraPerLife
<1>6. ErasRemembered'
  BY <1>3, <1>4, <1>5 DEF ErasRemembered
<1>7. patterns' \in [DOMAIN patterns' -> Nat] => CivilizationTypes'
  BY <1>1, <1>2 DEF CivilizationTypes
<1> QED
  BY <1>6, <1>7

LEMMA RestartKept ==
  ASSUME CivilizationInv, CivilizationRestart
  PROVE  CivilizationInv'
<1>1. Forgotten /\ eras' = eras /\ patterns' = patterns
  BY DEF CivilizationRestart
<1>2. eras \in Seq(Era) /\ patterns \in [DOMAIN patterns -> Nat] /\ life \in Nat
  BY DEF CivilizationInv, CivilizationTypes
<1>3. ErasRemembered' /\ CivilizationTypes'
  BY <1>1, <1>2, ForgottenKept
<1>4. LessonsLearnt'
  <2>1. life' = life + 1
    BY <1>1 DEF Forgotten
  <2>2. IsFiniteSet(Recurrences(patterns)) /\ Cardinality(Lasting(eras)) < Cardinality(Recurrences(patterns)) + life
    BY DEF CivilizationInv, LessonsLearnt
  <2>3. Cardinality(Lasting(eras)) \in Nat /\ Cardinality(Recurrences(patterns)) \in Nat
    BY <2>2, EndedFinite, FS_CardinalityType DEF CivilizationInv
  <2>4. Cardinality(Lasting(eras)) < Cardinality(Recurrences(patterns)) + (life + 1)
    BY <1>2, <2>2, <2>3
  <2> QED
    BY <1>1, <2>1, <2>4 DEF CivilizationInv, LessonsLearnt
<1> QED
  BY <1>3, <1>4 DEF CivilizationInv

LEMMA ChangeEraKept ==
  ASSUME CivilizationInv, NEW s \in Swarm, NEW r \in Readings,
         NEW ideology \in {None, "adaptive_anarchy"}, ChangeEra(s, r.health, ideology)
  PROVE  CivilizationInv'
<1> DEFINE i == activeEras[s]
           n == Len(eras)
           closed == [eras EXCEPT ![i].open = FALSE]
           kind == ClassifyEraKind(r.health, eras[i])
           new == NewEra(s, kind, r.health, Governing(ideology))
<1>1. /\ eras \in Seq(Era) /\ n \in Nat /\ DOMAIN eras = 1 .. n /\ life \in Nat \ {0}
      /\ activeEras \in [Swarm -> Nat \cup {None}]
  BY DEF CivilizationInv, CivilizationTypes
<1>2. i # None
  BY DEF ChangeEra
<1>3. i \in 1 .. n /\ eras[i] \in Era /\ eras[i].open /\ eras[i].swarm = s /\ eras[i].life = life
  BY <1>1, <1>2, RememberedEra
<1>4. kind \in EraKind
  BY <1>3 DEF ClassifyEraKind, EraKind, Era
<1>5. new \in Era /\ new.open /\ new.swarm = s /\ new.life = life
  BY <1>4, NewEraTyped DEF CivilizationInv, NewEra
<1>6. \/ /\ eras' = Append(closed, new)
         /\ activeEras' = [activeEras EXCEPT ![s] = Len(eras')]
         /\ patterns' = Reinforced(eras[i])
         /\ UNCHANGED <<philosophy, generation, structure, life>>
      \/ Forgotten /\ eras' = closed /\ (patterns' = patterns \/ patterns' = Reinforced(eras[i]))
  BY DEF ChangeEra
<1> DEFINE e == [eras[i] EXCEPT !.open = FALSE]
<1>7. e \in Era /\ ~e.open /\ e.swarm = s /\ e.life = life
  BY <1>3 DEF Era
<1>8. closed = [eras EXCEPT ![i] = e]
  BY <1>1, <1>3
<1>9. e = [eras[i] EXCEPT !.open = FALSE]
  OBVIOUS
<1> HIDE DEF new, closed, kind, e, i
<1>10. /\ closed \in Seq(Era) /\ DOMAIN closed = 1 .. n /\ Len(closed) = n /\ closed[i] = e
       /\ \A j \in 1 .. n : j # i => closed[j] = eras[j]
  BY <1>1, <1>3, <1>7, <1>8
<1>11. \A j \in 1 .. n : /\ closed[j].open => eras[j].open /\ j # i
                         /\ closed[j].swarm = eras[j].swarm /\ closed[j].life = eras[j].life
  BY <1>3, <1>7, <1>10
<1>12. CASE Forgotten /\ eras' = closed /\ (patterns' = patterns \/ patterns' = Reinforced(eras[i]))
  <2>1. life' = life + 1
    BY <1>12 DEF Forgotten
  <2>2. LessonsLearnt' /\ patterns' \in [DOMAIN patterns' -> Nat]
    <3>1. CivilizationTypes /\ LessonsLearnt
      BY DEF CivilizationInv
    <3>2. i \in DOMAIN eras /\ eras[i].open
      BY <1>1, <1>3
    <3>3. \A j \in DOMAIN eras : j \in DOMAIN eras' /\ (j # i => eras'[j] = eras[j])
      BY <1>1, <1>10, <1>12
    <3>4. eras'[i] = [eras[i] EXCEPT !.open = FALSE]
      BY <1>9, <1>10, <1>12
    <3>5. \A j \in DOMAIN eras' : j \in DOMAIN eras \/ eras'[j].open
      BY <1>1, <1>10, <1>12
    <3>6. \/ patterns' = Reinforced(eras[i]) /\ life' \in {life, life + 1}
          \/ patterns' = patterns /\ life' = life + 1
      BY <1>12, <2>1
    <3> QED
      BY <3>1, <3>2, <3>3, <3>4, <3>5, <3>6, LessonsClose
  <2>3. ErasRemembered' /\ (patterns' \in [DOMAIN patterns' -> Nat] => CivilizationTypes')
    BY <1>1, <1>10, <1>11, <1>12, ForgottenKept
  <2> QED
    BY <2>2, <2>3 DEF CivilizationInv
<1>13. CASE /\ eras' = Append(closed, new)
            /\ activeEras' = [activeEras EXCEPT ![s] = Len(eras')]
            /\ patterns' = Reinforced(eras[i])
            /\ UNCHANGED <<philosophy, generation, structure, life>>
  <2>1. /\ eras' \in Seq(Era) /\ Len(eras') = n + 1 /\ DOMAIN eras' = 1 .. n + 1 /\ eras'[n + 1] = new
        /\ \A j \in 1 .. n : eras'[j] = closed[j]
    BY <1>1, <1>5, <1>10, <1>13
  <2>2. activeEras' = [activeEras EXCEPT ![s] = n + 1]
    BY <1>13, <2>1
  <2> HIDE DEF n
  <2>3. LessonsLearnt' /\ patterns' \in [DOMAIN patterns' -> Nat]
    <3>1. CivilizationTypes /\ LessonsLearnt
      BY DEF CivilizationInv
    <3>2. i \in DOMAIN eras /\ eras[i].open
      BY <1>1, <1>3
    <3>3. \A j \in DOMAIN eras : j \in DOMAIN eras' /\ (j # i => eras'[j] = eras[j])
      BY <1>1, <1>10, <2>1
    <3>4. eras'[i] = [eras[i] EXCEPT !.open = FALSE]
      BY <1>3, <1>9, <1>10, <2>1
    <3>5. \A j \in DOMAIN eras' : j \in DOMAIN eras \/ eras'[j].open
      BY <1>1, <1>5, <2>1
    <3>6. \/ patterns' = Reinforced(eras[i]) /\ life' \in {life, life + 1}
          \/ patterns' = patterns /\ life' = life + 1
      BY <1>13
    <3> QED
      BY <3>1, <3>2, <3>3, <3>4, <3>5, <3>6, LessonsClose
  <2>4. CivilizationTypes'
    BY <1>1, <1>13, <2>1, <2>2, <2>3 DEF CivilizationInv, CivilizationTypes
  <2>5. \A j \in 1 .. n : ~(eras'[j].open /\ eras'[j].swarm = s /\ eras'[j].life = life)
    <3>1. ASSUME NEW j \in 1 .. n, eras'[j].open, eras'[j].swarm = s, eras'[j].life = life
          PROVE  FALSE
      <4>1. eras[j].open /\ eras[j].swarm = s /\ eras[j].life = life /\ j # i
        BY <1>11, <2>1, <3>1
      <4>2. i = j
        BY <1>1, <1>3, <4>1 DEF CivilizationInv, ErasRemembered, OneOpenEraPerLife
      <4> QED
        BY <4>1, <4>2
    <3> QED
      BY <3>1
  <2>6. n + 1 # None
    BY <1>1, RowAssumption
  <2>7. ASSUME NEW j \in 1 .. n + 1
        PROVE  eras'[j].life <= life /\ (eras'[j].open /\ eras'[j].life = life => activeEras'[eras'[j].swarm] = j)
    <3>1. CASE j = n + 1
      BY <1>1, <1>5, <2>1, <2>2, <3>1
    <3>2. CASE j \in 1 .. n
      <4>1. eras[j].life <= life /\ (eras[j].open /\ eras[j].life = life => activeEras[eras[j].swarm] = j)
        BY <1>1, <3>2 DEF CivilizationInv, ErasRemembered
      <4>2. /\ eras'[j].open => eras[j].open
            /\ eras'[j].swarm = eras[j].swarm /\ eras'[j].life = eras[j].life
        BY <1>11, <2>1, <3>2
      <4> QED
        BY <1>1, <2>2, <2>5, <3>2, <4>1, <4>2
    <3> QED
      BY <1>1, <3>1, <3>2
  <2>8. ASSUME NEW t \in Swarm, activeEras'[t] # None
        PROVE  /\ activeEras'[t] \in 1 .. n + 1
               /\ eras'[activeEras'[t]].open /\ eras'[activeEras'[t]].swarm = t /\ eras'[activeEras'[t]].life = life
    <3>1. CASE t = s
      BY <1>1, <1>5, <2>1, <2>2, <3>1
    <3>2. CASE t # s
      <4>1. activeEras'[t] = activeEras[t]
        BY <1>1, <2>2, <3>2
      <4> DEFINE j == activeEras[t]
      <4>2. j \in 1 .. n /\ eras[j].open /\ eras[j].swarm = t /\ eras[j].life = life
        BY <1>1, <2>8, <4>1, RememberedEra
      <4>3. j # i
        BY <1>3, <3>2, <4>2
      <4>4. eras'[j] = eras[j]
        BY <1>10, <2>1, <4>2, <4>3
      <4> HIDE DEF j
      <4>5. activeEras'[t] = j
        BY <4>1 DEF j
      <4> QED
        BY <1>1, <4>2, <4>4, <4>5
    <3> QED
      BY <3>1, <3>2
  <2>9. ASSUME NEW j \in 1 .. n + 1, NEW k \in 1 .. n + 1, eras'[j].open, eras'[k].open,
               eras'[j].swarm = eras'[k].swarm, eras'[j].life = eras'[k].life
        PROVE  j = k
    <3>1. CASE j \in 1 .. n /\ k \in 1 .. n
      <4>1. /\ eras[j].open /\ eras[k].open
            /\ eras[j].swarm = eras[k].swarm /\ eras[j].life = eras[k].life
        BY <1>11, <2>1, <2>9, <3>1
      <4> QED
        BY <1>1, <3>1, <4>1 DEF CivilizationInv, ErasRemembered, OneOpenEraPerLife
    <3>2. CASE j = n + 1 /\ k \in 1 .. n
      BY <1>5, <2>1, <2>5, <2>9, <3>2
    <3>3. CASE j \in 1 .. n /\ k = n + 1
      BY <1>5, <2>1, <2>5, <2>9, <3>3
    <3> QED
      BY <1>1, <3>1, <3>2, <3>3
  <2>10. ErasRemembered'
    BY <1>13, <2>1, <2>7, <2>8, <2>9 DEF ErasRemembered, OneOpenEraPerLife
  <2> QED
    BY <2>3, <2>4, <2>10 DEF CivilizationInv
<1> QED
  BY <1>6, <1>12, <1>13

LEMMA CivilizationStarts == CivilizationInit => CivilizationInv
<1> SUFFICES ASSUME CivilizationInit PROVE CivilizationInv
  OBVIOUS
<1>1. CivilizationTypes
  BY DEF CivilizationInit, CivilizationTypes
<1>2. ErasRemembered
  BY DEF CivilizationInit, ErasRemembered, OneOpenEraPerLife
<1>3. LessonsLearnt
  <2>1. Recurrences(patterns) = {} /\ Lasting(eras) = {} /\ DOMAIN patterns = {} /\ life = 1
    BY DEF CivilizationInit, Recurrences, Lasting
  <2>2. IsFiniteSet(Recurrences(patterns)) /\ Cardinality(Recurrences(patterns)) = 0 /\ Cardinality(Lasting(eras)) = 0
    BY <2>1, FS_EmptySet
  <2> QED
    BY <2>1, <2>2 DEF LessonsLearnt
<1> QED
  BY <1>1, <1>2, <1>3 DEF CivilizationInv

LEMMA CivilizationKept == CivilizationInv /\ CivilizationStep => CivilizationInv'
<1> SUFFICES ASSUME CivilizationInv, CivilizationStep PROVE CivilizationInv'
  OBVIOUS
<1>1. \/ EvolvePhilosophy \/ (\E r \in Readings : EvolveStructure(r) \/ FormInstitutions(r)) \/ UNCHANGED civilization
      \/ CivilizationRestart
      \/ \E s \in Swarm, r \in Readings : Snapshot(s, r.health)
      \/ \E s \in Swarm, r \in Readings, i \in {None, "adaptive_anarchy"} :
           FoundEra(s, r.health, i) \/ ChangeEra(s, r.health, i)
  BY Zenon DEF CivilizationStep, StructureNext, MemoryNext
<1> QED
  BY <1>1, StructureKept, RestartKept, SnapshotKept, FoundEraKept, ChangeEraKept

LEMMA CivilizationSteps == [Next]_intelligence => CivilizationStep
BY Zenon DEF Next, intelligence, services, CivilizationStep, OversightRequest, PlanetaryRequest, StructureRequest,
   MemoryRequest, GovernorRequest, CollectiveRequest, InsightRequest, EvolutionRequest, LearningRequest, Restart

(* Whatever order the swarms' readings come in and wherever the process    *)
(* dies: a life leaves one era of a swarm open at most, patterns recur as  *)
(* eras have ended but for one a crash, and no institution is there twice. *)
THEOREM HistoryAlwaysAgrees == Spec => []HistoryAgrees
<1>1. Init => CivilizationInv
  BY CivilizationStarts DEF Init
<1>2. CivilizationInv /\ [Next]_intelligence => CivilizationInv'
  BY CivilizationKept, CivilizationSteps
<1>3. CivilizationInv => HistoryAgrees
  <2> SUFFICES ASSUME CivilizationInv PROVE HistoryAgrees
    OBVIOUS
  <2>1. OneOpenEraPerLife
    BY DEF CivilizationInv, ErasRemembered
  <2>2. PatternsCountEras
    BY DEF CivilizationInv, LessonsLearnt, PatternsCountEras, Ended, Lasting, Recurrences
  <2>3. OneInstitutionPerKind
    BY DEF CivilizationInv, CivilizationTypes, OneInstitutionPerKind
  <2> QED
    BY <2>1, <2>2, <2>3 DEF HistoryAgrees
<1> QED
  BY <1>1, <1>2, <1>3, PTL DEF Spec

-----------------------------------------------------------------------------
(* The governors: what they remember.                                      *)

WantedKeys ==
  (UNION {Keys(Confident(r), DOMAIN Confident(r)) : r \in Reports})
    \cup (UNION {Keys(EcoCandidates(e), DOMAIN EcoCandidates(e)) : e \in Ecosystems})
Decision ==
  [by : {"swarm", "ecosystem"}, at : Nat, wanted : SUBSET WantedKeys,
   ordered : SUBSET WantedKeys, dropped : SUBSET WantedKeys]
Considered(d) == d.ordered \cup d.dropped

(* A memory knows when its governor last considered what is in it, by the  *)
(* decisions ds.                                                           *)
Remembers(memory, by, ds) ==
  /\ \A k \in DOMAIN memory : \E m \in DOMAIN ds :
       ds[m].by = by /\ k \in Considered(ds[m]) /\ memory[k] = ds[m].at
  /\ \A m \in DOMAIN ds : ds[m].by = by =>
       \A k \in Considered(ds[m]) : k \in DOMAIN memory /\ memory[k] >= ds[m].at

GovernorInv ==
  /\ clock \in Nat
  /\ recentActions \in [DOMAIN recentActions -> Nat] /\ ecoActions \in [DOMAIN ecoActions -> Nat]
  /\ decisions \in Seq(Decision) /\ \A m \in DOMAIN decisions : decisions[m].at <= clock
  /\ Remembers(recentActions, "swarm", decisions)
  /\ Remembers(ecoActions, "ecosystem", decisions)
  /\ WithheldWasOrdered

GovernorStep == GovernorNext \/ GovernorRestart \/ UNCHANGED governor

(* Some place of a list is the first with its key.                         *)
LEMMA FirstPlace ==
  ASSUME NEW list, IsList(list), NEW n \in DOMAIN list
  PROVE  \E i \in DOMAIN list : /\ list[i].key = list[n].key
                                /\ ~\E m \in 1 .. i - 1 : list[m].key = list[i].key
<1> DEFINE same == {i \in DOMAIN list : list[i].key = list[n].key}
<1>1. DOMAIN list = 1 .. Len(list) /\ Len(list) \in Nat
  BY DEF IsList
<1>2. same \subseteq Nat /\ n \in same
  BY <1>1
<1>3. IsWellFoundedOn(OpToRel(<, Nat), Nat)
  BY NatLessThanWellFounded
<1>4. PICK i \in same : \A m \in same : ~(<<m, i>> \in OpToRel(<, Nat))
  <2> HIDE DEF same
  <2> QED
    BY <1>2, <1>3, WFMin
<1>5. \A m \in same : ~(m < i)
  BY <1>2, <1>4 DEF OpToRel
<1>6. ASSUME NEW m \in 1 .. i - 1, list[m].key = list[i].key PROVE FALSE
  <2>1. m \in same /\ m < i
    BY <1>1, <1>6
  <2> QED
    BY <1>5, <2>1
<1> QED
  BY <1>6

(* The gate passes what is wanted unless its key is on cooldown.           *)
LEMMA GateByKey ==
  ASSUME NEW list, IsList(list), NEW memory, NEW cooldown, NEW k \in Keys(list, DOMAIN list)
  PROVE  k \in Keys(list, Passing(list, memory, cooldown)) <=> ~Recent(memory, k, cooldown)
<1>1. PICK n \in DOMAIN list : list[n].key = k
  BY DEF Keys
<1>2. PICK i \in DOMAIN list : /\ list[i].key = k
                               /\ ~\E m \in 1 .. i - 1 : list[m].key = list[i].key
  BY <1>1, FirstPlace
<1>3. ASSUME ~Recent(memory, k, cooldown) PROVE k \in Keys(list, Passing(list, memory, cooldown))
  <2>1. i \in Passing(list, memory, cooldown)
    BY <1>2, <1>3 DEF Passing
  <2> QED
    BY <1>2, <2>1 DEF Keys
<1>4. ASSUME k \in Keys(list, Passing(list, memory, cooldown)) PROVE ~Recent(memory, k, cooldown)
  BY <1>4 DEF Keys, Passing
<1> QED
  BY <1>3, <1>4

LEMMA GatedAreWanted ==
  ASSUME NEW list, NEW memory, NEW cooldown
  PROVE  Keys(list, Passing(list, memory, cooldown)) \subseteq Keys(list, DOMAIN list)
BY DEF Keys, Passing

(* A decision for governor by: it considers what it wants and has not      *)
(* considered within the cooldown.                                         *)
Rightful(d, ds, n) ==
  \A k \in d.wanted :
    k \in Considered(d) <=>
      ~\E m \in 1 .. n - 1 : ds[m].by = d.by /\ d.at - ds[m].at < Cooldown(d.by) /\ k \in Considered(ds[m])

LEMMA WithheldRightful ==
  /\ WithheldWasOrdered <=> \A n \in DOMAIN decisions : Rightful(decisions[n], decisions, n)
  /\ WithheldWasOrdered' <=> \A n \in DOMAIN decisions' : Rightful(decisions'[n], decisions', n)
BY DEF WithheldWasOrdered, Rightful, Considered

LEMMA RightfulDecision ==
  ASSUME GovernorInv, NEW by \in {"swarm", "ecosystem"}, NEW memory, Remembers(memory, by, decisions),
         memory \in [DOMAIN memory -> Nat],
         NEW d \in Decision, d.by = by, d.at = clock,
         \A k \in d.wanted : k \in Considered(d) <=> ~Recent(memory, k, Cooldown(by))
  PROVE  Rightful(d, decisions, Len(decisions) + 1)
<1>1. /\ Len(decisions) \in Nat /\ DOMAIN decisions = 1 .. Len(decisions) /\ clock \in Nat
      /\ \A m \in DOMAIN decisions : decisions[m].at \in Nat
  <2>1. \A m \in DOMAIN decisions : decisions[m] \in Decision
    BY DEF GovernorInv
  <2>2. \A m \in DOMAIN decisions : decisions[m].at \in Nat
    BY <2>1 DEF Decision
  <2> QED
    BY <2>2 DEF GovernorInv
<1>2. Cooldown(by) \in Nat
  BY DEF Cooldown
<1>3. Len(decisions) + 1 - 1 = Len(decisions)
  BY <1>1
<1>4. ASSUME NEW k \in d.wanted
      PROVE  Recent(memory, k, Cooldown(by)) <=>
               \E m \in DOMAIN decisions : /\ decisions[m].by = by /\ clock - decisions[m].at < Cooldown(by)
                                           /\ k \in Considered(decisions[m])
  <2>1. ASSUME Recent(memory, k, Cooldown(by))
        PROVE  \E m \in DOMAIN decisions : /\ decisions[m].by = by /\ clock - decisions[m].at < Cooldown(by)
                                           /\ k \in Considered(decisions[m])
    <3>1. k \in DOMAIN memory /\ clock - memory[k] < Cooldown(by)
      BY <2>1 DEF Recent
    <3>2. PICK m \in DOMAIN decisions :
            decisions[m].by = by /\ k \in Considered(decisions[m]) /\ memory[k] = decisions[m].at
      BY <3>1 DEF Remembers
    <3> QED
      BY <3>1, <3>2
  <2>2. ASSUME NEW m \in DOMAIN decisions, decisions[m].by = by, clock - decisions[m].at < Cooldown(by),
               k \in Considered(decisions[m])
        PROVE  Recent(memory, k, Cooldown(by))
    <3>1. k \in DOMAIN memory /\ memory[k] >= decisions[m].at
      BY <2>2 DEF Remembers
    <3>2. memory[k] \in Nat /\ decisions[m].at \in Nat
      BY <1>1, <3>1
    <3>3. clock - memory[k] < Cooldown(by)
      BY <1>1, <1>2, <2>2, <3>1, <3>2
    <3> QED
      BY <3>1, <3>3 DEF Recent
  <2> QED
    BY <2>1, <2>2
<1> QED
  BY <1>1, <1>3, <1>4 DEF Rightful

LEMMA RightfulSame ==
  ASSUME NEW d \in Decision, NEW n \in Nat, \A j \in 1 .. n - 1 : decisions'[j] = decisions[j],
         Rightful(d, decisions, n)
  PROVE  Rightful(d, decisions', n)
<1> SUFFICES ASSUME NEW k \in d.wanted
             PROVE  k \in Considered(d) <=>
                      ~\E m \in 1 .. n - 1 : /\ decisions'[m].by = d.by
                                             /\ d.at - decisions'[m].at < Cooldown(d.by)
                                             /\ k \in Considered(decisions'[m])
  BY DEF Rightful
<1>1. \A m \in 1 .. n - 1 :
        (/\ decisions'[m].by = d.by
         /\ d.at - decisions'[m].at < Cooldown(d.by)
         /\ k \in Considered(decisions'[m]))
        <=> (/\ decisions[m].by = d.by
             /\ d.at - decisions[m].at < Cooldown(d.by)
             /\ k \in Considered(decisions[m]))
  OBVIOUS
<1>2. k \in Considered(d) <=>
        ~\E m \in 1 .. n - 1 : /\ decisions[m].by = d.by
                               /\ d.at - decisions[m].at < Cooldown(d.by)
                               /\ k \in Considered(decisions[m])
  BY DEF Rightful
<1> QED
  BY <1>1, <1>2, Zenon

(* What was rightful stays so, for decisions are only added.               *)
LEMMA RightfulStays ==
  ASSUME GovernorInv, NEW d \in Decision, decisions' = Append(decisions, d),
         Rightful(d, decisions, Len(decisions) + 1)
  PROVE  WithheldWasOrdered'
<1> DEFINE n == Len(decisions)
<1>1. n \in Nat /\ DOMAIN decisions = 1 .. n /\ decisions \in Seq(Decision)
  BY DEF GovernorInv
<1>2. /\ DOMAIN decisions' = 1 .. n + 1 /\ decisions'[n + 1] = d
      /\ \A m \in 1 .. n : decisions'[m] = decisions[m]
  BY <1>1
<1>3. \A m \in 1 .. n : Rightful(decisions[m], decisions, m)
  BY <1>1, WithheldRightful DEF GovernorInv
<1> HIDE DEF n
<1>4. ASSUME NEW m \in 1 .. n PROVE Rightful(decisions'[m], decisions', m)
  <2>1. \A j \in 1 .. m - 1 : decisions'[j] = decisions[j]
    BY <1>1, <1>2
  <2>2. m \in Nat /\ decisions[m] \in Decision
    BY <1>1
  <2>3. Rightful(decisions[m], decisions', m)
    BY <1>3, <2>1, <2>2, RightfulSame
  <2>4. decisions'[m] = decisions[m]
    BY <1>2
  <2> QED
    BY <2>3, <2>4
<1>5. Rightful(decisions'[n + 1], decisions', n + 1)
  <2>1. n + 1 - 1 = n /\ \A j \in 1 .. n : decisions'[j] = decisions[j]
    BY <1>1, <1>2
  <2>2. Rightful(d, decisions, n + 1)
    BY DEF n
  <2>3. PICK c \in Nat : c = n + 1
    BY <1>1
  <2>4. Rightful(d, decisions, c) /\ \A j \in 1 .. c - 1 : decisions'[j] = decisions[j]
    BY <1>1, <2>1, <2>2, <2>3
  <2>5. Rightful(d, decisions', c)
    BY <2>4, RightfulSame
  <2> QED
    BY <1>2, <2>3, <2>5
<1>6. \A m \in 1 .. n + 1 : m \in 1 .. n \/ m = n + 1
  BY <1>1
<1> QED
  BY <1>2, <1>4, <1>5, <1>6, WithheldRightful

(* The memory of the governor that decides, and of the one that does not.  *)
LEMMA MemoryNoted ==
  ASSUME GovernorInv, NEW by \in {"swarm", "ecosystem"}, NEW memory, Remembers(memory, by, decisions),
         memory \in [DOMAIN memory -> Nat],
         NEW d \in Decision, d.by = by, d.at = clock, decisions' = Append(decisions, d)
  PROVE  /\ Remembers(Noted(memory, Considered(d)), by, decisions')
         /\ Noted(memory, Considered(d)) \in [DOMAIN memory \cup Considered(d) -> Nat]
<1> DEFINE n == Len(decisions)
           now == Noted(memory, Considered(d))
<1>1. /\ n \in Nat /\ DOMAIN decisions = 1 .. n /\ decisions \in Seq(Decision) /\ clock \in Nat
      /\ \A m \in DOMAIN decisions : decisions[m].at <= clock
  BY DEF GovernorInv
<1>2. /\ DOMAIN decisions' = 1 .. n + 1 /\ decisions'[n + 1] = d
      /\ \A m \in 1 .. n : decisions'[m] = decisions[m]
  BY <1>1
<1>3. /\ DOMAIN now = DOMAIN memory \cup Considered(d)
      /\ \A k \in DOMAIN now : now[k] = IF k \in Considered(d) THEN clock ELSE memory[k]
  BY DEF Noted
<1>4. now \in [DOMAIN memory \cup Considered(d) -> Nat]
  BY <1>1 DEF Noted
<1> HIDE DEF n, now
<1>5. ASSUME NEW k \in DOMAIN now
      PROVE  \E m \in DOMAIN decisions' :
               decisions'[m].by = by /\ k \in Considered(decisions'[m]) /\ now[k] = decisions'[m].at
  <2>1. CASE k \in Considered(d)
    BY <1>1, <1>2, <1>3, <2>1
  <2>2. CASE k \notin Considered(d)
    <3>1. PICK m \in DOMAIN decisions :
            decisions[m].by = by /\ k \in Considered(decisions[m]) /\ memory[k] = decisions[m].at
      BY <1>3, <2>2 DEF Remembers
    <3> QED
      BY <1>1, <1>2, <1>3, <2>2, <3>1
  <2> QED
    BY <2>1, <2>2
<1>6. ASSUME NEW m \in DOMAIN decisions', decisions'[m].by = by, NEW k \in Considered(decisions'[m])
      PROVE  k \in DOMAIN now /\ now[k] >= decisions'[m].at
  <2>1. CASE m = n + 1
    BY <1>1, <1>2, <1>3, <1>6, <2>1
  <2>2. CASE m \in 1 .. n
    <3>1. decisions'[m] = decisions[m] /\ m \in DOMAIN decisions
      BY <1>1, <1>2, <2>2
    <3>2. k \in DOMAIN memory /\ memory[k] >= decisions[m].at /\ decisions[m].at <= clock
      BY <1>1, <1>6, <3>1 DEF Remembers
    <3> QED
      BY <1>3, <3>1, <3>2
  <2> QED
    BY <1>1, <1>2, <2>1, <2>2
<1> QED
  BY <1>4, <1>5, <1>6 DEF Remembers, now

LEMMA MemoryOfOther ==
  ASSUME GovernorInv, NEW by \in {"swarm", "ecosystem"}, NEW memory, Remembers(memory, by, decisions),
         NEW d \in Decision, d.by # by, decisions' = Append(decisions, d)
  PROVE  Remembers(memory, by, decisions')
<1> DEFINE n == Len(decisions)
<1>1. n \in Nat /\ DOMAIN decisions = 1 .. n /\ decisions \in Seq(Decision)
  BY DEF GovernorInv
<1>2. /\ DOMAIN decisions' = 1 .. n + 1 /\ decisions'[n + 1] = d
      /\ \A m \in 1 .. n : decisions'[m] = decisions[m]
  BY <1>1
<1> HIDE DEF n
<1>3. \A m \in 1 .. n + 1 : m \in 1 .. n \/ m = n + 1
  BY <1>1
<1>4. 1 .. n \subseteq 1 .. n + 1
  BY <1>1
<1> QED
  BY <1>1, <1>2, <1>3, <1>4 DEF Remembers

LEMMA GovernorStarts == GovernorInit => GovernorInv
<1> SUFFICES ASSUME GovernorInit PROVE GovernorInv
  OBVIOUS
<1>1. clock = 0 /\ decisions = <<>> /\ DOMAIN recentActions = {} /\ DOMAIN ecoActions = {}
      /\ recentActions = [k \in {} |-> 0] /\ ecoActions = [k \in {} |-> 0]
  BY DEF GovernorInit
<1> QED
  BY <1>1 DEF GovernorInv, Remembers, WithheldWasOrdered

LEMMA GovernorForgets ==
  ASSUME GovernorInv, GovernorRestart
  PROVE  GovernorInv'
<1>1. /\ clock' = clock /\ decisions' = <<>> /\ recentActions' = <<>> /\ ecoActions' = <<>>
  BY DEF GovernorRestart
<1>2. DOMAIN recentActions' = {} /\ DOMAIN ecoActions' = {} /\ DOMAIN decisions' = {}
      /\ recentActions' = [k \in {} |-> 0] /\ ecoActions' = [k \in {} |-> 0]
  BY <1>1
<1>3. decisions' \in Seq(Decision) /\ clock \in Nat
  BY <1>1 DEF GovernorInv
<1>4. Remembers(recentActions', "swarm", decisions') /\ Remembers(ecoActions', "ecosystem", decisions')
  BY <1>2 DEF Remembers
<1>5. WithheldWasOrdered'
  BY <1>2 DEF WithheldWasOrdered
<1> QED
  BY <1>1, <1>2, <1>3, <1>4, <1>5 DEF GovernorInv

LEMMA GovernorWaits ==
  ASSUME GovernorInv, TimePasses
  PROVE  GovernorInv'
<1>1. clock' = clock + 1 /\ UNCHANGED <<recentActions, ecoActions, decisions>>
  BY DEF TimePasses
<1>2. clock \in Nat /\ \A m \in DOMAIN decisions : decisions[m].at \in Nat /\ decisions[m].at <= clock
  <2>1. \A m \in DOMAIN decisions : decisions[m] \in Decision
    BY DEF GovernorInv
  <2>2. \A m \in DOMAIN decisions : decisions[m].at \in Nat
    BY <2>1 DEF Decision
  <2> QED
    BY <2>2 DEF GovernorInv
<1>3. clock' \in Nat /\ \A m \in DOMAIN decisions' : decisions'[m].at <= clock'
  BY <1>1, <1>2
<1>4. WithheldWasOrdered'
  <2> DEFINE Held(list) ==
        \A n \in DOMAIN list : \A k \in list[n].wanted :
          LET before == {m \in 1 .. n - 1 : /\ list[m].by = list[n].by
                                            /\ list[n].at - list[m].at < Cooldown(list[n].by)
                                            /\ k \in list[m].ordered \cup list[m].dropped}
          IN k \in list[n].ordered \cup list[n].dropped <=> before = {}
  <2>1. Held(decisions)
    BY DEF GovernorInv, WithheldWasOrdered
  <2>2. decisions' = decisions
    BY <1>1
  <2>3. Held(decisions')
    <3> HIDE DEF Held
    <3> QED
      BY <2>1, <2>2
  <2> QED
    BY <2>3 DEF WithheldWasOrdered
<1> QED
  BY <1>1, <1>3, <1>4 DEF GovernorInv

LEMMA DecideKept ==
  ASSUME GovernorInv, NEW r \in Reports, Decide(r)
  PROVE  GovernorInv'
<1> DEFINE wanted == Confident(r)
           keys == Keys(wanted, DOMAIN wanted)
           passed == Keys(wanted, Passing(wanted, recentActions, 2))
           d == [by |-> "swarm", at |-> clock, wanted |-> keys, ordered |-> passed, dropped |-> {}]
<1>1. /\ recentActions' = Noted(recentActions, passed) /\ decisions' = Append(decisions, d)
      /\ UNCHANGED <<clock, ecoActions>>
  BY DEF Decide
<1>2. IsList(wanted)
  BY ListsAssumption
<1>3. keys \subseteq WantedKeys /\ passed \subseteq keys
  BY GatedAreWanted DEF WantedKeys
<1>4. \A k \in keys : k \in passed <=> ~Recent(recentActions, k, 2)
  BY <1>2, GateByKey
<1>5. clock \in Nat
  BY DEF GovernorInv
<1> HIDE DEF wanted, keys, passed
<1>6. d \in Decision /\ d.by = "swarm" /\ d.at = clock /\ d.wanted = keys /\ Considered(d) = passed
  BY <1>3, <1>5 DEF Decision, Considered
<1> HIDE DEF d
<1>7. /\ Remembers(recentActions, "swarm", decisions) /\ recentActions \in [DOMAIN recentActions -> Nat]
      /\ Remembers(ecoActions, "ecosystem", decisions)
  BY DEF GovernorInv
<1>8. Remembers(Noted(recentActions, passed), "swarm", decisions')
        /\ Noted(recentActions, passed) \in [DOMAIN recentActions \cup passed -> Nat]
  <2>1. /\ Remembers(Noted(recentActions, Considered(d)), "swarm", decisions')
        /\ Noted(recentActions, Considered(d)) \in [DOMAIN recentActions \cup Considered(d) -> Nat]
    BY <1>1, <1>6, <1>7, MemoryNoted
  <2> QED
    BY <1>6, <2>1
<1>9. Remembers(recentActions', "swarm", decisions') /\ recentActions' \in [DOMAIN recentActions' -> Nat]
  BY <1>1, <1>8
<1>10. Remembers(ecoActions, "ecosystem", decisions')
  BY <1>1, <1>6, <1>7, MemoryOfOther
<1>11. Remembers(ecoActions', "ecosystem", decisions')
  BY <1>1, <1>10
<1>12. WithheldWasOrdered'
  <2>1. Cooldown("swarm") = 2
    BY DEF Cooldown
  <2>2. \A k \in d.wanted : k \in Considered(d) <=> ~Recent(recentActions, k, Cooldown("swarm"))
    BY <1>4, <1>6, <2>1
  <2>3. Rightful(d, decisions, Len(decisions) + 1)
    BY <1>6, <1>7, <2>2, RightfulDecision
  <2> QED
    BY <1>1, <1>6, <2>3, RightfulStays
<1>13. decisions' \in Seq(Decision) /\ \A m \in DOMAIN decisions' : decisions'[m].at <= clock'
  <2>1. decisions \in Seq(Decision) /\ \A m \in DOMAIN decisions : decisions[m].at <= clock
    BY DEF GovernorInv
  <2>2. d.at <= clock
    BY <1>5, <1>6
  <2> QED
    BY <1>1, <1>6, <2>1, <2>2
<1> QED
  BY <1>1, <1>9, <1>11, <1>12, <1>13 DEF GovernorInv

LEMMA DecideEcosystemKept ==
  ASSUME GovernorInv, NEW e \in Ecosystems, DecideEcosystem(e)
  PROVE  GovernorInv'
<1> DEFINE wanted == EcoCandidates(e)
           keys == Keys(wanted, DOMAIN wanted)
           gated == Passing(wanted, ecoActions, 3)
           ordered == MostUrgent(wanted, gated, 8)
           passed == Keys(wanted, gated)
           d == [by |-> "ecosystem", at |-> clock, wanted |-> keys,
                 ordered |-> Keys(wanted, ordered), dropped |-> Keys(wanted, gated \ ordered)]
<1>1. /\ ecoActions' = Noted(ecoActions, passed) /\ decisions' = Append(decisions, d)
      /\ UNCHANGED <<clock, recentActions>>
  BY DEF DecideEcosystem
<1>2. IsList(wanted)
  BY ListsAssumption
<1>3. keys \subseteq WantedKeys /\ passed \subseteq keys
  BY GatedAreWanted DEF WantedKeys
<1>4. \A k \in keys : k \in passed <=> ~Recent(ecoActions, k, 3)
  BY <1>2, GateByKey
<1>5. clock \in Nat
  BY DEF GovernorInv
<1>6. ordered \subseteq gated
  BY DEF MostUrgent
<1> HIDE DEF ordered, gated
<1>7. Keys(wanted, ordered) \cup Keys(wanted, gated \ ordered) = passed
  BY <1>6 DEF Keys
<1> HIDE DEF wanted, keys, passed
<1>8. d \in Decision /\ d.by = "ecosystem" /\ d.at = clock /\ d.wanted = keys /\ Considered(d) = passed
  BY <1>3, <1>5, <1>7 DEF Decision, Considered
<1> HIDE DEF d
<1>9. /\ Remembers(ecoActions, "ecosystem", decisions) /\ ecoActions \in [DOMAIN ecoActions -> Nat]
      /\ Remembers(recentActions, "swarm", decisions)
  BY DEF GovernorInv
<1>10. Remembers(Noted(ecoActions, passed), "ecosystem", decisions')
         /\ Noted(ecoActions, passed) \in [DOMAIN ecoActions \cup passed -> Nat]
  <2>1. /\ Remembers(Noted(ecoActions, Considered(d)), "ecosystem", decisions')
        /\ Noted(ecoActions, Considered(d)) \in [DOMAIN ecoActions \cup Considered(d) -> Nat]
    BY <1>1, <1>8, <1>9, MemoryNoted
  <2> QED
    BY <1>8, <2>1
<1>11. Remembers(ecoActions', "ecosystem", decisions') /\ ecoActions' \in [DOMAIN ecoActions' -> Nat]
  BY <1>1, <1>10
<1>12. Remembers(recentActions, "swarm", decisions')
  BY <1>1, <1>8, <1>9, MemoryOfOther
<1>13. Remembers(recentActions', "swarm", decisions')
  BY <1>1, <1>12
<1>14. WithheldWasOrdered'
  <2>1. Cooldown("ecosystem") = 3
    BY DEF Cooldown
  <2>2. \A k \in d.wanted : k \in Considered(d) <=> ~Recent(ecoActions, k, Cooldown("ecosystem"))
    BY <1>4, <1>8, <2>1
  <2>3. Rightful(d, decisions, Len(decisions) + 1)
    BY <1>8, <1>9, <2>2, RightfulDecision
  <2> QED
    BY <1>1, <1>8, <2>3, RightfulStays
<1>15. decisions' \in Seq(Decision) /\ \A m \in DOMAIN decisions' : decisions'[m].at <= clock'
  <2>1. decisions \in Seq(Decision) /\ \A m \in DOMAIN decisions : decisions[m].at <= clock
    BY DEF GovernorInv
  <2>2. d.at <= clock
    BY <1>5, <1>8
  <2> QED
    BY <1>1, <1>8, <2>1, <2>2
<1> QED
  BY <1>1, <1>11, <1>13, <1>14, <1>15 DEF GovernorInv

LEMMA GovernorKept == GovernorInv /\ GovernorStep => GovernorInv'
<1> SUFFICES ASSUME GovernorInv, GovernorStep PROVE GovernorInv'
  OBVIOUS
<1>1. CASE UNCHANGED governor
  <2>1. UNCHANGED <<clock, recentActions, ecoActions, decisions>>
    BY <1>1 DEF governor
  <2>2. WithheldWasOrdered'
    BY <2>1 DEF GovernorInv, WithheldWasOrdered
  <2> QED
    BY <2>1, <2>2 DEF GovernorInv
<1> QED
  BY <1>1, DecideKept, DecideEcosystemKept, GovernorWaits, GovernorForgets DEF GovernorStep, GovernorNext

LEMMA GovernorSteps == [Next]_intelligence => GovernorStep
BY Zenon DEF Next, intelligence, services, GovernorStep, OversightRequest, PlanetaryRequest, StructureRequest,
   MemoryRequest, GovernorRequest, CollectiveRequest, InsightRequest, EvolutionRequest, LearningRequest, Restart

(* Since the service started, a governor considers what it wants exactly   *)
(* when it has not considered it within its cooldown: it never orders the  *)
(* same twice within it, and withholds only what it ordered or dropped.    *)
THEOREM WithheldAlwaysOrdered == Spec => []WithheldWasOrdered
<1>1. Init => GovernorInv
  BY GovernorStarts DEF Init
<1>2. GovernorInv /\ [Next]_intelligence => GovernorInv'
  BY GovernorKept, GovernorSteps
<1>3. GovernorInv => WithheldWasOrdered
  BY DEF GovernorInv
<1> QED
  BY <1>1, <1>2, <1>3, PTL DEF Spec

-----------------------------------------------------------------------------
(* The collective memory: lessons and their transfers.                     *)

LessonId == [session : Nat, place : Nat, clonedTo : Seq(Swarm)]
LessonKind == UNION {{lessons[n].kind : n \in DOMAIN lessons} : lessons \in Lessons}
LessonSummary == UNION {{lessons[n].summary : n \in DOMAIN lessons} : lessons \in Lessons}
LessonRow == [swarm : Swarm, kind : LessonKind, summary : LessonSummary, weight : Int]
ParentOf(id) == [id EXCEPT !.clonedTo = SubSeq(@, 1, Len(@) - 1)]

(* No lesson is of a session to come: an original of the next is new, so   *)
(* that an edge to a lesson that was only reinforced fails the whole       *)
(* session.                                                                *)
CollectiveInv ==
  /\ sessions \in Nat /\ DOMAIN nodes \subseteq LessonId
  /\ \A id \in DOMAIN nodes : nodes[id] \in LessonRow /\ id.session < sessions
  /\ GraphWhole

CollectiveStep == CollectiveNext \/ UNCHANGED collective

(* A clone's id tells its parent's.                                        *)
LEMMA CloneParent ==
  ASSUME NEW i \in LessonId, NEW to \in Swarm
  PROVE  /\ Clone(i, to) \in LessonId /\ Clone(i, to).session = i.session
         /\ ~IsOriginal(Clone(i, to)) /\ ParentOf(Clone(i, to)) = i
<1>1. i.session \in Nat /\ i.place \in Nat /\ i.clonedTo \in Seq(Swarm)
      /\ i = [session |-> i.session, place |-> i.place, clonedTo |-> i.clonedTo]
  BY DEF LessonId
<1> DEFINE path == Append(i.clonedTo, to)
<1>2. Clone(i, to) = [session |-> i.session, place |-> i.place, clonedTo |-> path]
  BY <1>1 DEF Clone
<1>3. path \in Seq(Swarm) /\ Len(path) = Len(i.clonedTo) + 1 /\ Len(i.clonedTo) \in Nat
      /\ path # <<>>
  BY <1>1
<1>4. SubSeq(path, 1, Len(path) - 1) = i.clonedTo
  <2>1. \A n \in 1 .. Len(i.clonedTo) : path[n] = i.clonedTo[n]
    BY <1>1
  <2>2. SubSeq(path, 1, Len(i.clonedTo)) = i.clonedTo
    BY <1>1, <1>3, <2>1
  <2> QED
    BY <1>3, <2>2
<1> HIDE DEF path
<1>5. ParentOf(Clone(i, to)) = [session |-> i.session, place |-> i.place, clonedTo |-> SubSeq(path, 1, Len(path) - 1)]
  BY <1>2 DEF ParentOf
<1> QED
  BY <1>1, <1>2, <1>3, <1>4, <1>5 DEF LessonId, IsOriginal

LEMMA Originals ==
  ASSUME CollectiveInv, NEW n \in Nat
  PROVE  /\ Original(n) \in LessonId /\ Original(n).session = sessions /\ Original(n).place = n
         /\ IsOriginal(Original(n)) /\ Original(n) \notin DOMAIN nodes
<1>1. sessions \in Nat /\ \A id \in DOMAIN nodes : id.session \in Nat /\ id.session < sessions
  BY DEF CollectiveInv, LessonId
<1>2. <<>> \in Seq(Swarm)
  OBVIOUS
<1> QED
  BY <1>1, <1>2 DEF Original, LessonId, IsOriginal

(* A session adds its new lessons and leaves the others with their swarm.  *)
LEMMA InsertedRows ==
  ASSUME CollectiveInv, NEW s \in Swarm, NEW lessons \in Lessons
  PROVE  /\ DOMAIN nodes \subseteq DOMAIN Inserted(s, lessons)
         /\ \A id \in DOMAIN nodes : /\ Inserted(s, lessons)[id] \in LessonRow
                                     /\ Inserted(s, lessons)[id].swarm = nodes[id].swarm
         /\ \A id \in DOMAIN Inserted(s, lessons) \ DOMAIN nodes :
              /\ \E n \in 1 .. Len(lessons) : id = Original(n)
              /\ Inserted(s, lessons)[id] \in LessonRow /\ Inserted(s, lessons)[id].swarm = s
<1> DEFINE fresh == {Original(n) : n \in {m \in DOMAIN lessons : Known(s, lessons[m]) = {}}}
           heavier(id) == [nodes[id] EXCEPT !.weight =
             IF \E m \in DOMAIN lessons : id \in Known(s, lessons[m]) THEN @ + 300 ELSE @]
           added(id) == [swarm |-> s, kind |-> lessons[id.place].kind, summary |-> lessons[id.place].summary,
                         weight |-> 1000]
           rows == [id \in DOMAIN nodes \cup fresh |-> IF id \in fresh THEN added(id) ELSE heavier(id)]
<1>1. Inserted(s, lessons) = rows
  BY Zenon DEF Inserted
<1>2. Len(lessons) \in Nat /\ DOMAIN lessons = 1 .. Len(lessons)
  BY LessonsAssumption DEF IsList
<1>3. \A id \in fresh : \E n \in 1 .. Len(lessons) : id = Original(n)
  BY <1>2
<1>4. \A id \in fresh : id \notin DOMAIN nodes
  BY <1>2, <1>3, Originals
<1>5. ASSUME NEW id \in fresh PROVE added(id) \in LessonRow /\ added(id).swarm = s
  <2>1. PICK n \in 1 .. Len(lessons) : id = Original(n)
    BY <1>3, <1>5
  <2>2. id.place = n /\ n \in DOMAIN lessons
    BY <1>2, <2>1, Originals
  <2>3. lessons[n].kind \in LessonKind /\ lessons[n].summary \in LessonSummary
    BY <2>2 DEF LessonKind, LessonSummary
  <2> QED
    BY <2>2, <2>3 DEF LessonRow
<1>6. ASSUME NEW id \in DOMAIN nodes PROVE heavier(id) \in LessonRow /\ heavier(id).swarm = nodes[id].swarm
  <2>1. nodes[id] \in LessonRow
    BY DEF CollectiveInv
  <2> QED
    BY <2>1 DEF LessonRow
<1> HIDE DEF added, heavier, fresh
<1>7. /\ DOMAIN rows = DOMAIN nodes \cup fresh
      /\ \A id \in fresh : rows[id] = added(id)
      /\ \A id \in DOMAIN nodes : rows[id] = heavier(id)
  BY <1>4
<1> HIDE DEF rows
<1> QED
  BY <1>1, <1>3, <1>5, <1>6, <1>7

(* A transferred lesson keeps what is there and adds the clones.           *)
LEMMA ClonedRows ==
  ASSUME CollectiveInv, NEW T \in SUBSET DOMAIN nodes, NEW to \in Swarm
  PROVE  /\ DOMAIN Cloned(T, to) = DOMAIN nodes \cup {Clone(i, to) : i \in T}
         /\ \A id \in DOMAIN nodes : Cloned(T, to)[id] = nodes[id]
         /\ \A id \in {Clone(i, to) : i \in T} \ DOMAIN nodes :
              Cloned(T, to)[id] \in LessonRow /\ Cloned(T, to)[id].swarm = to
<1> DEFINE clones == {Clone(i, to) : i \in T}
           of(id) == CHOOSE i \in T : Clone(i, to) = id
           copy(id) == [nodes[of(id)] EXCEPT !.swarm = to, !.weight = @ \div 2]
           rows == [id \in DOMAIN nodes \cup clones |-> IF id \in DOMAIN nodes THEN nodes[id] ELSE copy(id)]
<1>1. Cloned(T, to) = rows
  BY Zenon DEF Cloned
<1>2. ASSUME NEW id \in clones PROVE copy(id) \in LessonRow /\ copy(id).swarm = to
  <2>1. of(id) \in T
    BY <1>2
  <2> HIDE DEF of
  <2>2. PICK s \in Swarm, k \in LessonKind, u \in LessonSummary, w \in Int :
          nodes[of(id)] = [swarm |-> s, kind |-> k, summary |-> u, weight |-> w]
    BY <2>1 DEF CollectiveInv, LessonRow
  <2>3. PICK half \in Int : half = w \div 2
    OBVIOUS
  <2>4. copy(id) = [swarm |-> to, kind |-> k, summary |-> u, weight |-> half]
    <3>1. nodes[of(id)].weight \div 2 = half
      BY <2>2, <2>3
    <3>2. [nodes[of(id)] EXCEPT !.swarm = to] = [swarm |-> to, kind |-> k, summary |-> u, weight |-> w]
      BY <2>2
    <3>3. [[swarm |-> to, kind |-> k, summary |-> u, weight |-> w] EXCEPT !.weight = half]
            = [swarm |-> to, kind |-> k, summary |-> u, weight |-> half]
      OBVIOUS
    <3> QED
      BY Zenon, <3>1, <3>2, <3>3
  <2> HIDE DEF copy
  <2> QED
    BY <2>4 DEF LessonRow
<1> HIDE DEF copy, clones
<1>3. /\ DOMAIN rows = DOMAIN nodes \cup clones
      /\ \A id \in DOMAIN nodes : rows[id] = nodes[id]
      /\ \A id \in clones \ DOMAIN nodes : rows[id] = copy(id)
  OBVIOUS
<1> HIDE DEF rows
<1> QED
  BY <1>1, <1>2, <1>3 DEF clones

(* The graph stays whole when a step keeps the rows it has with their      *)
(* swarm, its edges and its records, joins nothing from two swarms, adds   *)
(* an original with the edges of its session, and a clone with its record. *)
LEMMA GraphGrows ==
  ASSUME GraphWhole, DOMAIN nodes \subseteq DOMAIN nodes',
         \A id \in DOMAIN nodes : nodes'[id].swarm = nodes[id].swarm,
         edges \subseteq edges', transfers \subseteq transfers',
         \A e \in edges' \ edges : {e[1], e[2]} \subseteq DOMAIN nodes' /\ nodes'[e[1]].swarm = nodes'[e[2]].swarm,
         \A id \in DOMAIN nodes' \ DOMAIN nodes : IsOriginal(id) =>
           \A n \in 1 .. id.place - 1 :
             LET before == [id EXCEPT !.place = n] IN <<before, [before EXCEPT !.place = n + 1]>> \in edges',
         \A id \in DOMAIN nodes' \ DOMAIN nodes : ~IsOriginal(id) =>
           \E t \in transfers' : t.to = nodes'[id].swarm /\ t.suffix = Suffix(ParentOf(id))
  PROVE  GraphWhole'
<1>1. \A e \in edges' : {e[1], e[2]} \subseteq DOMAIN nodes' /\ nodes'[e[1]].swarm = nodes'[e[2]].swarm
  BY DEF GraphWhole, SessionsWhole
<1>2. ASSUME NEW id \in DOMAIN nodes', IsOriginal(id)
      PROVE  \A n \in 1 .. id.place - 1 :
               LET before == [id EXCEPT !.place = n] IN <<before, [before EXCEPT !.place = n + 1]>> \in edges'
  <2>1. CASE id \in DOMAIN nodes
    BY Zenon, <1>2, <2>1 DEF GraphWhole, SessionsWhole
  <2> QED
    BY Zenon, <1>2, <2>1
<1>3. ASSUME NEW id \in DOMAIN nodes', ~IsOriginal(id)
      PROVE  \E t \in transfers' : t.to = nodes'[id].swarm /\ t.suffix = Suffix(ParentOf(id))
  <2>1. CASE id \in DOMAIN nodes
    <3>1. id \in Clones
      BY <1>3, <2>1 DEF Clones
    <3>2. PICK t \in transfers : t.to = nodes[id].swarm /\ t.suffix = Suffix(ParentOf(id))
      BY Zenon, <3>1 DEF GraphWhole, ClonesRecorded, ParentOf
    <3> QED
      BY <2>1, <3>2
  <2> QED
    BY Zenon, <1>3, <2>1
<1>4. SessionsWhole'
  BY Zenon, <1>1, <1>2 DEF SessionsWhole, IsOriginal
<1>5. ClonesRecorded'
  BY Zenon, <1>3 DEF ClonesRecorded, Clones, ParentOf, IsOriginal, Suffix
<1> QED
  BY Zenon, <1>4, <1>5 DEF GraphWhole

LEMMA IngestKept ==
  ASSUME CollectiveInv, NEW s \in Swarm, NEW lessons \in Lessons, Ingest(s, lessons)
  PROVE  CollectiveInv'
<1> DEFINE rows == Inserted(s, lessons)
           joined == Preceding(lessons)
<1>1. sessions' = sessions + 1 /\ transfers' = transfers /\ sessions \in Nat
  BY DEF Ingest, CollectiveInv
<1>2. Len(lessons) \in Nat
  BY LessonsAssumption DEF IsList
<1>3. CASE UNCHANGED <<nodes, edges>>
  <2>1. GraphWhole'
    BY <1>1, <1>3 DEF CollectiveInv, GraphWhole, SessionsWhole, ClonesRecorded, Clones
  <2> QED
    BY <1>1, <1>3, <2>1 DEF CollectiveInv, LessonId
<1>4. CASE /\ \A e \in joined : {e[1], e[2]} \subseteq DOMAIN rows
           /\ nodes' = rows /\ edges' = edges \cup joined
  <2>1. /\ DOMAIN nodes \subseteq DOMAIN nodes'
        /\ \A id \in DOMAIN nodes : nodes'[id] \in LessonRow /\ nodes'[id].swarm = nodes[id].swarm
        /\ \A id \in DOMAIN nodes' \ DOMAIN nodes :
              /\ \E n \in 1 .. Len(lessons) : id = Original(n)
              /\ nodes'[id] \in LessonRow /\ nodes'[id].swarm = s
    BY <1>4, InsertedRows
  <2>2. ASSUME NEW e \in edges' \ edges
        PROVE  {e[1], e[2]} \subseteq DOMAIN nodes' /\ nodes'[e[1]].swarm = nodes'[e[2]].swarm
    <3>1. PICK n \in 1 .. Len(lessons) - 1 : e = <<Original(n), Original(n + 1)>>
      BY <1>4, <2>2 DEF Preceding
    <3>2. e \in joined
      BY <1>4, <2>2
    <3> HIDE DEF joined
    <3>3. e[1] = Original(n) /\ e[2] = Original(n + 1) /\ {e[1], e[2]} \subseteq DOMAIN nodes'
      BY <1>4, <3>1, <3>2
    <3>4. Original(n) \notin DOMAIN nodes /\ Original(n + 1) \notin DOMAIN nodes
      BY <1>2, Originals
    <3> QED
      BY <2>1, <3>3, <3>4
  <2>3. ASSUME NEW id \in DOMAIN nodes' \ DOMAIN nodes
        PROVE  /\ id \in LessonId /\ id.session = sessions /\ IsOriginal(id)
               /\ \A n \in 1 .. id.place - 1 :
                    LET before == [id EXCEPT !.place = n] IN <<before, [before EXCEPT !.place = n + 1]>> \in edges'
    <3>1. PICK m \in 1 .. Len(lessons) : id = Original(m)
      BY <2>1
    <3>2. id \in LessonId /\ id.session = sessions /\ IsOriginal(id) /\ id.place = m
      BY <3>1, Originals
    <3>3. ASSUME NEW n \in 1 .. m - 1
          PROVE  LET before == [id EXCEPT !.place = n] IN <<before, [before EXCEPT !.place = n + 1]>> \in edges'
      <4>1. n \in 1 .. Len(lessons) - 1
        BY <1>2
      <4>2. [id EXCEPT !.place = n] = Original(n) /\ [Original(n) EXCEPT !.place = n + 1] = Original(n + 1)
        BY <3>1 DEF Original
      <4>3. <<Original(n), Original(n + 1)>> \in joined
        BY <4>1 DEF Preceding
      <4> QED
        BY <1>4, <4>2, <4>3
    <3> QED
      BY <3>2, <3>3
  <2>4. GraphWhole'
    <3>1. GraphWhole /\ edges \subseteq edges' /\ transfers \subseteq transfers'
      BY <1>1, <1>4 DEF CollectiveInv
    <3> QED
      BY Zenon, <2>1, <2>2, <2>3, <3>1, GraphGrows
  <2>5. DOMAIN nodes' \subseteq LessonId /\ \A id \in DOMAIN nodes' : nodes'[id] \in LessonRow /\ id.session < sessions'
    <3>1. DOMAIN nodes \subseteq LessonId /\ \A id \in DOMAIN nodes : id.session \in Nat /\ id.session < sessions
      BY DEF CollectiveInv, LessonId
    <3>2. ASSUME NEW id \in DOMAIN nodes' PROVE id \in LessonId /\ nodes'[id] \in LessonRow /\ id.session < sessions'
      <4>1. CASE id \in DOMAIN nodes
        <5>1. id \in LessonId /\ id.session \in Nat /\ id.session < sessions
          BY <3>1, <4>1
        <5>2. nodes'[id] \in LessonRow
          BY Zenon, <2>1, <4>1
        <5>3. id.session < sessions'
          BY <1>1, <5>1
        <5> QED
          BY <5>1, <5>2, <5>3
      <4>2. CASE id \notin DOMAIN nodes
        <5>1. id \in LessonId /\ id.session = sessions /\ nodes'[id] \in LessonRow
          BY Zenon, <2>1, <2>3, <4>2
        <5>2. id.session < sessions'
          BY <1>1, <5>1
        <5> QED
          BY <5>1, <5>2
      <4> QED
        BY <4>1, <4>2
    <3> QED
      BY <3>2
  <2> QED
    BY <1>1, <2>4, <2>5 DEF CollectiveInv
<1> QED
  BY <1>3, <1>4 DEF Ingest

(* A transfer, whole or cut short: what it cloned it has recorded.         *)
LEMMA TransferKept ==
  ASSUME CollectiveInv, NEW s \in Swarm, NEW to \in Swarm,
         NEW T \in SUBSET DOMAIN nodes, NEW told \in SUBSET DOMAIN nodes, T \subseteq told,
         transfers' = Recorded(told, s, to), nodes' = Cloned(T, to), UNCHANGED <<edges, sessions>>
  PROVE  CollectiveInv'
<1>1. /\ DOMAIN nodes' = DOMAIN nodes \cup {Clone(i, to) : i \in T}
      /\ \A id \in DOMAIN nodes : nodes'[id] = nodes[id]
      /\ \A id \in {Clone(i, to) : i \in T} \ DOMAIN nodes : nodes'[id] \in LessonRow /\ nodes'[id].swarm = to
  <2> DEFINE rows == Cloned(T, to)
  <2>1. /\ DOMAIN rows = DOMAIN nodes \cup {Clone(i, to) : i \in T}
        /\ \A id \in DOMAIN nodes : rows[id] = nodes[id]
        /\ \A id \in {Clone(i, to) : i \in T} \ DOMAIN nodes : rows[id] \in LessonRow /\ rows[id].swarm = to
    BY ClonedRows
  <2>2. nodes' = rows
    OBVIOUS
  <2> HIDE DEF rows
  <2> QED
    BY <2>1, <2>2
<1>2. ASSUME NEW id \in DOMAIN nodes' \ DOMAIN nodes
      PROVE  /\ id \in LessonId /\ id.session < sessions /\ ~IsOriginal(id) /\ nodes'[id] \in LessonRow
             /\ \E t \in transfers' : t.to = nodes'[id].swarm /\ t.suffix = Suffix(ParentOf(id))
  <2>1. PICK i \in T : id = Clone(i, to)
    BY <1>1
  <2>2. i \in LessonId /\ i.session < sessions
    BY DEF CollectiveInv
  <2>3. id \in LessonId /\ id.session = i.session /\ ~IsOriginal(id) /\ ParentOf(id) = i
    BY <2>1, <2>2, CloneParent
  <2>4. nodes'[id] \in LessonRow /\ nodes'[id].swarm = to
    BY <1>1, <2>1
  <2> DEFINE t == [from |-> s, to |-> to, at |-> sessions, suffix |-> Suffix(i)]
  <2>5. t \in transfers'
    BY DEF Recorded
  <2>6. t.to = to /\ t.suffix = Suffix(i)
    OBVIOUS
  <2> HIDE DEF t
  <2>7. t.to = nodes'[id].swarm /\ t.suffix = Suffix(ParentOf(id))
    BY Zenon, <2>3, <2>4, <2>6
  <2>8. id.session < sessions
    BY <2>2, <2>3
  <2> QED
    BY Zenon, <2>3, <2>4, <2>5, <2>7, <2>8
<1>3. GraphWhole'
  <2>1. GraphWhole /\ edges \subseteq edges' /\ transfers \subseteq transfers' /\ edges' \ edges = {}
    BY DEF CollectiveInv, Recorded
  <2>2. DOMAIN nodes \subseteq DOMAIN nodes' /\ \A id \in DOMAIN nodes : nodes'[id].swarm = nodes[id].swarm
    BY <1>1
  <2> QED
    BY Zenon, <1>2, <2>1, <2>2, GraphGrows
<1>4. ASSUME NEW id \in DOMAIN nodes' PROVE id \in LessonId /\ nodes'[id] \in LessonRow /\ id.session < sessions'
  <2>1. CASE id \in DOMAIN nodes
    <3>1. id \in LessonId /\ nodes[id] \in LessonRow /\ id.session < sessions
      BY <2>1 DEF CollectiveInv
    <3> QED
      BY Zenon, <1>1, <2>1, <3>1
  <2>2. CASE id \notin DOMAIN nodes
    BY Zenon, <1>2, <2>2
  <2> QED
    BY <2>1, <2>2
<1> QED
  BY <1>3, <1>4 DEF CollectiveInv

LEMMA CollectiveStarts == CollectiveInit => CollectiveInv
<1> SUFFICES ASSUME CollectiveInit PROVE CollectiveInv
  OBVIOUS
<1>1. sessions = 0 /\ DOMAIN nodes = {} /\ edges = {}
  BY DEF CollectiveInit
<1>2. GraphWhole
  BY <1>1 DEF GraphWhole, SessionsWhole, ClonesRecorded, Clones
<1> QED
  BY <1>1, <1>2 DEF CollectiveInv

LEMMA CollectiveKept == CollectiveInv /\ CollectiveStep => CollectiveInv'
<1> SUFFICES ASSUME CollectiveInv, CollectiveStep PROVE CollectiveInv'
  OBVIOUS
<1>1. CASE UNCHANGED collective
  <2>1. UNCHANGED <<nodes, edges, transfers, sessions>>
    BY <1>1 DEF collective
  <2>2. GraphWhole'
    BY <2>1 DEF CollectiveInv, GraphWhole, SessionsWhole, ClonesRecorded, Clones
  <2> QED
    BY <2>1, <2>2 DEF CollectiveInv
<1>2. ASSUME NEW s \in Swarm, NEW to \in Swarm, TransferTo(s, to) PROVE CollectiveInv'
  <2>1. UNCHANGED <<edges, sessions>>
    BY <1>2 DEF TransferTo
  <2>2. PICK T \in Top(s) :
          \/ transfers' = Recorded(T, s, to) /\ nodes' = Cloned(T, to) /\ UNCHANGED crashes
          \/ \E done \in SUBSET T : \E next \in T \ done :
               /\ crashes < MaxCrashes /\ crashes' = crashes + 1
               /\ transfers' = Recorded(done \cup {next}, s, to)
               /\ nodes' = Cloned(done, to)
    BY Zenon, <1>2 DEF TransferTo
  <2>3. T \in SUBSET DOMAIN nodes
    BY DEF Top, Transferable
  <2>4. CASE transfers' = Recorded(T, s, to) /\ nodes' = Cloned(T, to)
    BY <2>1, <2>3, <2>4, TransferKept
  <2>5. ASSUME NEW done \in SUBSET T, NEW next \in T \ done,
               transfers' = Recorded(done \cup {next}, s, to), nodes' = Cloned(done, to)
        PROVE  CollectiveInv'
    <3>1. done \in SUBSET DOMAIN nodes /\ done \cup {next} \in SUBSET DOMAIN nodes /\ done \subseteq done \cup {next}
      BY <2>3
    <3> QED
      BY <2>1, <2>5, <3>1, TransferKept
  <2> QED
    BY <2>2, <2>4, <2>5
<1> QED
  BY <1>1, <1>2, IngestKept DEF CollectiveStep, CollectiveNext

LEMMA CollectiveSteps == [Next]_intelligence => CollectiveStep
BY Zenon DEF Next, intelligence, services, CollectiveStep, OversightRequest, PlanetaryRequest, StructureRequest,
   MemoryRequest, GovernorRequest, CollectiveRequest, InsightRequest, EvolutionRequest, LearningRequest, Restart

(* A session's lessons and the edges between them are stored together or   *)
(* not at all, of one swarm each, however sessions and transfers follow    *)
(* each other; and no transferred lesson lacks the record of its transfer, *)
(* though the process may die between any two writes of one.               *)
THEOREM GraphAlwaysWhole == Spec => []GraphWhole
<1>1. Init => CollectiveInv
  BY CollectiveStarts DEF Init
<1>2. CollectiveInv /\ [Next]_intelligence => CollectiveInv'
  BY CollectiveKept, CollectiveSteps
<1>3. CollectiveInv => GraphWhole
  BY DEF CollectiveInv
<1> QED
  BY <1>1, <1>2, <1>3, PTL DEF Spec

-----------------------------------------------------------------------------
(* Sums: what holds of the sum of a function over a finite set.            *)

LEMMA TotalIs == ASSUME NEW f, NEW S PROVE Total(f, S) = SumOver(f, S)
<1> DEFINE iter[s \in SUBSET S] == IF s = {} THEN 0 ELSE LET x == CHOOSE x \in s : TRUE IN f[x] + iter[s \ {x}]
<1>1. Total(f, S) = iter[S]
  BY Zenon DEF Total, FoldFunctionOnSet, MapThenFoldSet, Plus
<1>2. SumOver(f, S) = iter[S]
  BY Zenon DEF SumOver, FoldFunctionOnSet, MapThenFoldSet
<1> QED
  BY <1>1, <1>2

LEMMA TotalOfNone == ASSUME NEW f PROVE Total(f, {}) = 0
BY TotalIs, SumOfNone

(* A sum of whole numbers is one.                                          *)
LEMMA TotalInt ==
  ASSUME NEW S, IsFiniteSet(S), NEW f, \A y \in S : f[y] \in Int
  PROVE  Total(f, S) \in Int
BY TotalIs, SumInt

(* A sum is one of its terms and the sum of the others, whichever is taken. *)
LEMMA TotalPlus ==
  ASSUME NEW S, IsFiniteSet(S), NEW f, \A y \in S : f[y] \in Int
  PROVE  /\ Total(f, S) \in Int
         /\ \A x \in S : Total(f, S) = f[x] + Total(f, S \ {x})
<1>1. \A s : Total(f, s) = SumOver(f, s)
  BY TotalIs
<1>2. SumOver(f, S) \in Int /\ \A x \in S : SumOver(f, S) = f[x] + SumOver(f, S \ {x})
  BY SumPlus
<1> QED
  BY <1>1, <1>2

-----------------------------------------------------------------------------
(* The federation: pools.                                                  *)

(* What a profile's capacity is.                                           *)
LEMMA CapacityInt ==
  ASSUME NEW p \in Profiles
  PROVE  Capacity(p) \in Int /\ Capacity(p) >= 1000
<1>1. p.health \in 0 .. 100 /\ p.wisdom \in 0 .. 100
  BY ProfilesAssumption
<1>2. PICK h \in 0 .. 100 : h = p.health
  BY <1>1
<1>3. PICK w \in 0 .. 100 : w = p.wisdom
  BY <1>1
<1>4. Capacity(p) = 1000 + 5 * (w + h)
  BY <1>2, <1>3 DEF Capacity
<1>5. 1000 + 5 * (w + h) \in Int /\ 1000 + 5 * (w + h) >= 1000
  OBVIOUS
<1> QED
  BY <1>4, <1>5

(* At most 85 of 100 of a pool is allocated or reserved.                   *)
LEMMA Pool ==
  ASSUME NEW p \in Profiles
  PROVE  ~Deficit(p)
<1> DEFINE cap == Capacity(p)
<1>1. p.health \in 0 .. 100 /\ p.wisdom \in 0 .. 100
  BY ProfilesAssumption
<1>2. cap \in Int /\ cap >= 1000
  BY CapacityInt
<1> HIDE DEF cap
<1> DEFINE share == 4000 + 35 * (100 - p.health)
<1>3. share \in Int /\ share >= 0 /\ share <= 7500
  BY <1>1
<1> HIDE DEF share
<1>4. cap * share \in Int /\ cap * share >= 0 /\ cap * share <= 7500 * cap
  BY <1>2, <1>3
<1> DEFINE much == cap * share
<1>5. much \in Int /\ much >= 0 /\ much <= 7500 * cap
  BY <1>4
<1> HIDE DEF much
<1>6. much \div 100000 \in Int /\ 100000 * (much \div 100000) <= much
  BY <1>5
<1>7. cap \div 100 \in Int /\ 100 * (cap \div 100) <= cap
  BY <1>2
<1>8. Allocated(p) = 10 * (much \div 100000) /\ Reserved(p) = 10 * (cap \div 100)
  BY DEF Allocated, Reserved, cap, share, much
<1>9. 10 * (cap - Allocated(p) - Reserved(p)) >= cap
  BY <1>2, <1>5, <1>6, <1>7, <1>8
<1> QED
  BY <1>2, <1>6, <1>7, <1>8, <1>9 DEF Deficit, cap

-----------------------------------------------------------------------------
(* The federation: reports are computed from whole numbers, and a treaty   *)
(* more only adds to those that speak for it.                              *)

(* Division by a positive number keeps the order.                          *)
LEMMA Whole ==
  ASSUME NEW a \in Int, NEW n \in Nat \ {0}
  PROVE  a \div n \in Int /\ \A b \in Int : a <= b => a \div n <= b \div n
  OBVIOUS

LEMMA AtMostInt ==
  ASSUME NEW a \in Int, NEW b \in Int
  PROVE  AtMost(a, b) \in Int /\ \A c \in Int : b <= c => AtMost(a, b) <= AtMost(a, c)
  BY DEF AtMost

LEMMA AverageInt ==
  ASSUME NEW S, IsFiniteSet(S), NEW f, \A c \in S : f[c] \in Int
  PROVE  Average(f, S) \in Int
<1>1. Total(f, S) \in Int
  BY TotalInt
<1>2. Cardinality(S) \in Nat
  BY FS_CardinalityType
<1> DEFINE n == AtLeast(Cardinality(S), 1)
<1>3. n \in Nat \ {0}
  BY <1>2 DEF AtLeast
<1> HIDE DEF n
<1>4. 10 * Total(f, S) \in Int
  BY <1>1
<1>5. (10 * Total(f, S)) \div n \in Int
  BY <1>3, <1>4, Whole
<1> QED
  BY <1>5 DEF Average, n

LEMMA Rate ==
  ASSUME NEW a, NEW b
  PROVE  IdeologyCompat(a, b) \in Int
<1>1. \A e \in Ideologies : e[2] \in Int
  BY DEF Ideologies
<1> DEFINE rated == {e \in Ideologies : e[1] = {a, b}}
<1>2. rated # {} => (CHOOSE e \in rated : TRUE) \in rated
  OBVIOUS
<1>3. rated # {} => (CHOOSE e \in rated : TRUE)[2] \in Int
  BY <1>1, <1>2
<1> QED
  BY <1>3, 100 \in Int, 50 \in Int, Zenon DEF IdeologyCompat

LEMMA SynergyInt ==
  ASSUME NEW a, NEW b
  PROVE  Synergy(a, b) \in Int
<1> DEFINE complements == {<<"ingest", "transform">>, <<"transform", "validate">>, <<"validate", "output">>,
                      <<"compute", "storage">>, <<"energy", "compute">>, <<"governance", "compliance">>}
           met == {p \in complements : (p[1] \in a /\ p[2] \in b) \/ (p[2] \in a /\ p[1] \in b)}
<1>1. IsFiniteSet(complements)
  <2>1. IsFiniteSet({<<"ingest", "transform">>})
    BY FS_Singleton
  <2>2. IsFiniteSet({<<"ingest", "transform">>} \cup {<<"transform", "validate">>})
    BY <2>1, FS_AddElement
  <2>3. IsFiniteSet({<<"ingest", "transform">>} \cup {<<"transform", "validate">>} \cup {<<"validate", "output">>})
    BY <2>2, FS_AddElement
  <2>4. IsFiniteSet({<<"ingest", "transform">>} \cup {<<"transform", "validate">>} \cup {<<"validate", "output">>}
                     \cup {<<"compute", "storage">>})
    BY <2>3, FS_AddElement
  <2>5. IsFiniteSet({<<"ingest", "transform">>} \cup {<<"transform", "validate">>} \cup {<<"validate", "output">>}
                     \cup {<<"compute", "storage">>} \cup {<<"energy", "compute">>})
    BY <2>4, FS_AddElement
  <2>6. IsFiniteSet({<<"ingest", "transform">>} \cup {<<"transform", "validate">>} \cup {<<"validate", "output">>}
                     \cup {<<"compute", "storage">>} \cup {<<"energy", "compute">>} \cup {<<"governance", "compliance">>})
    BY <2>5, FS_AddElement
  <2>7. complements = {<<"ingest", "transform">>} \cup {<<"transform", "validate">>} \cup {<<"validate", "output">>}
                     \cup {<<"compute", "storage">>} \cup {<<"energy", "compute">>} \cup {<<"governance", "compliance">>}
    BY Zenon
  <2> QED
    BY <2>6, <2>7
<1>2. met \subseteq complements
  OBVIOUS
<1>3. Cardinality(met) \in Nat
  <2> HIDE DEF met, complements
  <2>1. IsFiniteSet(met)
    BY <1>1, <1>2, FS_Subset
  <2> QED
    BY <2>1, FS_CardinalityType
<1>4. Synergy(a, b) = AtMost(18 * Cardinality(met) + 20, 100)
  BY DEF Synergy
<1> HIDE DEF met
<1> QED
  BY <1>3, <1>4 DEF AtMost

LEMMA CompatInt ==
  ASSUME NEW a \in Profiles, NEW b \in Profiles
  PROVE  ScoreCompatibility(a, b) \in Int
<1>1. a.trust \in Int /\ b.trust \in Int /\ a.wisdom \in Int /\ b.wisdom \in Int
  <2>1. /\ a.trust \in 0 .. 100 /\ b.trust \in 0 .. 100
        /\ a.wisdom \in 0 .. 100 /\ b.wisdom \in 0 .. 100
    BY ProfilesAssumption
  <2> QED
    BY <2>1
<1>2. Governance(a, b) \in Int
  BY Rate DEF Governance
<1>3. Synergy(a.skills, b.skills) \in Int
  BY SynergyInt
<1>4. AtMost(a.wisdom, b.wisdom) \in Int
  BY <1>1, AtMostInt
<1> DEFINE g == Governance(a, b)
           y == Synergy(a.skills, b.skills)
           m == AtMost(a.wisdom, b.wisdom)
           sum == 3000 * g + 25 * (70 * g + 30 * m) + 25 * (40 * a.trust + 40 * b.trust + 20 * g) + 2000 * y
<1>5. sum \in Int
  <2> HIDE DEF g, y, m
  <2>1. g \in Int /\ y \in Int /\ m \in Int
    BY <1>2, <1>3, <1>4 DEF g, y, m
  <2> QED
    BY <1>1, <2>1
<1>6. ScoreCompatibility(a, b) = (2 * sum + 1000) \div (2 * 1000)
  BY DEF ScoreCompatibility, Rounded
<1> HIDE DEF sum
<1>7. (2 * sum + 1000) \div (2 * 1000) \in Int
  BY <1>5
<1> QED
  BY <1>6, <1>7
Pact == [kind : TreatyKind, parties : SUBSET Civ, status : {"proposed", "active"}]
PlanetaryTypes ==
  /\ registry \in [DOMAIN registry -> Profiles] /\ IsFiniteSet(DOMAIN registry) /\ DOMAIN registry \subseteq Civ
  /\ treaties \in Seq(Pact)
  /\ resolutions \in Seq([council : DOMAIN councils, for : SUBSET Civ, passed : BOOLEAN])
  /\ DOMAIN councils \subseteq DOMAIN Quorum /\ IsFiniteSet(DOMAIN councils)
  /\ \A k \in DOMAIN councils : councils[k].members \subseteq Civ

(* What the scores of a registered civilization are.                       *)
LEMMA ScoresInt ==
  ASSUME NEW S \in SUBSET DOMAIN registry, PlanetaryTypes
  PROVE  /\ IsFiniteSet(S)
         /\ \A c \in S : registry[c] \in Profiles
         /\ HealthOf(S) \in Int /\ WisdomOf(S) \in Int /\ TrustOf(S) \in Int
<1>1. IsFiniteSet(S)
  BY FS_Subset DEF PlanetaryTypes
<1>2. \A c \in S : registry[c] \in Profiles
  BY DEF PlanetaryTypes
<1>3. \A c \in S : registry[c].health \in Int /\ registry[c].wisdom \in Int /\ registry[c].trust \in Int
  BY <1>2, ProfilesAssumption
<1>4. HealthOf(S) \in Int
  <2> DEFINE f == [c \in S |-> registry[c].health]
  <2>1. \A c \in S : f[c] \in Int
    BY <1>3
  <2> HIDE DEF f
  <2>2. Average(f, S) \in Int
    BY ONLY <1>1, <2>1, AverageInt
  <2> QED
    BY <2>2 DEF HealthOf, f
<1>5. WisdomOf(S) \in Int
  <2> DEFINE f == [c \in S |-> registry[c].wisdom]
  <2>1. \A c \in S : f[c] \in Int
    BY <1>3
  <2> HIDE DEF f
  <2>2. Average(f, S) \in Int
    BY ONLY <1>1, <2>1, AverageInt
  <2> QED
    BY <2>2 DEF WisdomOf, f
<1>6. TrustOf(S) \in Int
  <2> DEFINE f == [c \in S |-> registry[c].trust]
  <2>1. \A c \in S : f[c] \in Int
    BY <1>3
  <2> HIDE DEF f
  <2>2. Average(f, S) \in Int
    BY ONLY <1>1, <2>1, AverageInt
  <2> QED
    BY <2>2 DEF TrustOf, f
<1> QED
  BY <1>1, <1>2, <1>4, <1>5, <1>6

(* The pairs of a finite set of civilizations.                             *)
LEMMA PairsFinite ==
  ASSUME NEW S, IsFiniteSet(S)
  PROVE  /\ IsFiniteSet(Pairs(S)) /\ Cardinality(Pairs(S)) \in Nat
         /\ (Pairs(S) # {} => Cardinality(Pairs(S)) # 0)
         /\ \A p \in Pairs(S) : p \subseteq S /\ p # {} /\ \A a \in p : \E b \in p : b # a
<1>1. Pairs(S) \subseteq SUBSET S
  BY DEF Pairs
<1>2. IsFiniteSet(SUBSET S)
  BY FS_SUBSET
<1>3. IsFiniteSet(Pairs(S))
  BY <1>1, <1>2, FS_Subset
<1>4. \A p \in Pairs(S) : p \subseteq S /\ p # {} /\ \A a \in p : \E b \in p : b # a
  <2> SUFFICES ASSUME NEW p \in Pairs(S)
               PROVE  p \subseteq S /\ p # {} /\ \A a \in p : \E b \in p : b # a
    OBVIOUS
  <2>1. PICK c \in S, d \in S : p = {c, d}
    BY DEF Pairs
  <2>2. p # {c}
    BY DEF Pairs
  <2> QED
    BY <2>1, <2>2
<1>5. Cardinality(Pairs(S)) \in Nat /\ (Pairs(S) # {} => Cardinality(Pairs(S)) # 0)
  BY <1>3, FS_CardinalityType, FS_EmptySet
<1> QED
  BY <1>3, <1>4, <1>5

LEMMA CompatibilityInt ==
  ASSUME NEW S \in SUBSET DOMAIN registry, PlanetaryTypes
  PROVE  Compatibility(S) \in Int
<1>1. IsFiniteSet(S) /\ \A c \in S : registry[c] \in Profiles
  BY ScoresInt
<1> DEFINE score == [p \in Pairs(S) |-> LET a == CHOOSE a \in p : TRUE
                                       b == CHOOSE b \in p : b # a
                                   IN ScoreCompatibility(registry[a], registry[b])]
<1>2. \A p \in Pairs(S) : score[p] \in Int
  <2> SUFFICES ASSUME NEW p \in Pairs(S) PROVE score[p] \in Int
    OBVIOUS
  <2> DEFINE a == CHOOSE a \in p : TRUE
             b == CHOOSE b \in p : b # a
  <2>1. p \subseteq S /\ a \in p /\ b \in p
    <3>1. p \subseteq S /\ p # {} /\ \A x \in p : \E y \in p : y # x
      BY <1>1, PairsFinite
    <3>2. a \in p
      BY <3>1
    <3> HIDE DEF a
    <3>3. b \in p
      BY <3>1, <3>2
    <3> QED
      BY <3>1, <3>2, <3>3
  <2>2. score[p] = ScoreCompatibility(registry[a], registry[b])
    OBVIOUS
  <2> HIDE DEF a, b, score
  <2>3. registry[a] \in Profiles /\ registry[b] \in Profiles
    BY <1>1, <2>1
  <2> QED
    BY ONLY <2>2, <2>3, CompatInt
<1>3. IsFiniteSet(Pairs(S)) /\ Cardinality(Pairs(S)) \in Nat /\ (Pairs(S) # {} => Cardinality(Pairs(S)) # 0)
  BY <1>1, PairsFinite
<1> HIDE DEF score
<1>4. Total(score, Pairs(S)) \in Int
  BY ONLY <1>2, <1>3, TotalInt
<1>5. Pairs(S) # {} => Total(score, Pairs(S)) \div Cardinality(Pairs(S)) \in Int
  BY <1>3, <1>4
<1> QED
  BY <1>5 DEF Compatibility, score

(* A treaty brought into force is one active treaty more, or none.         *)
LEMMA MoreActive ==
  ASSUME PlanetaryTypes, NEW i \in DOMAIN treaties, NEW K
  PROVE  LET inForce == [treaties EXCEPT ![i].status = "active"] IN
         /\ Active(treaties, K) \subseteq Active(inForce, K)
         /\ Cardinality(Active(treaties, K)) \in Nat /\ Cardinality(Active(inForce, K)) \in Nat
         /\ Cardinality(Active(treaties, K)) <= Cardinality(Active(inForce, K))
<1> DEFINE inForce == [treaties EXCEPT ![i].status = "active"]
<1>1. /\ treaties \in Seq(Pact)
      /\ DOMAIN treaties = 1 .. Len(treaties) /\ Len(treaties) \in Nat
  BY DEF PlanetaryTypes
<1>2. DOMAIN inForce = DOMAIN treaties
  BY <1>1
<1>3. \A n \in DOMAIN treaties : /\ inForce[n].kind = treaties[n].kind
                                 /\ inForce[n].status = IF n = i THEN "active" ELSE treaties[n].status
  BY <1>1 DEF Pact
<1> HIDE DEF inForce
<1>4. Active(treaties, K) \subseteq Active(inForce, K) /\ Active(inForce, K) \subseteq 1 .. Len(treaties)
  BY <1>1, <1>2, <1>3 DEF Active
<1>5. IsFiniteSet(1 .. Len(treaties))
  BY <1>1, FS_Interval
<1>6. IsFiniteSet(Active(inForce, K))
  BY <1>4, <1>5, FS_Subset
<1>7. IsFiniteSet(Active(treaties, K)) /\ Cardinality(Active(treaties, K)) <= Cardinality(Active(inForce, K))
  BY <1>4, <1>6, FS_Subset
<1>8. Cardinality(Active(treaties, K)) \in Nat /\ Cardinality(Active(inForce, K)) \in Nat
  BY <1>6, <1>7, FS_CardinalityType
<1> QED
  BY <1>4, <1>7, <1>8 DEF inForce

(* Enough is a sum whose terms are whole numbers.                          *)
LEMMA CoverageHelps ==
  ASSUME PlanetaryTypes, NEW i \in DOMAIN treaties, NEW K, NEW S \in SUBSET DOMAIN registry
  PROVE  LET inForce == [treaties EXCEPT ![i].status = "active"] IN
         /\ Coverage(S, K, treaties) \in Int /\ Coverage(S, K, inForce) \in Int
         /\ Coverage(S, K, treaties) <= Coverage(S, K, inForce)
<1> DEFINE inForce == [treaties EXCEPT ![i].status = "active"]
           n == Cardinality(Active(treaties, K))
           m == Cardinality(Active(inForce, K))
           d == Cardinality(Pairs(S))
<1>1. n \in Nat /\ m \in Nat /\ n <= m
  BY MoreActive
<1>2. IsFiniteSet(S) /\ Cardinality(S) \in Nat
  BY ScoresInt, FS_CardinalityType
<1>3. d \in Nat /\ (Pairs(S) # {} => d # 0)
  BY <1>2, PairsFinite
<1>4. Cardinality(S) >= 2 => Pairs(S) # {}
  <2> SUFFICES ASSUME Cardinality(S) >= 2 PROVE Pairs(S) # {}
    OBVIOUS
  <2>1. S # {}
    BY <1>2, FS_EmptySet
  <2>2. PICK c \in S : TRUE
    BY <2>1
  <2>3. S # {c}
    <3>1. Cardinality({c}) = 1
      BY FS_Singleton
    <3> QED
      BY <3>1
  <2>4. PICK e \in S : e # c
    BY <2>2, <2>3
  <2>5. {c, e} \in Pairs(S)
    BY <2>2, <2>4 DEF Pairs
  <2> QED
    BY <2>5
<1>5. /\ Coverage(S, K, treaties) = IF Cardinality(S) < 2 THEN 0 ELSE AtMost(1000, (1000 * n) \div d)
      /\ Coverage(S, K, inForce) = IF Cardinality(S) < 2 THEN 0 ELSE AtMost(1000, (1000 * m) \div d)
  BY DEF Coverage
<1> HIDE DEF n, m, d
<1>6. ASSUME Cardinality(S) >= 2
      PROVE  /\ (1000 * n) \div d \in Int /\ (1000 * m) \div d \in Int
             /\ (1000 * n) \div d <= (1000 * m) \div d
  <2>1. d \in Nat \ {0}
    BY <1>3, <1>4, <1>6
  <2>2. 1000 * n \in Int /\ 1000 * m \in Int /\ 1000 * n <= 1000 * m
    BY <1>1
  <2> QED
    BY <2>1, <2>2, Whole
<1>7. CASE Cardinality(S) < 2
  BY <1>5, <1>7 DEF inForce
<1>8. CASE ~(Cardinality(S) < 2)
  <2>1. Cardinality(S) >= 2
    BY <1>2, <1>8
  <2> DEFINE x == (1000 * n) \div d
             y == (1000 * m) \div d
  <2>2. x \in Int /\ y \in Int /\ x <= y
    BY <1>6, <2>1
  <2>3. Coverage(S, K, treaties) = AtMost(1000, x) /\ Coverage(S, K, inForce) = AtMost(1000, y)
    BY <1>5, <1>8
  <2> HIDE DEF x, y
  <2>4. AtMost(1000, x) \in Int /\ AtMost(1000, y) \in Int /\ AtMost(1000, x) <= AtMost(1000, y)
    BY <2>2 DEF AtMost
  <2> QED
    BY <2>3, <2>4 DEF inForce
<1> QED
  BY <1>7, <1>8

LEMMA CohesionHelps ==
  ASSUME PlanetaryTypes, NEW i \in DOMAIN treaties, NEW S \in SUBSET DOMAIN registry
  PROVE  LET inForce == [treaties EXCEPT ![i].status = "active"] IN
         /\ Cohesion(S, treaties) \in Int /\ Cohesion(S, inForce) \in Int
         /\ Cohesion(S, treaties) <= Cohesion(S, inForce)
<1> DEFINE inForce == [treaties EXCEPT ![i].status = "active"]
           t == TrustOf(S)
           x == Coverage(S, TreatyKind, treaties)
           y == Coverage(S, TreatyKind, inForce)
           k == Cardinality(DOMAIN councils)
<1>1. x \in Int /\ y \in Int /\ x <= y
  BY CoverageHelps
<1>2. t \in Int
  BY ScoresInt
<1>3. k \in Nat
  BY FS_CardinalityType DEF PlanetaryTypes
<1>4. Cohesion(S, treaties) = (5 * t + 3 * x + 400 * k) \div 10 /\ Cohesion(S, inForce) = (5 * t + 3 * y + 400 * k) \div 10
  BY DEF Cohesion
<1> HIDE DEF t, x, y, k
<1>5. 5 * t + 3 * x + 400 * k \in Int /\ 5 * t + 3 * y + 400 * k \in Int /\ 5 * t + 3 * x + 400 * k <= 5 * t + 3 * y + 400 * k
  BY <1>1, <1>2, <1>3
<1>6. /\ (5 * t + 3 * x + 400 * k) \div 10 \in Int /\ (5 * t + 3 * y + 400 * k) \div 10 \in Int
      /\ (5 * t + 3 * x + 400 * k) \div 10 <= (5 * t + 3 * y + 400 * k) \div 10
  BY ONLY <1>5, Whole, 10 \in Nat \ {0}
<1> QED
  BY <1>4, <1>6 DEF inForce

LEMMA CoherenceHelps ==
  ASSUME PlanetaryTypes, NEW i \in DOMAIN treaties, NEW S \in SUBSET DOMAIN registry
  PROVE  LET inForce == [treaties EXCEPT ![i].status = "active"] IN
         /\ Coherence(S, treaties) \in Int /\ Coherence(S, inForce) \in Int
         /\ Coherence(S, treaties) <= Coherence(S, inForce)
<1> DEFINE inForce == [treaties EXCEPT ![i].status = "active"]
           h == HealthOf(S)
           c == Compatibility(S)
           x == Coverage(S, TreatyKind, treaties)
           y == Coverage(S, TreatyKind, inForce)
<1>1. x \in Int /\ y \in Int /\ x <= y
  BY CoverageHelps
<1>2. h \in Int /\ c \in Int
  BY ScoresInt, CompatibilityInt
<1>3. Coherence(S, treaties) = (3 * h + 4 * c + 3 * x) \div 10 /\ Coherence(S, inForce) = (3 * h + 4 * c + 3 * y) \div 10
  BY DEF Coherence
<1> HIDE DEF h, c, x, y
<1>4. 3 * h + 4 * c + 3 * x \in Int /\ 3 * h + 4 * c + 3 * y \in Int /\ 3 * h + 4 * c + 3 * x <= 3 * h + 4 * c + 3 * y
  BY <1>1, <1>2
<1>5. /\ (3 * h + 4 * c + 3 * x) \div 10 \in Int /\ (3 * h + 4 * c + 3 * y) \div 10 \in Int
      /\ (3 * h + 4 * c + 3 * x) \div 10 <= (3 * h + 4 * c + 3 * y) \div 10
  BY ONLY <1>4, Whole, 10 \in Nat \ {0}
<1> QED
  BY <1>3, <1>5 DEF inForce

LEMMA SynchronizationHelps ==
  ASSUME PlanetaryTypes, NEW i \in DOMAIN treaties, NEW S \in SUBSET DOMAIN registry
  PROVE  LET inForce == [treaties EXCEPT ![i].status = "active"] IN
         /\ Synchronization(S, treaties) \in Int /\ Synchronization(S, inForce) \in Int
         /\ Synchronization(S, treaties) <= Synchronization(S, inForce)
<1> DEFINE inForce == [treaties EXCEPT ![i].status = "active"]
           K == {"joint_governance", "constitutional_union", "strategic_alliance"}
           x == Coverage(S, K, treaties)
           y == Coverage(S, K, inForce)
<1>1. x \in Int /\ y \in Int /\ x <= y
  BY CoverageHelps
<1>2. /\ Synchronization(S, treaties) = IF Cardinality(S) < 2 THEN 500 ELSE AtMost(1000, 200 + x)
      /\ Synchronization(S, inForce) = IF Cardinality(S) < 2 THEN 500 ELSE AtMost(1000, 200 + y)
  BY DEF Synchronization
<1> HIDE DEF x, y
<1>3. AtMost(1000, 200 + x) \in Int /\ AtMost(1000, 200 + y) \in Int /\ AtMost(1000, 200 + x) <= AtMost(1000, 200 + y)
  BY <1>1 DEF AtMost
<1> QED
  BY <1>2, <1>3 DEF inForce

LEMMA CouncilKinds ==
  /\ DOMAIN Quorum = {"security_council", "economic_council", "science_council", "ethics_council", "arbitration_tribunal"}
  /\ IsFiniteSet(DOMAIN Quorum)
  /\ \A k \in DOMAIN Quorum : Quorum[k] \in Int /\ Quorum[k] <= 750
<1>1. DOMAIN Quorum = {"security_council", "economic_council", "science_council", "ethics_council", "arbitration_tribunal"}
  BY DEF Quorum
<1>2. IsFiniteSet({"security_council", "economic_council", "science_council", "ethics_council", "arbitration_tribunal"})
  <2>1. IsFiniteSet({"security_council"})
    BY FS_Singleton
  <2>2. IsFiniteSet({"security_council"} \cup {"economic_council"})
    BY <2>1, FS_AddElement
  <2>3. IsFiniteSet({"security_council"} \cup {"economic_council"} \cup {"science_council"})
    BY <2>2, FS_AddElement
  <2>4. IsFiniteSet({"security_council"} \cup {"economic_council"} \cup {"science_council"} \cup {"ethics_council"})
    BY <2>3, FS_AddElement
  <2>5. IsFiniteSet({"security_council"} \cup {"economic_council"} \cup {"science_council"} \cup {"ethics_council"}
                    \cup {"arbitration_tribunal"})
    BY <2>4, FS_AddElement
  <2>6. {"security_council", "economic_council", "science_council", "ethics_council", "arbitration_tribunal"}
          = {"security_council"} \cup {"economic_council"} \cup {"science_council"} \cup {"ethics_council"}
                    \cup {"arbitration_tribunal"}
    BY Zenon
  <2> QED
    BY <2>5, <2>6
<1>3. \A k \in DOMAIN Quorum : Quorum[k] \in Int /\ Quorum[k] <= 750
  BY DEF Quorum
<1> QED
  BY <1>1, <1>2, <1>3

LEMMA SeenInt ==
  ASSUME PlanetaryTypes, NEW S
  PROVE  CouncilsSeen(S) \in Int
<1>1. IsFiniteSet(DOMAIN councils)
  BY DEF PlanetaryTypes
<1>2. Formable(Cardinality(S)) \subseteq DOMAIN Quorum
  BY DEF Formable
<1>3. IsFiniteSet(Formable(Cardinality(S)))
  BY <1>2, CouncilKinds, FS_Subset
<1>4. Cardinality(DOMAIN councils) \in Nat /\ Cardinality(Formable(Cardinality(S))) \in Nat
  BY <1>1, <1>3, FS_CardinalityType
<1> QED
  BY <1>4 DEF CouncilsSeen

LEMMA DivergenceInt ==
  ASSUME PlanetaryTypes, NEW S \in SUBSET DOMAIN registry
  PROVE  Divergence(S) \in Int
<1>1. IsFiniteSet(S)
  BY ScoresInt
<1>2. Cardinality(IdeologiesOf(S)) \in Nat
  <2> DEFINE ideologies == {registry[c].ideology : c \in S}
             f == [c \in S |-> registry[c].ideology]
  <2>1. IsFiniteSet(ideologies)
    <3>1. f \in [S -> ideologies] /\ \A x \in ideologies : \E c \in S : f[c] = x
      OBVIOUS
    <3> HIDE DEF f, ideologies
    <3>2. f \in Surjection(S, ideologies)
      BY <3>1 DEF Surjection
    <3> QED
      BY <1>1, <3>2, FS_Surjection
  <2>2. Cardinality(ideologies) \in Nat
    BY <2>1, FS_CardinalityType
  <2> QED
    BY <2>2 DEF IdeologiesOf
<1> QED
  BY <1>2 DEF Divergence, AtMost

LEMMA AlignmentHelps ==
  ASSUME PlanetaryTypes, NEW i \in DOMAIN treaties, NEW S \in SUBSET DOMAIN registry
  PROVE  LET inForce == [treaties EXCEPT ![i].status = "active"] IN
         /\ Alignment(S, treaties) \in Int /\ Alignment(S, inForce) \in Int
         /\ Alignment(S, treaties) <= Alignment(S, inForce)
<1> DEFINE inForce == [treaties EXCEPT ![i].status = "active"]
           passed == {n \in DOMAIN resolutions : resolutions[n].passed}
           p == AtMost(200, 50 * Cardinality(passed))
           x == Cohesion(S, treaties)
           y == Cohesion(S, inForce)
           s == CouncilsSeen(S)
<1>1. x \in Int /\ y \in Int /\ x <= y
  BY CohesionHelps
<1>2. p \in Int
  <2>1. passed \subseteq 1 .. Len(resolutions) /\ Len(resolutions) \in Nat
    BY DEF PlanetaryTypes
  <2> HIDE DEF passed
  <2>2. IsFiniteSet(1 .. Len(resolutions))
    BY <2>1, FS_Interval
  <2>3. Cardinality(passed) \in Nat
    BY <2>1, <2>2, FS_Subset, FS_CardinalityType
  <2> QED
    BY <2>3 DEF AtMost
<1>3. s \in Int
  BY SeenInt
<1>4. /\ Alignment(S, treaties) = AtMost(1000, x \div 2 + 60 * s + p)
      /\ Alignment(S, inForce) = AtMost(1000, y \div 2 + 60 * s + p)
  BY DEF Alignment
<1> HIDE DEF x, y, s, p
<1>5. x \div 2 \in Int /\ y \div 2 \in Int /\ x \div 2 <= y \div 2
  BY ONLY <1>1, Whole, 2 \in Nat \ {0}
<1> DEFINE u == x \div 2
           v == y \div 2
<1>6. u \in Int /\ v \in Int /\ u <= v
  BY <1>5
<1> HIDE DEF u, v
<1>7. /\ AtMost(1000, u + 60 * s + p) \in Int /\ AtMost(1000, v + 60 * s + p) \in Int
      /\ AtMost(1000, u + 60 * s + p) <= AtMost(1000, v + 60 * s + p)
  BY <1>2, <1>3, <1>6 DEF AtMost
<1> QED
  BY <1>4, <1>7 DEF inForce, u, v

LEMMA FixedInt ==
  ASSUME PlanetaryTypes, NEW S \in SUBSET DOMAIN registry
  PROVE  Harmony(S) \in Int /\ MacroResilience(S) \in Int /\ AdaptiveIntelligence(S) \in Int
<1>1. HealthOf(S) \in Int /\ WisdomOf(S) \in Int /\ TrustOf(S) \in Int /\ Divergence(S) \in Int
  BY ScoresInt, DivergenceInt
<1>2. Harmony(S) \in Int
  <2>1. 70 * TrustOf(S) + 3 * (10000 - 3 * Divergence(S)) \in Int
    BY <1>1
  <2> QED
    BY <2>1, Whole, 100 \in Nat \ {0} DEF Harmony
<1>3. MacroResilience(S) \in Int
  <2> DEFINE h == HealthOf(S)
             r == CascadeRisk(<<80, 90>>, S)
  <2>1. h \in Int
    BY <1>1
  <2>2. r = (2 * (12 * 80 * (1000 - h)) + 1000) \div (2 * 1000)
    BY DEF CascadeRisk, Rounded
  <2> HIDE DEF h
  <2>3. r \in Int
    BY <2>1, <2>2
  <2> HIDE DEF r
  <2>4. (1000 - h + r) \div 2 \in Int
    BY <2>1, <2>3
  <2>5. AtMost(1000, (1000 - h + r) \div 2) \in Int
    BY <2>4 DEF AtMost
  <2> QED
    BY <2>5 DEF MacroResilience, h, r
<1>4. AdaptiveIntelligence(S) \in Int
  <2> DEFINE tiers == [transcendent |-> 100, advanced |-> 75, established |-> 50, nascent |-> 25]
             f == [c \in S |-> tiers[registry[c].tier]]
  <2>1. \A t \in {"transcendent", "advanced", "established", "nascent"} : tiers[t] \in Int
    OBVIOUS
  <2>2. \A c \in S : f[c] \in Int
    <3>1. \A c \in S : registry[c].tier \in {"transcendent", "advanced", "established", "nascent"}
      BY ScoresInt, ProfilesAssumption
    <3> HIDE DEF tiers
    <3> QED
      BY <2>1, <3>1
  <2>3. AdaptiveIntelligence(S) = (6 * WisdomOf(S) + 4 * Average(f, S)) \div 10
    BY DEF AdaptiveIntelligence
  <2> HIDE DEF f
  <2>4. IsFiniteSet(S)
    BY ScoresInt
  <2>5. Average(f, S) \in Int
    BY ONLY <2>2, <2>4, AverageInt
  <2>6. 6 * WisdomOf(S) + 4 * Average(f, S) \in Int
    BY <1>1, <2>5
  <2> QED
    BY ONLY <2>3, <2>6, Whole, 10 \in Nat \ {0}
<1> QED
  BY <1>2, <1>3, <1>4

LEMMA AwarenessHelps ==
  ASSUME PlanetaryTypes, NEW i \in DOMAIN treaties, NEW S \in SUBSET DOMAIN registry
  PROVE  LET inForce == [treaties EXCEPT ![i].status = "active"] IN
         Awareness(S, inForce) >= Awareness(S, treaties)
<1> DEFINE inForce == [treaties EXCEPT ![i].status = "active"]
           mean(ts) == (Coherence(S, ts) + Harmony(S) + Alignment(S, ts) + MacroResilience(S)
                          + AdaptiveIntelligence(S) + Synchronization(S, ts)) \div 6
           sum(ts) == Coherence(S, ts) + Harmony(S) + Alignment(S, ts) + MacroResilience(S)
                          + AdaptiveIntelligence(S) + Synchronization(S, ts)
           active(ts) == Cardinality(Active(ts, TreatyKind))
           union(ts) == Active(ts, {"constitutional_union"})
<1>1. /\ Coherence(S, treaties) \in Int /\ Coherence(S, inForce) \in Int
      /\ Coherence(S, treaties) <= Coherence(S, inForce)
  BY CoherenceHelps
<1>2. /\ Alignment(S, treaties) \in Int /\ Alignment(S, inForce) \in Int
      /\ Alignment(S, treaties) <= Alignment(S, inForce)
  BY AlignmentHelps
<1>3. /\ Synchronization(S, treaties) \in Int /\ Synchronization(S, inForce) \in Int
      /\ Synchronization(S, treaties) <= Synchronization(S, inForce)
  BY SynchronizationHelps
<1>4. /\ Cohesion(S, treaties) \in Int /\ Cohesion(S, inForce) \in Int
      /\ Cohesion(S, treaties) <= Cohesion(S, inForce)
  BY CohesionHelps
<1>5. Harmony(S) \in Int /\ MacroResilience(S) \in Int /\ AdaptiveIntelligence(S) \in Int /\ CouncilsSeen(S) \in Int
  BY FixedInt, SeenInt
<1>6. active(treaties) \in Nat /\ active(inForce) \in Nat /\ active(treaties) <= active(inForce)
  BY MoreActive
<1>7. union(treaties) \subseteq union(inForce)
  BY MoreActive
<1>8. mean(treaties) \in Int /\ mean(inForce) \in Int /\ mean(treaties) <= mean(inForce)
  <2>1. sum(treaties) \in Int /\ sum(inForce) \in Int /\ sum(treaties) <= sum(inForce)
    <3> HIDE DEF inForce
    <3> QED
      BY <1>1, <1>2, <1>3, <1>5
  <2>2. mean(treaties) = sum(treaties) \div 6 /\ mean(inForce) = sum(inForce) \div 6
    OBVIOUS
  <2> HIDE DEF sum, mean, inForce
  <2>3. sum(treaties) \div 6 \in Int /\ sum(inForce) \div 6 \in Int /\ sum(treaties) \div 6 <= sum(inForce) \div 6
    BY ONLY <2>1, Whole, 6 \in Nat \ {0}
  <2> QED
    BY <2>2, <2>3
<1> DEFINE Level(mean0, union0, cohesion0, alignment0, active0, coherence0) ==
             IF union0 # {} /\ mean0 > 750 /\ cohesion0 > 800 THEN 5
             ELSE IF mean0 > 700 /\ CouncilsSeen(S) >= 4 /\ alignment0 > 650 THEN 4
             ELSE IF active0 >= 2 /\ CouncilsSeen(S) >= 2 /\ mean0 > 550 THEN 3
             ELSE IF active0 >= 1 /\ mean0 > 450 THEN 2
             ELSE IF coherence0 > 350 \/ active0 > 0 THEN 1 ELSE 0
<1>9. /\ Awareness(S, treaties) = Level(mean(treaties), union(treaties), Cohesion(S, treaties), Alignment(S, treaties),
                                        active(treaties), Coherence(S, treaties))
      /\ Awareness(S, inForce) = Level(mean(inForce), union(inForce), Cohesion(S, inForce), Alignment(S, inForce),
                                       active(inForce), Coherence(S, inForce))
  <2> HIDE DEF inForce
  <2> QED
    BY DEF Awareness
<1> HIDE DEF mean, union, active, inForce
<1>10. Level(mean(treaties), union(treaties), Cohesion(S, treaties), Alignment(S, treaties), active(treaties), Coherence(S, treaties))
       <= Level(mean(inForce), union(inForce), Cohesion(S, inForce), Alignment(S, inForce), active(inForce), Coherence(S, inForce))
       /\ Level(mean(treaties), union(treaties), Cohesion(S, treaties), Alignment(S, treaties), active(treaties), Coherence(S, treaties)) \in 0 .. 5
       /\ Level(mean(inForce), union(inForce), Cohesion(S, inForce), Alignment(S, inForce), active(inForce), Coherence(S, inForce)) \in 0 .. 5
  <2>1. union(treaties) # {} => union(inForce) # {}
    BY <1>7
  <2> QED
    BY <1>1, <1>2, <1>4, <1>5, <1>6, <1>8, <2>1
<1> HIDE DEF Level
<1> QED
  BY <1>9, <1>10 DEF inForce

LEMMA ThreatFalls ==
  ASSUME PlanetaryTypes, NEW i \in DOMAIN treaties, NEW S \in SUBSET DOMAIN registry
  PROVE  LET inForce == [treaties EXCEPT ![i].status = "active"] IN
         ThreatLevel(S, inForce) <= ThreatLevel(S, treaties)
<1> DEFINE inForce == [treaties EXCEPT ![i].status = "active"]
           a == CascadeFailure(S)
           b == Instability(S)
           c == IF Divergence(S) = 0 THEN 0 ELSE IF Divergence(S) > 600 THEN 3 ELSE 2
           d(ts) == ResourceCollapse(S, ts)
           e(ts) == KnowledgeHoarding(S, ts)
<1>1. a \in {0, 2, 3, 4} /\ b \in {0, 3, 4} /\ c \in {0, 2, 3}
  <2>1. a \in {0, 2, 3, 4}
    BY DEF CascadeFailure
  <2>2. b \in {0, 3, 4}
    BY DEF Instability
  <2>3. c \in {0, 2, 3}
    OBVIOUS
  <2> QED
    BY <2>1, <2>2, <2>3
<1>2. d(treaties) \in {0, 2, 3} /\ d(inForce) \in {0, 2, 3} /\ d(inForce) <= d(treaties)
  <2> DEFINE h == HealthOf(S)
             x == Active(treaties, {"resource_compact"}) # {}
             y == Active(inForce, {"resource_compact"}) # {}
             lost == (6 * (1000 - h)) \div 10
             Prob(compact) == AtMost(800, lost + (IF compact THEN 0 ELSE 200))
             Grade(compact) == IF (compact /\ h > 500) \/ Prob(compact) < 250 THEN 0 ELSE IF Prob(compact) > 550 THEN 3 ELSE 2
  <2>1. x => y
    BY MoreActive
  <2>2. h \in Int /\ lost \in Int
    <3>1. h \in Int
      BY ScoresInt
    <3> HIDE DEF h
    <3> QED
      BY <3>1
  <2>3. /\ d(treaties) = IF (x /\ h > 500) \/ AtMost(800, lost + (IF x THEN 0 ELSE 200)) < 250 THEN 0
                         ELSE IF AtMost(800, lost + (IF x THEN 0 ELSE 200)) > 550 THEN 3 ELSE 2
        /\ d(inForce) = IF (y /\ h > 500) \/ AtMost(800, lost + (IF y THEN 0 ELSE 200)) < 250 THEN 0
                         ELSE IF AtMost(800, lost + (IF y THEN 0 ELSE 200)) > 550 THEN 3 ELSE 2
    <3> HIDE DEF inForce
    <3> QED
      BY DEF ResourceCollapse
  <2> HIDE DEF h, x, y, lost, d, inForce
  <2> QED
    BY <2>1, <2>2, <2>3 DEF AtMost
<1>3. e(treaties) \in {0, 2} /\ e(inForce) \in {0, 2} /\ e(inForce) <= e(treaties)
  <2> DEFINE wise == (\E z \in S : registry[z].wisdom > 65) /\ \E z \in S : registry[z].wisdom < 30
             x == Active(treaties, {"free_exchange"}) = {}
             y == Active(inForce, {"free_exchange"}) = {}
  <2>1. y => x
    BY MoreActive
  <2>2. /\ e(treaties) = IF x /\ wise THEN 2 ELSE 0
        /\ e(inForce) = IF y /\ wise THEN 2 ELSE 0
    <3> HIDE DEF inForce
    <3> QED
      BY Zenon DEF KnowledgeHoarding
  <2> HIDE DEF wise, x, y, e, inForce
  <2> QED
    BY <2>1, <2>2
<1> DEFINE grades(ts) == <<a, b, c, d(ts), e(ts)>>
           risks(g) == {r \in DOMAIN g : g[r] > 0}
           Graded(g, n) == \E r \in risks(g) : g[r] = n
           Level(g) == IF Graded(g, 4) THEN 4
                       ELSE IF Graded(g, 3) /\ Cardinality(risks(g)) >= 3 THEN 3
                       ELSE IF Graded(g, 3) THEN 2 ELSE IF Cardinality(risks(g)) >= 2 THEN 1 ELSE 0
<1>4. ThreatLevel(S, treaties) = Level(grades(treaties)) /\ ThreatLevel(S, inForce) = Level(grades(inForce))
  <2> HIDE DEF inForce
  <2> QED
    BY DEF ThreatLevel
<1> DEFINE g == grades(treaties)
           k == grades(inForce)
<1>5. /\ DOMAIN g = 1 .. 5 /\ DOMAIN k = 1 .. 5
      /\ g[1] = a /\ g[2] = b /\ g[3] = c /\ g[4] = d(treaties) /\ g[5] = e(treaties)
      /\ k[1] = a /\ k[2] = b /\ k[3] = c /\ k[4] = d(inForce) /\ k[5] = e(inForce)
  <2> HIDE DEF a, b, c, d, e, inForce
  <2> QED
    OBVIOUS
<1> HIDE DEF a, b, c, d, e, inForce, grades
<1>6. /\ \A r \in 1 .. 5 : k[r] \in Int /\ g[r] \in Int /\ k[r] <= g[r]
      /\ \A r \in 1 .. 5 : (k[r] = 4 <=> g[r] = 4) /\ (k[r] = 3 => g[r] = 3)
  <2>1. \A r \in 1 .. 5 : r = 1 \/ r = 2 \/ r = 3 \/ r = 4 \/ r = 5
    OBVIOUS
  <2> HIDE DEF g, k
  <2> QED
    BY <1>1, <1>2, <1>3, <1>5, <2>1
<1> HIDE DEF g, k
<1>7. risks(k) \subseteq risks(g) /\ risks(g) \subseteq 1 .. 5
  BY <1>5, <1>6
<1>8. Cardinality(risks(k)) \in Nat /\ Cardinality(risks(g)) \in Nat /\ Cardinality(risks(k)) <= Cardinality(risks(g))
  <2>1. IsFiniteSet(1 .. 5)
    <3>1. 1 \in Int /\ 5 \in Int
      OBVIOUS
    <3> QED
      BY ONLY <3>1, FS_Interval
  <2> HIDE DEF risks
  <2>2. IsFiniteSet(risks(g))
    BY <1>7, <2>1, FS_Subset
  <2>3. IsFiniteSet(risks(k)) /\ Cardinality(risks(k)) <= Cardinality(risks(g))
    BY <1>7, <2>2, FS_Subset
  <2> QED
    BY <2>2, <2>3, FS_CardinalityType
<1>9. (Graded(k, 4) <=> Graded(g, 4)) /\ (Graded(k, 3) => Graded(g, 3))
  BY <1>5, <1>6
<1> HIDE DEF Graded, risks
<1>10. Level(k) <= Level(g)
  BY <1>8, <1>9
<1> HIDE DEF Level
<1> QED
  BY <1>4, <1>10 DEF inForce, g, k

-----------------------------------------------------------------------------
(* The federation: what councils weigh.                                    *)

(* Rounding loses one half at most.                                        *)
LEMMA Nearest ==
  ASSUME NEW a \in Int, NEW d \in Nat \ {0}
  PROVE  Rounded(a, d) \in Int /\ (2 * d) * Rounded(a, d) >= 2 * a - d
<1> DEFINE x == 2 * a + d
           y == 2 * d
<1>1. x \in Int /\ y \in Nat \ {0}
  OBVIOUS
<1>2. Rounded(a, d) = x \div y
  BY DEF Rounded
<1> HIDE DEF x, y
<1>3. x \div y \in Int /\ y * (x \div y) > x - y
  BY <1>1
<1>4. y * (x \div y) \in Int
  BY <1>1, <1>3
<1> DEFINE z == y * (x \div y)
<1>5. z \in Int /\ z > x - y
  BY <1>3, <1>4
<1> HIDE DEF z
<1>6. z >= 2 * a - d
  BY <1>5 DEF x, y
<1> QED
  BY <1>2, <1>3, <1>6 DEF z, y

LEMMA Cancel ==
  ASSUME NEW t \in Nat \ {0}, NEW a \in Int, NEW b \in Int, t * a >= t * b
  PROVE  a >= b
<1> SUFFICES ASSUME a < b PROVE FALSE
  OBVIOUS
<1>1. b - a \in Nat \ {0}
  OBVIOUS
<1>2. t * (b - a) >= 1
  BY <1>1
<1>3. t * (b - a) = t * b - t * a /\ t * a \in Int /\ t * b \in Int
  BY <1>1
<1> QED
  BY <1>2, <1>3

LEMMA NearestShare ==
  ASSUME NEW x \in Int, NEW t \in Nat \ {0}
  PROVE  Rounded(1000 * x, t) \in Int /\ (2 * t) * Rounded(1000 * x, t) >= 2000 * x - t
<1> DEFINE a == 1000 * x
<1>1. a \in Int
  OBVIOUS
<1> HIDE DEF a
<1>2. Rounded(a, t) \in Int /\ (2 * t) * Rounded(a, t) >= 2 * a - t
  BY ONLY <1>1, t \in Nat \ {0}, Nearest
<1>3. 2 * a = 2000 * x
  BY DEF a
<1> QED
  BY <1>2, <1>3 DEF a

Different(n, ids) == \A x \in 1 .. n, y \in 1 .. n : ids[x] = ids[y] => x = y

(* The number of places of a list whose members are all different.         *)
LEMMA DifferentNames ==
  ASSUME NEW n \in Nat, NEW C, NEW ids \in [1 .. n -> C], Cardinality(Range(ids)) = n
  PROVE  Different(n, ids)
<1>1. IsFiniteSet(1 .. n) /\ Cardinality(1 .. n) = n
  <2>1. 1 \in Int /\ n \in Int
    OBVIOUS
  <2>2. IsFiniteSet(1 .. n) /\ Cardinality(1 .. n) = IF 1 > n THEN 0 ELSE n - 1 + 1
    BY ONLY <2>1, FS_Interval
  <2> QED
    BY <2>2
<1>2. ids \in Surjection(1 .. n, Range(ids))
  BY DEF Surjection, Range
<1>3. ids \in Injection(1 .. n, Range(ids))
  BY <1>1, <1>2, FS_SurjSameCardinalityImpliesInj
<1> QED
  BY <1>3 DEF Injection, IsInjective, Different

NearShares(n, ids, v, w, t) == \A m \in 1 .. n : v[ids[m]] \in Int /\ (2 * t) * v[ids[m]] >= 2000 * w[m] - t

SharesEnough(n, ids, v, w, t) ==
  LET all == {ids[m] : m \in 1 .. n} IN
  Total(v, all) \in Int /\ (2 * t) * Total(v, all) >= 2000 * Total(w, 1 .. n) - t * n

(* If each of the different names is worth at least its share of t, to one *)
(* half, so are all of them, to one half each.                             *)
LEMMA SharesOfWhole ==
  ASSUME NEW n \in Nat, NEW C, NEW ids \in [1 .. n -> C],
         Different(n, ids), NEW w, \A m \in 1 .. n : w[m] \in Int,
         NEW v, NEW t \in Nat \ {0}, NearShares(n, ids, v, w, t)
  PROVE  SharesEnough(n, ids, v, w, t)
<1> DEFINE Img(D) == {ids[m] : m \in D}
<1>1. IsFiniteSet(1 .. n) /\ Cardinality(1 .. n) = n
  <2>1. 1 \in Int /\ n \in Int
    OBVIOUS
  <2>2. IsFiniteSet(1 .. n) /\ Cardinality(1 .. n) = IF 1 > n THEN 0 ELSE n - 1 + 1
    BY ONLY <2>1, FS_Interval
  <2> QED
    BY <2>2
<1>2. \A D \in SUBSET (1 .. n) : IsFiniteSet(D) /\ Cardinality(D) \in Nat /\ IsFiniteSet(Img(D))
  <2> SUFFICES ASSUME NEW D \in SUBSET (1 .. n)
               PROVE  IsFiniteSet(D) /\ Cardinality(D) \in Nat /\ IsFiniteSet(Img(D))
    OBVIOUS
  <2>1. IsFiniteSet(D) /\ Cardinality(D) \in Nat
    BY <1>1, FS_Subset, FS_CardinalityType
  <2> DEFINE f == [m \in D |-> ids[m]]
  <2>2. f \in [D -> Img(D)] /\ \A x \in Img(D) : \E m \in D : f[m] = x
    OBVIOUS
  <2> HIDE DEF f, Img
  <2>3. f \in Surjection(D, Img(D))
    BY <2>2 DEF Surjection
  <2>4. IsFiniteSet(Img(D))
    BY <2>1, <2>3, FS_Surjection
  <2> QED
    BY <2>1, <2>4
<1>3. \A D \in SUBSET (1 .. n) : \A c \in Img(D) : v[c] \in Int
  <2>1. \A m \in 1 .. n : v[ids[m]] \in Int
    BY DEF NearShares
  <2> SUFFICES ASSUME NEW D \in SUBSET (1 .. n), NEW c \in Img(D) PROVE v[c] \in Int
    OBVIOUS
  <2>2. PICK m \in D : c = ids[m]
    OBVIOUS
  <2> QED
    BY <2>1, <2>2
<1> DEFINE Enough(D) == /\ Total(v, Img(D)) \in Int
                        /\ (2 * t) * Total(v, Img(D)) >= 2000 * Total(w, D) - t * Cardinality(D)
           Good == {D \in SUBSET (1 .. n) : Enough(D)}
<1>4. {} \in Good
  <2>1. Img({}) = {}
    OBVIOUS
  <2>2. Cardinality({}) = 0
    BY FS_EmptySet
  <2>3. Total(v, {}) = 0 /\ Total(w, {}) = 0
    BY TotalOfNone
  <2> HIDE DEF Img
  <2>4. Total(v, Img({})) = 0
    BY <2>1, <2>3
  <2>5. (2 * t) * 0 = 0 /\ 2000 * 0 - t * 0 = 0
    OBVIOUS
  <2>6. Enough({})
    BY <2>2, <2>3, <2>4, <2>5
  <2> HIDE DEF Enough
  <2> QED
    BY <2>6
<1>5. ASSUME NEW D \in SUBSET (1 .. n), Enough(D), NEW x \in 1 .. n, x \notin D PROVE Enough(D \cup {x})
  <2> DEFINE E == D \cup {x}
             A == Total(v, Img(D))
             B == Total(w, D)
             q == v[ids[x]]
             k == Cardinality(D)
  <2>1. A \in Int /\ (2 * t) * A >= 2000 * B - t * k
    BY <1>5
  <2>2. E \in SUBSET (1 .. n) /\ E \ {x} = D /\ x \in E
    BY <1>5
  <2>3. Cardinality(E) = k + 1 /\ k \in Nat
    <3>1. IsFiniteSet(D) /\ k \in Nat
      BY <1>2
    <3>2. Cardinality(D \cup {x}) = IF x \in D THEN Cardinality(D) ELSE Cardinality(D) + 1
      BY ONLY <3>1, FS_AddElement
    <3> QED
      BY <1>5, <3>1, <3>2
  <2>4. Total(w, E) = w[x] + B /\ B \in Int
    <3>1. IsFiniteSet(E) /\ IsFiniteSet(D)
      BY <1>2, <2>2
    <3>2. (\A y \in E : w[y] \in Int) /\ \A y \in D : w[y] \in Int
      BY <2>2
    <3> HIDE DEF E
    <3>3. \A y \in E : Total(w, E) = w[y] + Total(w, E \ {y})
      BY ONLY <3>1, <3>2, TotalPlus
    <3>4. Total(w, D) \in Int
      BY ONLY <3>1, <3>2, TotalInt
    <3> QED
      BY <2>2, <3>3, <3>4
  <2>5. Total(v, Img(E)) = q + A /\ q \in Int
    <3>1. ids[x] \in Img(E) /\ Img(E) \ {ids[x]} = Img(D)
      <4>1. \A y \in D : ids[y] # ids[x]
        BY <1>5 DEF Different
      <4> QED
        BY <4>1
    <3>2. IsFiniteSet(Img(E)) /\ \A c \in Img(E) : v[c] \in Int
      <4> HIDE DEF Img, E
      <4> QED
        BY <1>2, <1>3, <2>2
    <3> HIDE DEF Img, E
    <3>3. \A c \in Img(E) : Total(v, Img(E)) = v[c] + Total(v, Img(E) \ {c})
      BY ONLY <3>2, TotalPlus
    <3> QED
      BY <3>1, <3>2, <3>3
  <2>6. (2 * t) * q >= 2000 * w[x] - t /\ w[x] \in Int
    BY DEF NearShares
  <2> HIDE DEF A, B, q, k, E, Img
  <2>7. (2 * t) * (q + A) >= 2000 * (w[x] + B) - t * (k + 1)
    <3>1. (2 * t) * (q + A) = (2 * t) * q + (2 * t) * A /\ (2 * t) * q \in Int /\ (2 * t) * A \in Int
      BY <2>1, <2>5
    <3>2. t * (k + 1) = t * k + t /\ t * k \in Int
      BY <2>3
    <3> DEFINE a == (2 * t) * q
               b == (2 * t) * A
               c == t * k
    <3>3. PICK y : y = w[x]
      OBVIOUS
    <3>4. /\ a \in Int /\ b \in Int /\ c \in Int /\ y \in Int /\ B \in Int /\ t \in Int
          /\ a >= 2000 * y - t /\ b >= 2000 * B - c
      BY <2>1, <2>4, <2>6, <3>1, <3>2, <3>3
    <3>5. PICK z : z = B
      OBVIOUS
    <3>6. /\ a \in Int /\ b \in Int /\ c \in Int /\ y \in Int /\ z \in Int /\ t \in Int
          /\ a >= 2000 * y - t /\ b >= 2000 * z - c
      BY <3>4, <3>5
    <3> HIDE DEF a, b, c
    <3>7. a + b >= 2000 * (y + z) - (c + t)
      BY ONLY <3>6
    <3> QED
      BY <3>1, <3>2, <3>3, <3>5, <3>7 DEF a, b, c
  <2>8. q + A \in Int
    BY <2>1, <2>5
  <2>9. Enough(E)
    BY <2>3, <2>4, <2>5, <2>7, <2>8
  <2> HIDE DEF Enough
  <2> QED
    BY <2>9 DEF E
<1>6. Enough(1 .. n)
  <2> HIDE DEF Enough
  <2>1. Good \in SUBSET SUBSET (1 .. n)
    OBVIOUS
  <2>2. \A D \in Good, x \in 1 .. n : x \notin D => D \cup {x} \in Good
    <3> SUFFICES ASSUME NEW D \in Good, NEW x \in 1 .. n, x \notin D PROVE D \cup {x} \in Good
      OBVIOUS
    <3>1. D \in SUBSET (1 .. n) /\ Enough(D) /\ D \cup {x} \in SUBSET (1 .. n)
      OBVIOUS
    <3>2. Enough(D \cup {x})
      BY ONLY <1>5, <3>1, x \in 1 .. n, x \notin D
    <3> QED
      BY <3>1, <3>2
  <2>3. 1 .. n \in Good
    <3> HIDE DEF Good
    <3> QED
      BY ONLY <1>1, <1>4, <2>1, <2>2, SetInduction
  <2> QED
    BY <2>3
<1> QED
  BY <1>1, <1>6 DEF SharesEnough

LEMMA WeightInt ==
  ASSUME PlanetaryTypes, NEW c \in DOMAIN registry
  PROVE  Weight(c) \in Int
<1>1. registry[c] \in Profiles
  BY DEF PlanetaryTypes
<1>2. registry[c].health \in Int /\ registry[c].wisdom \in Int /\ registry[c].trust \in Int
  BY <1>1, ProfilesAssumption
<1> DEFINE h == registry[c].health
           w == registry[c].wisdom
           t == registry[c].trust
<1>3. h \in Int /\ w \in Int /\ t \in Int
  BY <1>2
<1>4. Weight(c) = 40 * h + 35 * w + 25 * t
  BY DEF Weight
<1> HIDE DEF h, w, t
<1>5. 40 * h + 35 * w + 25 * t \in Int
  BY ONLY <1>3
<1> QED
  BY <1>4, <1>5

(* What the members of a sound council weigh together.                     *)
LEMMA Founding ==
  ASSUME PlanetaryTypes, NEW n \in Nat, NEW ids \in [1 .. n -> DOMAIN registry], Council(ids).sound
  PROVE  2 * Total(Council(ids).weights, Council(ids).members) >= 2000 - n
         /\ Total(Council(ids).weights, Council(ids).members) \in Int
<1> DEFINE total == Total([m \in DOMAIN ids |-> Weight(ids[m])], DOMAIN ids)
           v == [c \in Range(ids) |-> IF total = 0 THEN 0 ELSE Rounded(1000 * Weight(c), total)]
           w == [m \in 1 .. n |-> Weight(ids[m])]
<1>1. DOMAIN ids = 1 .. n /\ Len(ids) = n
  OBVIOUS
<1>2. Council(ids) = [members |-> Range(ids), sound |-> total > 0 /\ Cardinality(Range(ids)) = Len(ids), weights |-> v]
  BY Zenon DEF Council
<1>3. w = [m \in DOMAIN ids |-> Weight(ids[m])] /\ total = Total(w, 1 .. n)
  BY <1>1
<1>4. \A m \in 1 .. n : w[m] = Weight(ids[m]) /\ w[m] \in Int
  BY WeightInt
<1>5. total \in Int
  <2>1. IsFiniteSet(1 .. n)
    <3>1. 1 \in Int /\ n \in Int
      OBVIOUS
    <3> QED
      BY ONLY <3>1, FS_Interval
  <2> HIDE DEF w
  <2>2. Total(w, 1 .. n) \in Int
    BY ONLY <1>4, <2>1, TotalInt
  <2> HIDE DEF total
  <2> QED
    BY <1>3, <2>2
<1>6. \A c \in Range(ids) : v[c] = IF total = 0 THEN 0 ELSE Rounded(1000 * Weight(c), total)
  <2> HIDE DEF total
  <2> QED
    OBVIOUS
<1> HIDE DEF total, v, w
<1>7. Council(ids).members = Range(ids) /\ Council(ids).weights = v
  BY <1>2
<1>8. total > 0 /\ Cardinality(Range(ids)) = n
  <2> DEFINE ok == total > 0 /\ Cardinality(Range(ids)) = Len(ids)
  <2>1. ok
    <3>1. Council(ids) = [members |-> Range(ids), sound |-> ok, weights |-> v] /\ ok \in BOOLEAN
      BY <1>2
    <3> HIDE DEF ok
    <3>2. Council(ids).sound = ok
      BY <3>1
    <3> QED
      BY <3>2
  <2> QED
    BY <1>1, <2>1
<1>9. Range(ids) = {ids[m] : m \in 1 .. n}
  BY <1>1 DEF Range
<1>10. Different(n, ids)
  BY ONLY n \in Nat, ids \in [1 .. n -> DOMAIN registry], <1>8, DifferentNames
<1>11. total \in Nat \ {0}
  BY <1>5, <1>8
<1>12. NearShares(n, ids, v, w, total)
  <2> SUFFICES ASSUME NEW m \in 1 .. n
               PROVE  v[ids[m]] \in Int /\ (2 * total) * v[ids[m]] >= 2000 * w[m] - total
    BY DEF NearShares
  <2>1. ids[m] \in Range(ids) /\ w[m] = Weight(ids[m]) /\ w[m] \in Int
    BY <1>4, <1>9
  <2>2. v[ids[m]] = Rounded(1000 * w[m], total)
    BY <1>6, <1>11, <2>1
  <2>3. /\ Rounded(1000 * w[m], total) \in Int
        /\ (2 * total) * Rounded(1000 * w[m], total) >= 2000 * w[m] - total
    BY ONLY <1>11, <2>1, NearestShare
  <2> QED
    BY <2>2, <2>3
<1> DEFINE A == Total(v, Range(ids))
<1>13. A \in Int /\ (2 * total) * A >= 2000 * total - total * n
  <2>1. \A m \in 1 .. n : w[m] \in Int
    BY <1>4
  <2>2. SharesEnough(n, ids, v, w, total)
    BY ONLY n \in Nat, ids \in [1 .. n -> DOMAIN registry], <1>10, <1>11, <1>12, <2>1, SharesOfWhole
  <2> QED
    BY <1>3, <1>9, <2>2 DEF SharesEnough
<1> HIDE DEF A
<1>14. total * (2 * A) >= total * (2000 - n)
  <2>1. (2 * total) * A = total * (2 * A) /\ total * (2000 - n) = 2000 * total - total * n
    BY <1>11, <1>13
  <2> QED
    BY <1>13, <2>1
<1>15. 2 * A >= 2000 - n
  <2> DEFINE a == 2 * A
             b == 2000 - n
  <2>1. a \in Int /\ b \in Int /\ total * a >= total * b
    BY <1>13, <1>14
  <2> HIDE DEF a, b
  <2>2. a >= b
    BY ONLY <1>11, <2>1, Cancel
  <2> QED
    BY <2>2 DEF a, b
<1> QED
  BY <1>7, <1>13, <1>15 DEF A

-----------------------------------------------------------------------------
(* The federation: the invariant.                                          *)

(* The weights of the members of a sound council are together at least     *)
(* what a resolution needs, whatever was lost by rounding them.            *)
CouncilsCarry ==
  \A k \in DOMAIN councils :
    councils[k].sound => Total(councils[k].weights, councils[k].members) >= Quorum[k]

PlanetaryInv == PlanetaryTypes /\ CouncilsCarry /\ UnanimityCarries
PlanetaryStep == PlanetaryNext \/ PlanetaryRestart \/ UNCHANGED planetary

LEMMA PlanetaryEmpty ==
  ASSUME registry = <<>>, treaties = <<>>, councils = <<>>, resolutions = <<>>
  PROVE  PlanetaryInv
<1>1. DOMAIN registry = {} /\ DOMAIN councils = {} /\ DOMAIN resolutions = {}
  OBVIOUS
<1>2. PlanetaryTypes
  BY <1>1, FS_EmptySet DEF PlanetaryTypes
<1> QED
  BY <1>1, <1>2 DEF PlanetaryInv, CouncilsCarry, UnanimityCarries

LEMMA PlanetaryEmptied == PlanetaryRestart => PlanetaryInv'
<1> SUFFICES ASSUME PlanetaryRestart PROVE PlanetaryInv'
  OBVIOUS
<1>1. DOMAIN registry' = {} /\ DOMAIN councils' = {} /\ DOMAIN resolutions' = {}
  BY DEF PlanetaryRestart
<1>2. PlanetaryTypes'
  BY <1>1, FS_EmptySet DEF PlanetaryTypes, PlanetaryRestart
<1> QED
  BY <1>1, <1>2 DEF PlanetaryInv, CouncilsCarry, UnanimityCarries

(* What is decided does not depend on profiles and treaties.               *)
LEMMA DecisionsStay ==
  ASSUME PlanetaryInv, UNCHANGED <<councils, resolutions>>
  PROVE  CouncilsCarry' /\ UnanimityCarries'
BY DEF PlanetaryInv, CouncilsCarry, UnanimityCarries

LEMMA RegisterKept ==
  ASSUME PlanetaryInv, NEW c \in Civ, NEW p \in Profiles, Register(c, p)
  PROVE  PlanetaryInv'
<1>1. PlanetaryTypes
  BY DEF PlanetaryInv
<1>2. registry' = [d \in DOMAIN registry \cup {c} |-> IF d = c THEN p ELSE registry[d]]
  BY DEF Register
<1>3. UNCHANGED <<treaties, councils, resolutions>>
  BY DEF Register
<1>4. IsFiniteSet(DOMAIN registry \cup {c})
  BY <1>1, FS_AddElement DEF PlanetaryTypes
<1>5. registry' \in [DOMAIN registry' -> Profiles] /\ IsFiniteSet(DOMAIN registry') /\ DOMAIN registry' \subseteq Civ
  BY <1>1, <1>2, <1>4 DEF PlanetaryTypes
<1>6. PlanetaryTypes'
  BY <1>1, <1>3, <1>5 DEF PlanetaryTypes
<1> QED
  BY <1>3, <1>6, DecisionsStay DEF PlanetaryInv

LEMMA TreatyKept ==
  ASSUME PlanetaryInv, UNCHANGED <<registry, councils, resolutions>>,
         treaties' \in Seq(Pact)
  PROVE  PlanetaryInv'
<1>1. PlanetaryTypes'
  BY DEF PlanetaryInv, PlanetaryTypes
<1> QED
  BY <1>1, DecisionsStay DEF PlanetaryInv

LEMMA ProposeKept ==
  ASSUME PlanetaryInv, NEW parties \in SUBSET Civ, NEW kind \in TreatyKind, Propose(parties, kind)
  PROVE  PlanetaryInv'
<1>1. Treaty(kind, parties, "proposed") \in Pact
  BY DEF Treaty, Pact
<1>2. treaties' \in Seq(Pact)
  BY <1>1 DEF PlanetaryInv, PlanetaryTypes, Propose
<1> QED
  BY <1>2, TreatyKept DEF Propose

LEMMA RatifyKept ==
  ASSUME PlanetaryInv, NEW i \in DOMAIN treaties, NEW by, Ratify(i, by)
  PROVE  PlanetaryInv'
<1>1. treaties \in Seq(Pact)
  BY DEF PlanetaryInv, PlanetaryTypes
<1>2. PICK status \in {"proposed", "active"} : treaties' = [treaties EXCEPT ![i].status = status]
  BY DEF Ratify
<1>3. \A t \in Pact : [t EXCEPT !.status = status] \in Pact
  BY DEF Pact
<1>4. [treaties[i] EXCEPT !.status = status] \in Pact
  BY <1>1, <1>3
<1>5. treaties' \in Seq(Pact)
  BY <1>1, <1>2, <1>4
<1> QED
  BY <1>5, TreatyKept DEF Ratify

LEMMA NegotiateKept ==
  ASSUME PlanetaryInv, NEW a \in DOMAIN registry, NEW b \in DOMAIN registry,
         NEW preferred \in TreatyKind \cup {None}, Negotiate(a, b, preferred)
  PROVE  PlanetaryInv'
<1> DEFINE kind == IF preferred = None THEN RecommendTreatyKind(registry[a], registry[b]) ELSE preferred
<1>1. RecommendTreatyKind(registry[a], registry[b]) \in TreatyKind
  BY DEF RecommendTreatyKind, TreatyKind
<1>2. kind \in TreatyKind
  BY <1>1
<1>3. treaties' = Append(treaties, Treaty(kind, {a, b}, "active")) /\ UNCHANGED <<registry, councils, resolutions>>
  BY DEF Negotiate
<1> HIDE DEF kind
<1>4. Treaty(kind, {a, b}, "active") \in Pact
  BY <1>2 DEF Treaty, PlanetaryInv, PlanetaryTypes, Pact
<1>5. treaties' \in Seq(Pact)
  <2>1. treaties \in Seq(Pact)
    BY DEF PlanetaryInv, PlanetaryTypes
  <2> QED
    BY <1>3, <1>4, <2>1
<1> QED
  BY <1>3, <1>5, TreatyKept

LEMMA FormCouncilsKept ==
  ASSUME MaxNamed <= 500, PlanetaryInv,
         NEW n \in 1 .. MaxNamed, NEW ids \in [1 .. n -> DOMAIN registry], FormCouncils(ids)
  PROVE  PlanetaryInv'
<1> DEFINE formed == Formable(Len(ids))
<1>1. PlanetaryTypes
  BY DEF PlanetaryInv
<1>2. /\ councils' = [k \in DOMAIN councils \cup formed |-> IF k \in DOMAIN councils THEN councils[k] ELSE Council(ids)]
      /\ UNCHANGED <<registry, treaties, resolutions>>
  BY DEF FormCouncils
<1>3. formed \subseteq DOMAIN Quorum
  BY DEF Formable
<1>4. /\ Council(ids).members = Range(ids)
      /\ Range(ids) \subseteq Civ
  <2>1. Council(ids).members = Range(ids)
    BY DEF Council
  <2>2. Range(ids) \subseteq DOMAIN registry
    BY DEF Range
  <2> QED
    BY <1>1, <2>1, <2>2 DEF PlanetaryTypes
<1>5. Council(ids).sound => \A k \in DOMAIN Quorum : Total(Council(ids).weights, Council(ids).members) >= Quorum[k]
  <2> SUFFICES ASSUME Council(ids).sound
               PROVE  \A k \in DOMAIN Quorum : Total(Council(ids).weights, Council(ids).members) >= Quorum[k]
    OBVIOUS
  <2>1. n \in Nat /\ n <= 500
    BY ProfilesAssumption
  <2>2. /\ 2 * Total(Council(ids).weights, Council(ids).members) >= 2000 - n
        /\ Total(Council(ids).weights, Council(ids).members) \in Int
    BY <1>1, <2>1, Founding
  <2> DEFINE total == Total(Council(ids).weights, Council(ids).members)
  <2>3. total \in Int /\ 2 * total >= 2000 - n
    BY <2>2
  <2> HIDE DEF total
  <2>4. total >= 750
    BY <2>1, <2>3
  <2>5. \A k \in DOMAIN Quorum : Quorum[k] \in Int /\ Quorum[k] <= 750
    BY CouncilKinds
  <2>6. \A k \in DOMAIN Quorum : total >= Quorum[k]
    BY <2>3, <2>4, <2>5
  <2> QED
    BY <2>6 DEF total
<1> HIDE DEF formed
<1>6. DOMAIN councils' = DOMAIN councils \cup formed /\ \A k \in DOMAIN councils : councils'[k] = councils[k]
  BY <1>2
<1>7. \A k \in DOMAIN councils' \ DOMAIN councils : councils'[k] = Council(ids) /\ k \in DOMAIN Quorum
  BY <1>2, <1>3
<1>8. CouncilsCarry'
  <2>1. \A k \in DOMAIN councils : councils[k].sound => Total(councils[k].weights, councils[k].members) >= Quorum[k]
    BY DEF PlanetaryInv, CouncilsCarry
  <2> SUFFICES ASSUME NEW k \in DOMAIN councils', councils'[k].sound
               PROVE  Total(councils'[k].weights, councils'[k].members) >= Quorum[k]
    BY DEF CouncilsCarry
  <2>2. CASE k \in DOMAIN councils
    BY <1>6, <2>1, <2>2
  <2>3. CASE k \notin DOMAIN councils
    BY <1>5, <1>7, <2>3
  <2> QED
    BY <2>2, <2>3
<1>9. PlanetaryTypes'
  <2>1. IsFiniteSet(DOMAIN Quorum)
    BY CouncilKinds
  <2>2. DOMAIN councils' \subseteq DOMAIN Quorum
    BY <1>1, <1>3, <1>6 DEF PlanetaryTypes
  <2>3. IsFiniteSet(DOMAIN councils')
    BY <2>1, <2>2, FS_Subset
  <2>4. \A k \in DOMAIN councils' : councils'[k].members \subseteq Civ
    BY <1>1, <1>4, <1>6, <1>7 DEF PlanetaryTypes
  <2>5. resolutions' \in Seq([council : DOMAIN councils', for : SUBSET Civ, passed : BOOLEAN])
    <3> DEFINE R == [council : DOMAIN councils, for : SUBSET Civ, passed : BOOLEAN]
               Q == [council : DOMAIN councils', for : SUBSET Civ, passed : BOOLEAN]
    <3>1. resolutions \in Seq(R)
      BY <1>1 DEF PlanetaryTypes
    <3>2. R \subseteq Q
      BY <1>6
    <3> HIDE DEF R, Q
    <3>3. resolutions \in Seq(Q)
      BY <3>1, <3>2
    <3> QED
      BY <1>2, <3>3 DEF Q
  <2> QED
    BY <1>1, <1>2, <2>2, <2>3, <2>4, <2>5 DEF PlanetaryTypes
<1>10. UnanimityCarries'
  <2>1. \A m \in DOMAIN resolutions : resolutions[m].council \in DOMAIN councils
    <3> DEFINE R == [council : DOMAIN councils, for : SUBSET Civ, passed : BOOLEAN]
    <3>1. resolutions \in Seq(R)
      BY <1>1 DEF PlanetaryTypes
    <3>2. \A r \in R : r.council \in DOMAIN councils
      OBVIOUS
    <3> HIDE DEF R
    <3> QED
      BY <3>1, <3>2
  <2>2. \A m \in DOMAIN resolutions : councils'[resolutions[m].council] = councils[resolutions[m].council]
    BY <1>6, <2>1
  <2>3. UnanimityCarries
    BY DEF PlanetaryInv
  <2>4. ASSUME NEW m \in DOMAIN resolutions,
               councils'[resolutions[m].council].sound,
               councils'[resolutions[m].council].members = resolutions[m].for
        PROVE  resolutions[m].passed
    <3>1. PICK c : c = councils[resolutions[m].council]
      OBVIOUS
    <3>2. c.sound /\ c.members = resolutions[m].for
      BY <2>2, <2>4, <3>1
    <3> QED
      BY <2>3, <3>1, <3>2 DEF UnanimityCarries
  <2>5. resolutions' = resolutions
    BY <1>2
  <2> QED
    BY <2>4, <2>5 DEF UnanimityCarries
<1> QED
  BY <1>8, <1>9, <1>10 DEF PlanetaryInv

LEMMA ResolveKept ==
  ASSUME PlanetaryInv, NEW k \in DOMAIN councils, Resolve(k)
  PROVE  PlanetaryInv'
<1> DEFINE R == [council : DOMAIN councils, for : SUBSET Civ, passed : BOOLEAN]
           r == [council |-> k, for |-> VotesFor(k),
                 passed |-> Total(councils[k].weights, VotesFor(k)) >= Quorum[k]]
<1>1. PlanetaryTypes
  BY DEF PlanetaryInv
<1>2. resolutions' = Append(resolutions, r) /\ UNCHANGED <<registry, treaties, councils>>
  BY DEF Resolve
<1>3. r \in R
  <2>1. VotesFor(k) \subseteq Civ
    BY <1>1 DEF PlanetaryTypes, VotesFor
  <2> QED
    BY <2>1
<1>4. resolutions \in Seq(R)
  BY <1>1 DEF PlanetaryTypes
<1>5. r.council = k /\ r.for = VotesFor(k)
  OBVIOUS
<1>6. Total(councils[k].weights, VotesFor(k)) >= Quorum[k] => r.passed
  OBVIOUS
<1> HIDE DEF R, r
<1>7. resolutions' \in Seq(R)
  BY <1>2, <1>3, <1>4
<1>8. PlanetaryTypes'
  BY <1>1, <1>2, <1>7 DEF PlanetaryTypes, R
<1>9. CouncilsCarry'
  BY <1>2 DEF PlanetaryInv, CouncilsCarry
<1>10. UnanimityCarries'
  <2> SUFFICES ASSUME NEW n \in DOMAIN resolutions', councils[resolutions'[n].council].sound,
                      councils[resolutions'[n].council].members = resolutions'[n].for
               PROVE  resolutions'[n].passed
    BY <1>2 DEF UnanimityCarries
  <2>1. CASE n \in DOMAIN resolutions
    <3>1. resolutions'[n] = resolutions[n]
      BY <1>2, <1>3, <1>4, <2>1
    <3> QED
      BY <2>1, <3>1 DEF PlanetaryInv, UnanimityCarries
  <2>2. CASE n \notin DOMAIN resolutions
    <3>1. resolutions'[n] = r
      BY <1>2, <1>3, <1>4, <2>2
    <3>2. councils[k].sound /\ councils[k].members = VotesFor(k)
      BY <1>5, <3>1
    <3>3. Total(councils[k].weights, VotesFor(k)) >= Quorum[k]
      BY <3>2 DEF PlanetaryInv, CouncilsCarry
    <3> QED
      BY <1>6, <3>1, <3>3
  <2> QED
    BY <2>1, <2>2
<1> QED
  BY <1>8, <1>9, <1>10 DEF PlanetaryInv

LEMMA PlanetaryKept ==
  ASSUME MaxNamed <= 500, PlanetaryInv, PlanetaryStep
  PROVE  PlanetaryInv'
<1>1. CASE PlanetaryNext
  <2>1. \/ \E c \in Civ, p \in Profiles : Register(c, p)
        \/ \E parties \in SUBSET Civ, kind \in TreatyKind : Propose(parties, kind)
        \/ \E i \in DOMAIN treaties : \E by \in SUBSET Civ : Ratify(i, by)
        \/ \E a \in DOMAIN registry, b \in DOMAIN registry, kind \in TreatyKind \cup {None} : Negotiate(a, b, kind)
        \/ \E n \in 1 .. MaxNamed : \E ids \in [1 .. n -> DOMAIN registry] : FormCouncils(ids)
        \/ \E k \in DOMAIN councils : Resolve(k)
    BY <1>1, Zenon DEF PlanetaryNext
  <2> QED
    BY <2>1, RegisterKept, ProposeKept, RatifyKept, NegotiateKept, FormCouncilsKept, ResolveKept
<1>2. CASE PlanetaryRestart
  BY <1>2, PlanetaryEmptied
<1>3. CASE UNCHANGED planetary
  <2>1. UNCHANGED <<registry, treaties, councils, resolutions>>
    BY <1>3 DEF planetary
  <2>2. PlanetaryTypes'
    BY <2>1 DEF PlanetaryInv, PlanetaryTypes
  <2> QED
    BY <2>1, <2>2, DecisionsStay DEF PlanetaryInv
<1> QED
  BY <1>1, <1>2, <1>3 DEF PlanetaryStep

LEMMA FederationInv == PlanetaryInv => FederationServes
<1> SUFFICES ASSUME PlanetaryInv PROVE FederationServes
  OBVIOUS
<1>1. UnanimityCarries /\ PlanetaryTypes
  BY DEF PlanetaryInv
<1>2. TreatiesHelp
  <2> SUFFICES ASSUME NEW S \in SUBSET DOMAIN registry, NEW i \in DOMAIN treaties
               PROVE  LET inForce == [treaties EXCEPT ![i].status = "active"] IN
                      /\ ThreatLevel(S, inForce) <= ThreatLevel(S, treaties)
                      /\ Awareness(S, inForce) >= Awareness(S, treaties)
    BY DEF TreatiesHelp
  <2> QED
    BY <1>1, ThreatFalls, AwarenessHelps
<1>3. PoolsNeverShort
  BY <1>1, Pool DEF PoolsNeverShort, PlanetaryTypes
<1> QED
  BY <1>1, <1>2, <1>3 DEF FederationServes

LEMMA PlanetaryStarts == PlanetaryInit => PlanetaryInv
BY PlanetaryEmpty DEF PlanetaryInit

LEMMA PlanetarySteps == [Next]_intelligence => PlanetaryStep
BY Zenon DEF Next, intelligence, services, PlanetaryStep, OversightRequest, PlanetaryRequest, StructureRequest,
   MemoryRequest, GovernorRequest, CollectiveRequest, InsightRequest, EvolutionRequest, LearningRequest, Restart

(* However civilizations, treaties, councils and resolutions follow each   *)
(* other, and whenever the process is restarted: a resolution all of whose *)
(* council voted for it is carried, if no request for councils names more  *)
(* than 500 civilizations; a treaty in force does not raise the threat     *)
(* level of any group or lower its awareness; and no pool is short.        *)
THEOREM FederationAlwaysServes ==
  ASSUME MaxNamed <= 500
  PROVE  Spec => []FederationServes
<1>1. Init => PlanetaryInv
  BY PlanetaryStarts DEF Init
<1>2. PlanetaryInv /\ [Next]_intelligence => PlanetaryInv'
  BY PlanetaryKept, PlanetarySteps
<1>3. PlanetaryInv => FederationServes
  BY FederationInv
<1> QED
  BY <1>1, <1>2, <1>3, PTL DEF Spec
-----------------------------------------------------------------------------
(* Lists by rank                                                           *)

(* Where the genomes are that surpass one.                                 *)
Better(g, gs) == {m \in 1 .. Len(gs) : gs[m].fitness > g.fitness}

(* The fittest first: the same genomes, each surpassed by fewer of them    *)
(* than its place says, and none fitter than the first.                    *)
LEMMA FittestFirstIs ==
  ASSUME NEW S, NEW gs \in Seq(S), \A g \in S : g.fitness \in Int, NEW f, f = FittestFirst(gs)
  PROVE  /\ f \in Seq(S) /\ Len(f) = Len(gs)
         /\ \A k \in 1 .. Len(gs) : \E n \in 1 .. Len(gs) : f[k] = gs[n]
         /\ \A k \in 1 .. Len(gs) : Cardinality(Better(f[k], gs)) < k
         /\ \A n \in 1 .. Len(gs) : gs[n].fitness <= f[1].fitness
<1> DEFINE N == Len(gs)
           r == [n \in 1 .. N |-> gs[n].fitness]
           p == PlaceByRank(r)
<1>1. N \in Nat /\ DOMAIN gs = 1 .. N /\ \A n \in 1 .. N : gs[n] \in S /\ gs[n].fitness \in Int
  OBVIOUS
<1>2. f = [k \in 1 .. N |-> gs[CHOOSE n \in 1 .. N : p[n] = k]]
  BY <1>1 DEF FittestFirst, Ranked, Each
<1>3. /\ p \in [1 .. N -> 1 .. N]
      /\ \A k \in 1 .. N : \E n \in 1 .. N : p[n] = k
      /\ \A n \in 1 .. N : Cardinality({m \in 1 .. N : r[m] > r[n]}) < p[n]
  <2>1. DOMAIN r = 1 .. N /\ \A n \in 1 .. N : r[n] \in Int
    BY <1>1
  <2> HIDE DEF r, N
  <2>2. Permutes(p, N) /\ \A n \in 1 .. N : Cardinality({m \in 1 .. N : r[m] > r[n]}) < p[n]
    BY <1>1, <2>1, RankPlaces
  <2> QED
    BY <2>2 DEF Permutes
<1> HIDE DEF p, N
<1>4. ASSUME NEW k \in 1 .. N
      PROVE  \E n \in 1 .. N : f[k] = gs[n] /\ Cardinality({m \in 1 .. N : gs[m].fitness > gs[n].fitness}) < k
  <2>1. PICK n \in 1 .. N : n = CHOOSE o \in 1 .. N : p[o] = k
    BY <1>3
  <2>2. p[n] = k /\ f[k] = gs[n]
    BY <1>2, <1>3, <2>1
  <2>3. {m \in 1 .. N : r[m] > r[n]} = {m \in 1 .. N : gs[m].fitness > gs[n].fitness}
    OBVIOUS
  <2> HIDE DEF r
  <2> QED
    BY <1>3, <2>2, <2>3
<1>5. ASSUME NEW n \in 1 .. N PROVE gs[n].fitness <= f[1].fitness
  <2>1. 1 \in 1 .. N
    BY <1>1
  <2>2. PICK o \in 1 .. N : f[1] = gs[o] /\ Cardinality({m \in 1 .. N : gs[m].fitness > gs[o].fitness}) < 1
    BY <1>4, <2>1
  <2>3. PICK better : better = {m \in 1 .. N : gs[m].fitness > gs[o].fitness}
    OBVIOUS
  <2>4. better \in SUBSET (1 .. N) /\ IsFiniteSet(better) /\ Cardinality(better) \in Nat
    BY <1>1, <2>3, CountPlaces
  <2>5. better = {}
    <3>1. Cardinality(better) < 1
      BY <2>2, <2>3
    <3>2. Cardinality(better) = 0
      BY <2>4, <3>1
    <3> QED
      BY ONLY <2>4, <3>2, FS_EmptySet
  <2>6. ~(gs[n].fitness > gs[o].fitness)
    BY <2>3, <2>5
  <2> QED
    BY <1>1, <2>2, <2>6
<1>6. f \in Seq(S) /\ Len(f) = N
  <2>1. \A k \in 1 .. N : f[k] \in S
    BY <1>1, <1>4
  <2>2. f \in [1 .. N -> S]
    BY <1>2, <2>1
  <2> QED
    BY <1>1, <2>2
<1>7. ASSUME NEW k \in 1 .. N PROVE Cardinality(Better(f[k], gs)) < k
  <2>1. PICK n \in 1 .. N : f[k] = gs[n] /\ Cardinality({m \in 1 .. N : gs[m].fitness > gs[n].fitness}) < k
    BY <1>4
  <2>2. Better(gs[n], gs) = {m \in 1 .. N : gs[m].fitness > gs[n].fitness}
    BY DEF Better, N
  <2> QED
    BY <2>1, <2>2
<1> QED
  BY <1>4, <1>5, <1>6, <1>7 DEF N
-----------------------------------------------------------------------------
(* Evolution: genomes                                                      *)

MutationKinds == ToSet(AllMutations)

(* A genome has the parameter its mutation uses.                           *)
Fits(g) ==
  /\ g.kind = "adjust_retry_policy" => g.param \in {1, 2}
  /\ g.kind = "shift_governance_threshold" => g.param \in {30, 35, 45}

Genomes ==
  {g \in [id : Nat, generation : Nat, parent : Nat \cup {None}, kind : MutationKinds \cup {None}, param : Params,
          fitness : 0 .. 1000] : Fits(g)}

LEMMA KindsAre ==
  /\ MutationKinds = {"adjust_retry_policy", "reorder_pipeline", "merge_agents", "split_agent",
              "shift_governance_threshold", "change_priority_weights", "introduce_buffer_agent"}
  /\ DOMAIN AllMutations = 1 .. 7 /\ Len(AllMutations) = 7 /\ None \notin MutationKinds /\ Draws \subseteq MutationKinds
  /\ \A n \in 1 .. 7 : AllMutations[n] \in MutationKinds
<1>1. DOMAIN AllMutations = 1 .. 7 /\ Len(AllMutations) = 7
  BY DEF AllMutations
<1>2. MutationKinds = {AllMutations[n] : n \in 1 .. 7}
  BY <1>1 DEF MutationKinds, ToSet
<1>3. MutationKinds = {AllMutations[1], AllMutations[2], AllMutations[3], AllMutations[4], AllMutations[5], AllMutations[6],
               AllMutations[7]}
  <2>1. 1 .. 7 = {1, 2, 3, 4, 5, 6, 7}
    OBVIOUS
  <2> QED
    BY <1>2, <2>1
<1> QED
  BY <1>1, <1>2, <1>3, EvolutionAssumption DEF AllMutations, MutationKinds

(* The parameter goes on from the parent's, within what the mutation uses. *)
LEMMA ParamFits ==
  ASSUME NEW kind \in MutationKinds, NEW parent, Fits(parent), NEW p, p = Param(kind, parent)
  PROVE  /\ p \in Params
         /\ kind = "adjust_retry_policy" => p \in {1, 2}
         /\ kind = "shift_governance_threshold" => p \in {30, 35, 45}
<1>1. CASE kind = "adjust_retry_policy"
  <2>1. p = Most(1, (IF parent.kind = kind THEN parent.param ELSE 3) - 1)
    BY <1>1 DEF Param
  <2>2. p \in {1, 2}
    BY <1>1, <2>1 DEF Fits, Most
  <2> QED
    BY <1>1, <2>2 DEF Params
<1>2. CASE kind = "shift_governance_threshold"
  <2>1. p = Most(30, (IF parent.kind = kind THEN parent.param ELSE 55) - 10)
    BY <1>2 DEF Param
  <2>2. p \in {30, 35, 45}
    BY <1>2, <2>1 DEF Fits, Most
  <2> QED
    BY <1>2, <2>2 DEF Params
<1>3. CASE kind \notin {"adjust_retry_policy", "shift_governance_threshold"}
  BY <1>3 DEF Param, Params
<1> QED
  BY <1>1, <1>2, <1>3

(* What the events are under any mutation has a health, a number, and of   *)
(* those that found a population there is one.                             *)
LEMMA FitnessIs ==
  ASSUME NEW s \in Samples, NEW k, NEW p, k \in MutationKinds \cup {None}, p \in Params, k = None => p = None
  PROVE  /\ Fitness[s][<<k, p>>] \subseteq 0 .. 1000
         /\ (k \in {"adjust_retry_policy", "shift_governance_threshold"} => p # None) => Fitness[s][<<k, p>>] # {}
<1>1. <<k, p>> \in {<<None, None>>} \cup MutationKinds \X Params
  OBVIOUS
<1>2. Fitness[s][<<k, p>>] =
        IF k \in {"adjust_retry_policy", "shift_governance_threshold"} /\ p = None THEN {}
        ELSE {HealthReport(es, s.lasts).overall : es \in Applied(s.events, k, p)}
  BY <1>1 DEF Fitness, MutationKinds
<1>3. \A es : HealthReport(es, s.lasts).overall \in 0 .. 1000
  <2> SUFFICES ASSUME NEW es PROVE HealthReport(es, s.lasts).overall \in 0 .. 1000
    OBVIOUS
  <2>1. \A n : Clamp(n) \in 0 .. 1000
    BY DEF Clamp
  <2>2. \E n : HealthReport(es, s.lasts).overall = Clamp(n)
    BY DEF HealthReport, ReportOf
  <2> QED
    BY <2>1, <2>2
<1>4. Applied(s.events, k, p) # {}
  <2> DEFINE es == s.events
  <2>1. CASE k = "adjust_retry_policy"
    BY <2>1 DEF Applied
  <2>2. CASE k = "shift_governance_threshold"
    BY <2>2 DEF Applied
  <2>3. CASE k = "introduce_buffer_agent"
    <3>1. Len(es) \in Nat /\ DOMAIN es = 1 .. Len(es)
      BY EvolutionAssumption DEF IsList
    <3>2. [n \in 1 .. Cap(3, Len(es)) |-> 1] \in [1 .. Cap(3, Len(es)) -> DOMAIN es]
      BY <3>1 DEF Cap
    <3>3. Applied(es, k, p) = {Buffered(es, refs) : refs \in [1 .. Cap(3, Len(es)) -> DOMAIN es]}
      BY <2>3 DEF Applied
    <3> QED
      BY <3>2, <3>3
  <2>4. CASE k = "merge_agents"
    BY <2>4 DEF Applied
  <2>5. CASE k \notin {"adjust_retry_policy", "shift_governance_threshold", "introduce_buffer_agent", "merge_agents"}
    BY <2>5 DEF Applied
  <2>6. PICK A : A = Applied(s.events, k, p)
    OBVIOUS
  <2> HIDE DEF es
  <2> QED
    BY ONLY <2>1, <2>2, <2>3, <2>4, <2>5, <2>6 DEF es
<1>5. Fitness[s][<<k, p>>] \subseteq 0 .. 1000
  <2> SUFFICES ASSUME NEW f \in Fitness[s][<<k, p>>] PROVE f \in 0 .. 1000
    OBVIOUS
  <2>1. \E es : f = HealthReport(es, s.lasts).overall
    BY ONLY <1>2, f \in Fitness[s][<<k, p>>]
  <2> QED
    BY ONLY <1>3, <2>1
<1>6. ~(k \in {"adjust_retry_policy", "shift_governance_threshold"} /\ p = None) => Fitness[s][<<k, p>>] # {}
  BY <1>2, <1>4
<1> QED
  BY <1>5, <1>6

(* A mutation of a genome is a genome.                                     *)
LEMMA GenomeIs ==
  ASSUME NEW id, NEW gen, NEW parent, NEW kind, NEW f,
         id \in Nat, gen \in Nat, parent \in Genomes, kind \in MutationKinds, f \in 0 .. 1000
  PROVE  Genome(id, gen, parent, kind, f) \in Genomes
<1>1. PICK p : p = Param(kind, parent)
  OBVIOUS
<1>2. p \in Params /\ (kind = "adjust_retry_policy" => p \in {1, 2})
      /\ (kind = "shift_governance_threshold" => p \in {30, 35, 45})
  BY <1>1, ParamFits DEF Genomes
<1>3. Genome(id, gen, parent, kind, f) =
        [id |-> id, generation |-> gen, parent |-> parent.id, kind |-> kind, param |-> p, fitness |-> f]
  BY <1>1 DEF Genome
<1> QED
  BY <1>2, <1>3 DEF Genomes, Fits

(* The first population: as many genomes as there are to be.               *)
LEMMA FoundersAre ==
  ASSUME NEW s \in Samples
  PROVE  Founders(Baseline(s), Fitness[s]) \in Seq(Genomes) /\ Len(Founders(Baseline(s), Fitness[s])) = PopulationSize
<1> DEFINE first == Baseline(s)
           kind(n) == AllMutations[(n % Len(AllMutations)) + 1]
           fit(n) == CHOOSE f \in Fitness[s][<<kind(n), Param(kind(n), first)>>] : TRUE
           more == [n \in 1 .. PopulationSize - 1 |-> Genome(n, 1, first, kind(n), fit(n))]
<1>1. first \in Genomes /\ first.kind = None
  <2>1. PICK f : f = CHOOSE g \in Fitness[s][<<None, None>>] : TRUE
    OBVIOUS
  <2>2. f \in 0 .. 1000
    <3>1. PICK F : F = Fitness[s][<<None, None>>]
      OBVIOUS
    <3>2. None \in MutationKinds \cup {None} /\ None \in Params
      BY DEF Params
    <3>3. None \notin {"adjust_retry_policy", "shift_governance_threshold"}
      BY KindsAre
    <3>4. PICK k : k = None
      OBVIOUS
    <3>5. Fitness[s][<<k, k>>] \subseteq 0 .. 1000 /\ Fitness[s][<<k, k>>] # {}
      BY ONLY s \in Samples, <3>2, <3>3, <3>4, FitnessIs
    <3>6. F \subseteq 0 .. 1000 /\ F # {}
      BY ONLY <3>1, <3>4, <3>5
    <3>7. f = CHOOSE g \in F : TRUE
      BY <2>1, <3>1
    <3>8. f \in F
      BY ONLY <3>6, <3>7
    <3> QED
      BY ONLY <3>6, <3>8
  <2>3. first = [id |-> 0, generation |-> 0, parent |-> None, kind |-> None, param |-> None, fitness |-> f]
    BY <2>1 DEF Baseline
  <2> QED
    BY <2>2, <2>3, KindsAre DEF Genomes, Fits, Params
<1> HIDE DEF first
<1>2. ASSUME NEW n \in Nat PROVE kind(n) \in MutationKinds
  <2>1. (n % 7) + 1 \in 1 .. 7
    OBVIOUS
  <2> QED
    BY <2>1, KindsAre
<1>3. ASSUME NEW n \in Nat PROVE fit(n) \in 0 .. 1000
  <2>1. PICK k : k = kind(n)
    OBVIOUS
  <2>2. PICK p : p = Param(k, first)
    OBVIOUS
  <2>3. k \in MutationKinds
    BY <1>2, <2>1
  <2>4. /\ p \in Params
        /\ k \in {"adjust_retry_policy", "shift_governance_threshold"} => p \in {1, 2, 30, 35, 45}
    BY <1>1, <2>2, <2>3, ParamFits DEF Genomes
  <2>5. Fitness[s][<<k, p>>] \subseteq 0 .. 1000 /\ Fitness[s][<<k, p>>] # {}
    BY <2>3, <2>4, FitnessIs, KindsAre, RowAssumption
  <2>6. PICK F : F = Fitness[s][<<k, p>>]
    OBVIOUS
  <2>7. fit(n) = CHOOSE f \in F : TRUE
    BY <2>1, <2>2, <2>6
  <2> HIDE DEF fit
  <2>8. fit(n) \in F
    BY <2>5, <2>6, <2>7
  <2> QED
    BY ONLY <2>5, <2>6, <2>8
<1>4. \A n \in 1 .. PopulationSize - 1 : Genome(n, 1, first, kind(n), fit(n)) \in Genomes
  <2> SUFFICES ASSUME NEW n \in 1 .. PopulationSize - 1 PROVE Genome(n, 1, first, kind(n), fit(n)) \in Genomes
    OBVIOUS
  <2>1. n \in Nat
    OBVIOUS
  <2>2. PICK k, f : k = kind(n) /\ f = fit(n)
    OBVIOUS
  <2>3. k \in MutationKinds /\ f \in 0 .. 1000
    BY <1>2, <1>3, <2>1, <2>2
  <2> HIDE DEF kind, fit
  <2>4. PICK gen, parent : gen = 1 /\ parent = first
    OBVIOUS
  <2>5. n \in Nat /\ gen \in Nat /\ parent \in Genomes /\ k \in MutationKinds /\ f \in 0 .. 1000
    BY <1>1, <2>1, <2>3, <2>4
  <2>6. Genome(n, gen, parent, k, f) \in Genomes
    BY ONLY <2>5, GenomeIs
  <2> QED
    BY <2>2, <2>4, <2>6
<1>5. PopulationSize - 1 \in Nat
  BY EvolutionAssumption
<1>6. more \in Seq(Genomes) /\ Len(more) = PopulationSize - 1
  <2> HIDE DEF kind, fit
  <2> QED
    BY <1>4, <1>5
<1>7. Founders(first, Fitness[s]) = <<first>> \o more
  BY DEF Founders
<1> HIDE DEF more
<1>8. <<first>> \in Seq(Genomes) /\ Len(<<first>>) = 1
  BY <1>1
<1>9. <<first>> \o more \in Seq(Genomes) /\ Len(<<first>> \o more) = 1 + (PopulationSize - 1)
  <2> HIDE DEF Genomes
  <2> QED
    BY ONLY <1>5, <1>6, <1>8
<1> HIDE DEF Genomes
<1>10. 1 + (PopulationSize - 1) = PopulationSize
  BY EvolutionAssumption
<1> QED
  BY <1>7, <1>9, <1>10 DEF first
-----------------------------------------------------------------------------
(* Evolution: what a generation owes to the one before it                  *)

(* A genome, or its parent, is among these, and fewer than Elites of them  *)
(* surpass it there.                                                       *)
Bred(x, population) ==
  \E k \in 1 .. PopulationSize :
     /\ population[k].id = x.id \/ population[k].id = x.parent
     /\ Cardinality(Better(population[k], population)) < Elites

LEMMA GenomesFit == \A g \in Genomes : g.fitness \in Int /\ g.fitness \in 0 .. 1000 /\ Fits(g)
BY DEF Genomes

LEMMA SizesAre ==
  /\ PopulationSize \in Nat /\ 1 <= PopulationSize /\ Elites \in 1 .. PopulationSize /\ 1 \in 1 .. PopulationSize
  /\ Elites \in Nat /\ 1 <= Elites /\ Elites <= PopulationSize
BY EvolutionAssumption

(* The fittest of a population, by their place.                            *)
LEMMA ParentIs ==
  ASSUME NEW population \in Seq(Genomes), Len(population) = PopulationSize,
         NEW f, f = FittestFirst(population), NEW n \in 1 .. Elites
  PROVE  /\ f[n] \in Genomes
         /\ \A x : (x.id = f[n].id \/ x.parent = f[n].id) => Bred(x, population)
<1>1. n \in 1 .. PopulationSize /\ n \in Nat
  BY SizesAre
<1>2. /\ f \in Seq(Genomes) /\ Len(f) = PopulationSize
      /\ \A k \in 1 .. PopulationSize : \E o \in 1 .. PopulationSize : f[k] = population[o]
      /\ \A k \in 1 .. PopulationSize : Cardinality(Better(f[k], population)) < k
  <2>1. \A g \in Genomes : g.fitness \in Int
    BY GenomesFit
  <2>2. /\ f \in Seq(Genomes) /\ Len(f) = Len(population)
        /\ \A k \in 1 .. Len(population) : \E o \in 1 .. Len(population) : f[k] = population[o]
        /\ \A k \in 1 .. Len(population) : Cardinality(Better(f[k], population)) < k
    BY <2>1, FittestFirstIs
  <2> QED
    BY <2>2
<1>3. PICK o \in 1 .. PopulationSize : f[n] = population[o]
  BY <1>1, <1>2
<1>4. PICK better : better = Better(population[o], population)
  OBVIOUS
<1>5. Cardinality(better) < n
  BY <1>1, <1>2, <1>3, <1>4
<1>6. Cardinality(better) \in Nat
  <2>1. better \in SUBSET (1 .. PopulationSize)
    BY <1>4 DEF Better
  <2> QED
    BY <2>1, SizesAre, CountPlaces
<1>7. Cardinality(better) < Elites
  BY <1>1, <1>5, <1>6, SizesAre
<1>8. f[n] \in Genomes
  BY <1>1, <1>2
<1>9. \A x : (x.id = f[n].id \/ x.parent = f[n].id) => Bred(x, population)
  BY <1>3, <1>4, <1>7 DEF Bred
<1> QED
  BY <1>8, <1>9

(* A genome that goes on is a genome.                                      *)
LEMMA GoesOn ==
  ASSUME NEW g \in Genomes, NEW gen, gen \in Nat, NEW h, h = [g EXCEPT !.generation = gen]
  PROVE  h \in Genomes /\ h.id = g.id /\ h.fitness = g.fitness
<1>1. g = [id |-> g.id, generation |-> g.generation, parent |-> g.parent, kind |-> g.kind, param |-> g.param,
           fitness |-> g.fitness]
  BY DEF Genomes
<1>2. h = [id |-> g.id, generation |-> gen, parent |-> g.parent, kind |-> g.kind, param |-> g.param,
           fitness |-> g.fitness]
  BY <1>1
<1>3. g.id \in Nat /\ g.parent \in Nat \cup {None} /\ g.kind \in MutationKinds \cup {None} /\ g.param \in Params
      /\ g.fitness \in 0 .. 1000 /\ Fits(g)
  BY DEF Genomes
<1>4. Fits(h)
  BY <1>2, <1>3 DEF Fits
<1> QED
  BY <1>2, <1>3, <1>4 DEF Genomes

(* The survivors: as many as Elites, of the population, and none of it is  *)
(* fitter than the first of them.                                          *)
LEMMA SurvivorsAre ==
  ASSUME NEW population \in Seq(Genomes), Len(population) = PopulationSize, NEW gen, gen \in Nat,
         NEW s, s = Survivors(population, gen)
  PROVE  /\ s \in Seq(Genomes) /\ Len(s) = Elites
         /\ \A n \in 1 .. Elites : Bred(s[n], population)
         /\ \A k \in 1 .. PopulationSize : population[k].fitness <= s[1].fitness
<1>1. PICK f : f = FittestFirst(population)
  OBVIOUS
<1>2. /\ f \in Seq(Genomes) /\ Len(f) = PopulationSize
      /\ \A k \in 1 .. PopulationSize : population[k].fitness <= f[1].fitness
  <2>1. \A g \in Genomes : g.fitness \in Int
    BY GenomesFit
  <2>2. /\ f \in Seq(Genomes) /\ Len(f) = Len(population)
        /\ \A k \in 1 .. Len(population) : population[k].fitness <= f[1].fitness
    BY <1>1, <2>1, FittestFirstIs
  <2> QED
    BY <2>2
<1>3. PICK few : few = FirstFew(f, Elites)
  OBVIOUS
<1>4. few = SubSeq(f, 1, Elites)
  BY <1>2, <1>3, SizesAre DEF FirstFew
<1>5. DOMAIN few = 1 .. Elites /\ \A n \in 1 .. Elites : few[n] = f[n]
  BY <1>2, <1>4, SizesAre
<1>6. s = [n \in 1 .. Elites |-> [f[n] EXCEPT !.generation = gen]]
  BY <1>1, <1>3, <1>5 DEF Survivors, Each
<1>7. ASSUME NEW n \in 1 .. Elites
      PROVE  s[n] \in Genomes /\ s[n].id = f[n].id /\ s[n].fitness = f[n].fitness /\ Bred(s[n], population)
  <2>1. f[n] \in Genomes /\ \A x : (x.id = f[n].id \/ x.parent = f[n].id) => Bred(x, population)
    BY <1>1, ParentIs
  <2>2. s[n] = [f[n] EXCEPT !.generation = gen]
    BY <1>6
  <2>3. s[n] \in Genomes /\ s[n].id = f[n].id /\ s[n].fitness = f[n].fitness
    BY <2>1, <2>2, GoesOn
  <2> QED
    BY <2>1, <2>3
<1>8. s \in Seq(Genomes) /\ Len(s) = Elites
  BY <1>6, <1>7, SizesAre
<1>9. s[1].fitness = f[1].fitness
  BY <1>7, SizesAre
<1> QED
  BY <1>2, <1>7, <1>8, <1>9
-----------------------------------------------------------------------------
(* Evolution: the chain of generations                                     *)

Slice(all, g) == [k \in 1 .. PopulationSize |-> all[g * PopulationSize + k]]

(* All genomes are so many generations, the last of them the population,   *)
(* and each but the first was bred from the one before it.                 *)
Descends(all, population) ==
  \E G \in Nat :
     /\ 1 <= G /\ Len(all) = G * PopulationSize
     /\ \A n \in 1 .. PopulationSize : all[(G - 1) * PopulationSize + n] = population[n]
     /\ \A g \in 1 .. G - 1 : \A n \in 1 .. PopulationSize : Bred(all[g * PopulationSize + n], Slice(all, g - 1))

LEMMA Multiples ==
  ASSUME NEW P \in Nat
  PROVE  /\ \A g \in Nat : g * P \in Nat /\ (g + 1) * P = g * P + P
         /\ \A g, h \in Nat : g < h => g * P + P <= h * P
<1>1. ASSUME NEW g \in Nat PROVE g * P \in Nat /\ (g + 1) * P = g * P + P
  OBVIOUS
<1>2. ASSUME NEW g \in Nat, NEW h \in Nat, g < h PROVE g * P + P <= h * P
  <2>1. PICK d \in Nat : h = g + 1 + d
    <3>1. h - g - 1 \in Nat /\ h = g + 1 + (h - g - 1)
      BY <1>2
    <3> QED
      BY <3>1
  <2>2. h * P = g * P + P + d * P /\ d * P \in Nat
    BY <2>1
  <2>3. g * P \in Nat
    OBVIOUS
  <2> QED
    BY <2>2, <2>3
<1> QED
  BY <1>1, <1>2

LEMMA DescendsOn ==
  ASSUME NEW all \in Seq(Genomes), NEW population \in Seq(Genomes), NEW next \in Seq(Genomes),
         Len(population) = PopulationSize, Len(next) = PopulationSize, Descends(all, population),
         \A n \in 1 .. PopulationSize : Bred(next[n], population)
  PROVE  Descends(all \o next, next)
<1> DEFINE P == PopulationSize
           more == all \o next
<1>1. PICK G \in Nat :
        /\ 1 <= G /\ Len(all) = G * P
        /\ \A n \in 1 .. P : all[(G - 1) * P + n] = population[n]
        /\ \A g \in 1 .. G - 1 : \A n \in 1 .. P : Bred(all[g * P + n], Slice(all, g - 1))
  BY DEF Descends
<1>2. P \in Nat
  BY SizesAre
<1>3. /\ \A g \in Nat : g * P \in Nat /\ (g + 1) * P = g * P + P
      /\ \A g, h \in Nat : g < h => g * P + P <= h * P
  <2> HIDE DEF P
  <2> QED
    BY <1>2, Multiples
<1>4. /\ Len(more) = Len(all) + P /\ \A n \in 1 .. Len(all) : more[n] = all[n]
      /\ \A n \in 1 .. P : more[Len(all) + n] = next[n]
  BY <1>2
<1> HIDE DEF P, more
<1>5. Len(more) = (G + 1) * P
  BY <1>1, <1>3, <1>4
<1>6. \A n \in 1 .. P : more[G * P + n] = next[n]
  BY <1>1, <1>4
<1>7. \A g \in 0 .. G - 1 : \A n \in 1 .. P : more[g * P + n] = all[g * P + n]
  <2> SUFFICES ASSUME NEW g \in 0 .. G - 1, NEW n \in 1 .. P PROVE g * P + n \in 1 .. Len(all)
    BY <1>4
  <2>1. PICK low, high : low = g * P /\ high = G * P
    OBVIOUS
  <2>2. low \in Nat /\ high \in Nat /\ low + P <= high
    BY <1>1, <1>3, <2>1
  <2>3. n \in 1 .. P
    OBVIOUS
  <2>4. low + n \in 1 .. high
    BY ONLY <1>2, <2>2, <2>3
  <2> QED
    BY <1>1, <2>1, <2>4
<1>8. \A g \in 0 .. G - 1 : Slice(more, g) = Slice(all, g)
  BY <1>7 DEF Slice, P
<1>9. Slice(all, G - 1) = population
  BY <1>1 DEF Slice, P
<1>10. ASSUME NEW g \in 1 .. G, NEW n \in 1 .. P PROVE Bred(more[g * P + n], Slice(more, g - 1))
  <2>1. CASE g = G
    <3>1. more[g * P + n] = next[n] /\ Slice(more, g - 1) = population
      BY <1>1, <1>6, <1>8, <1>9, <2>1
    <3> QED
      BY <3>1 DEF P
  <2>2. CASE g # G
    <3>1. g \in 1 .. G - 1 /\ g \in 0 .. G - 1 /\ g - 1 \in 0 .. G - 1
      BY <2>2
    <3>2. more[g * P + n] = all[g * P + n] /\ Slice(more, g - 1) = Slice(all, g - 1)
      BY <1>7, <1>8, <3>1
    <3> QED
      BY <1>1, <3>1, <3>2
  <2> QED
    BY <2>1, <2>2
<1>11. PICK H : H = G + 1
  OBVIOUS
<1>12. H \in Nat /\ 1 <= H /\ Len(more) = H * P
  BY <1>1, <1>5, <1>11
<1>13. \A n \in 1 .. P : more[(H - 1) * P + n] = next[n]
  <2>1. H - 1 = G
    BY <1>11
  <2> QED
    BY <1>6, <2>1
<1>14. \A g \in 1 .. H - 1 : \A n \in 1 .. P : Bred(more[g * P + n], Slice(more, g - 1))
  <2>1. H - 1 = G
    BY <1>11
  <2> QED
    BY <1>10, <2>1
<1> QED
  BY <1>12, <1>13, <1>14 DEF Descends, P, more

(* The first generation descends from none.                                *)
LEMMA DescendsFirst ==
  ASSUME NEW population \in Seq(Genomes), Len(population) = PopulationSize
  PROVE  Descends(population, population)
<1>1. PopulationSize \in Nat
  BY SizesAre
<1>2. 1 \in Nat /\ 1 * PopulationSize = PopulationSize /\ (1 - 1) * PopulationSize = 0
  BY <1>1
<1>3. \A n \in 1 .. PopulationSize : (1 - 1) * PopulationSize + n = n
  BY <1>2
<1>4. 1 .. 1 - 1 = {}
  OBVIOUS
<1> QED
  BY <1>2, <1>3, <1>4 DEF Descends

(* What OnlyTheFittestBreed says of all genomes.                           *)
Born(all, g) == {all[n] : n \in g * PopulationSize + 1 .. (g + 1) * PopulationSize}
BredOf(x, before) ==
  \E y \in before : /\ y.id = x.id \/ y.id = x.parent
                    /\ Cardinality({z \in before : z.fitness > y.fitness}) < Elites
BredRight(all) ==
  \A g \in 1 .. (Len(all) \div PopulationSize) - 1 : \A x \in Born(all, g) : BredOf(x, Born(all, g - 1))

LEMMA DescentIsShown ==
  ASSUME NEW all \in Seq(Genomes), NEW population, Descends(all, population),
         NEW g, g \in 1 .. (Len(all) \div PopulationSize) - 1, NEW x, x \in Born(all, g)
  PROVE  BredOf(x, Born(all, g - 1))
<1> DEFINE P == PopulationSize
<1>0. PICK before : before = {all[n] : n \in (g - 1) * PopulationSize + 1 .. ((g - 1) + 1) * PopulationSize}
  OBVIOUS
<1>1. PICK G \in Nat :
        /\ 1 <= G /\ Len(all) = G * P
        /\ \A h \in 1 .. G - 1 : \A n \in 1 .. P : Bred(all[h * P + n], Slice(all, h - 1))
  BY DEF Descends
<1>2. P \in Nat /\ 1 <= P /\ Elites \in Nat
  BY SizesAre
<1>3. Len(all) \div P = G
  BY <1>1, <1>2, Cancel
<1>4. g \in 1 .. G - 1
  BY <1>3
<1>5. g \in Nat /\ g - 1 \in Nat /\ (g + 1) * P = g * P + P /\ ((g - 1) + 1) * P = (g - 1) * P + P
      /\ g * P \in Nat /\ (g - 1) * P \in Nat
  <2>1. g \in Nat /\ g - 1 \in Nat
    BY <1>4
  <2> HIDE DEF P
  <2> QED
    BY <1>2, <2>1, Multiples
<1>6. PICK from, low : from = g * P /\ low = (g - 1) * P
  OBVIOUS
<1>7. from \in Nat /\ low \in Nat /\ low + P <= Len(all)
  <2>1. g - 1 < G
    BY <1>4
  <2> HIDE DEF P
  <2>2. (g - 1) * P + P <= G * P
    BY <1>2, <1>5, <2>1, Multiples
  <2> QED
    BY <1>1, <1>5, <1>6, <2>2
<1>8. PICK n \in 1 .. P : x = all[g * P + n]
  <2>1. PICK m \in from + 1 .. from + P : x = all[m]
    BY <1>5, <1>6 DEF Born
  <2>2. m - from \in 1 .. P /\ m = from + (m - from)
    BY <1>2, <1>7, <2>1
  <2> QED
    BY <1>6, <2>1, <2>2
<1>9. before = {all[m] : m \in low + 1 .. low + P}
  BY <1>0, <1>5, <1>6
<1>10. PICK slice : slice = Slice(all, g - 1)
  OBVIOUS
<1>11. slice = [k \in 1 .. P |-> all[low + k]] /\ Len(slice) = P
  BY <1>2, <1>6, <1>10 DEF Slice
<1>12. Bred(x, slice)
  BY <1>1, <1>4, <1>8, <1>10
<1>13. PICK k \in 1 .. P : /\ slice[k].id = x.id \/ slice[k].id = x.parent
                           /\ Cardinality(Better(slice[k], slice)) < Elites
  BY <1>12 DEF Bred
<1>14. PICK y, places, surpassing :
         y = slice[k] /\ places = Better(y, slice) /\ surpassing = {z \in before : z.fitness > y.fitness}
  OBVIOUS
<1>15. y \in before
  <2>1. y = all[low + k] /\ low + k \in low + 1 .. low + P
    BY <1>7, <1>2, <1>11, <1>14
  <2> QED
    BY <1>9, <2>1
<1>16. places = {m \in 1 .. P : all[low + m].fitness > y.fitness}
  BY <1>11, <1>14 DEF Better
<1>17. IsFiniteSet(places) /\ Cardinality(places) \in Nat /\ Cardinality(places) < Elites
  <2>1. places \in SUBSET (1 .. P)
    BY <1>16
  <2>2. IsFiniteSet(places) /\ Cardinality(places) \in Nat
    BY <1>2, <2>1, CountPlaces
  <2> QED
    BY <1>13, <1>14, <2>2
<1>18. Cardinality(surpassing) <= Cardinality(places) /\ Cardinality(surpassing) \in Nat
  <2>1. PICK to : to = [m \in places |-> all[low + m]]
    OBVIOUS
  <2>2. \A m \in places : all[low + m] \in surpassing
    <3>1. \A m \in places : m \in 1 .. P /\ low + m \in low + 1 .. low + P /\ all[low + m].fitness > y.fitness
      BY <1>2, <1>7, <1>16
    <3> QED
      BY <1>9, <1>14, <3>1
  <2>3. \A z \in surpassing : \E m \in places : to[m] = z
    <3> SUFFICES ASSUME NEW z \in surpassing PROVE \E m \in places : to[m] = z
      OBVIOUS
    <3>1. PICK m \in low + 1 .. low + P : z = all[m] /\ z.fitness > y.fitness
      BY <1>9, <1>14
    <3>2. m - low \in 1 .. P /\ low + (m - low) = m
      <4>1. m \in low + 1 .. low + P
        OBVIOUS
      <4> HIDE DEF P
      <4> QED
        BY ONLY <1>2, <1>7, <4>1
    <3>3. m - low \in places
      BY <1>16, <3>1, <3>2
    <3> QED
      BY <2>1, <3>1, <3>2, <3>3
  <2>4. to \in Surjection(places, surpassing)
    BY <2>1, <2>2, <2>3 DEF Surjection
  <2>5. IsFiniteSet(surpassing) /\ Cardinality(surpassing) <= Cardinality(places)
    BY ONLY <1>17, <2>4, FS_Surjection
  <2>6. Cardinality(surpassing) \in Nat
    BY ONLY <2>5, FS_CardinalityType
  <2> QED
    BY <2>5, <2>6
<1>19. Cardinality(surpassing) < Elites
  BY <1>2, <1>17, <1>18
<1> QED
  BY <1>0, <1>13, <1>14, <1>15, <1>19 DEF BredOf, Born
-----------------------------------------------------------------------------
(* Evolution: the handler                                                  *)

Shaped(e) ==
  e = [sample |-> e.sample, to |-> e.to, population |-> e.population, all |-> e.all, bred |-> e.bred, next |-> e.next,
       generation |-> e.generation, stalled |-> e.stalled, trend |-> e.trend, result |-> e.result]

(* What the request has evaluated, and what it has bred.                   *)
Sampled(e) ==
  /\ e.sample \in Samples /\ e.bred \in Nat /\ e.generation \in Nat
  /\ e.population \in Seq(Genomes) /\ Len(e.population) = PopulationSize
  /\ e.all \in Seq(Genomes) /\ e.next \in Seq(Genomes)

(* No genome is fitter than the fittest of the population, which is the    *)
(* first to go on, or the answer.                                          *)
Leads(e, g) == \A k \in 1 .. PopulationSize : e.population[k].fitness <= g.fitness
KeepsTheBest(e) ==
  /\ \A n \in 1 .. Len(e.all) : \E k \in 1 .. PopulationSize : e.all[n].fitness <= e.population[k].fitness
  /\ e.result = <<>> => e.next # <<>> /\ Leads(e, e.next[1])
  /\ e.result # <<>> => Leads(e, e.result[1].best)

(* An answer is one record, which has its best genome.                     *)
Answers(e) ==
  e.result # <<>> => 1 \in DOMAIN e.result /\ "best" \in DOMAIN e.result[1] /\ e.result[1].best \in Genomes

Breeds(e) ==
  /\ Descends(e.all, e.population)
  /\ \A n \in 1 .. Len(e.next) : Bred(e.next[n], e.population)

EvolutionSound(e) == Shaped(e) /\ Sampled(e) /\ KeepsTheBest(e) /\ Answers(e) /\ Breeds(e)

EvolutionInv == evolution = None \/ EvolutionSound(evolution)

(* A request begins.                                                       *)
LEMMA EvolveSound ==
  ASSUME NEW s \in Samples, NEW to, NEW e, e = Begun(s, to, Founders(Baseline(s), Fitness[s]))
  PROVE  EvolutionSound(e)
<1>1. PICK population : population = Founders(Baseline(s), Fitness[s])
  OBVIOUS
<1>2. population \in Seq(Genomes) /\ Len(population) = PopulationSize
  BY <1>1, FoundersAre
<1>3. PICK next : next = Survivors(population, 1)
  OBVIOUS
<1>4. /\ next \in Seq(Genomes) /\ Len(next) = Elites
      /\ \A n \in 1 .. Elites : Bred(next[n], population)
      /\ \A k \in 1 .. PopulationSize : population[k].fitness <= next[1].fitness
  <2>1. PICK gen : gen = 1
    OBVIOUS
  <2>2. gen \in Nat /\ next = Survivors(population, gen)
    BY <1>3, <2>1
  <2> QED
    BY <1>2, <2>2, SurvivorsAre
<1>5. PICK trend : trend = <<AvgFitness(population)>>
  OBVIOUS
<1>6. e = [sample |-> s, to |-> to, population |-> population, all |-> population, bred |-> PopulationSize,
           next |-> next, generation |-> 1, stalled |-> 0, trend |-> trend, result |-> <<>>]
  BY <1>1, <1>3, <1>5 DEF Begun
<1>7. Shaped(e) /\ Sampled(e)
  BY <1>2, <1>4, <1>6, SizesAre DEF Shaped, Sampled
<1>8. KeepsTheBest(e)
  <2>1. next # <<>>
    BY <1>4, SizesAre
  <2>2. \A n \in 1 .. PopulationSize : population[n].fitness <= population[n].fitness
    BY <1>2, GenomesFit
  <2> QED
    BY <1>2, <1>4, <1>6, <2>1, <2>2 DEF KeepsTheBest, Leads
<1>9. Answers(e) /\ Breeds(e)
  BY <1>2, <1>4, <1>6, DescendsFirst DEF Answers, Breeds
<1> QED
  BY <1>7, <1>8, <1>9 DEF EvolutionSound

(* One genome more for the next generation.                                *)
LEMMA BreedSound ==
  ASSUME NEW e, EvolutionSound(e), NEW n \in 1 .. Elites, NEW kind \in Draws,
         e.result = <<>>, NEW parent, parent = FittestFirst(e.population)[n],
         NEW f, f \in Fitness[e.sample][<<kind, Param(kind, parent)>>],
         NEW e2, e2 = [e EXCEPT !.next = Append(@, Genome(e.bred, e.generation, parent, kind, f)), !.bred = @ + 1]
  PROVE  EvolutionSound(e2)
<1>1. Sampled(e) /\ Shaped(e) /\ KeepsTheBest(e) /\ Breeds(e)
  BY DEF EvolutionSound
<1>2. parent \in Genomes /\ \A x : (x.id = parent.id \/ x.parent = parent.id) => Bred(x, e.population)
  <2>1. PICK population, order : population = e.population /\ order = FittestFirst(population)
    OBVIOUS
  <2>2. population \in Seq(Genomes) /\ Len(population) = PopulationSize
    BY <1>1, <2>1 DEF Sampled
  <2>3. order[n] \in Genomes /\ \A x : (x.id = order[n].id \/ x.parent = order[n].id) => Bred(x, population)
    BY <2>1, <2>2, ParentIs
  <2> QED
    BY <2>1, <2>3
<1>3. kind \in MutationKinds
  BY KindsAre
<1>4. f \in 0 .. 1000
  <2>1. PICK p, s : p = Param(kind, parent) /\ s = e.sample
    OBVIOUS
  <2>2. p \in Params /\ s \in Samples /\ kind \in MutationKinds \cup {None} /\ kind # None
    BY <1>1, <1>2, <1>3, <2>1, GenomesFit, ParamFits, KindsAre DEF Sampled
  <2>3. Fitness[s][<<kind, p>>] \subseteq 0 .. 1000
    BY ONLY <2>2, FitnessIs
  <2>4. f \in Fitness[s][<<kind, p>>]
    BY <2>1
  <2> QED
    BY ONLY <2>3, <2>4
<1>5. PICK g : g = Genome(e.bred, e.generation, parent, kind, f)
  OBVIOUS
<1>6. g \in Genomes
  <2>1. PICK id, gen : id = e.bred /\ gen = e.generation
    OBVIOUS
  <2>2. id \in Nat /\ gen \in Nat
    BY <1>1, <2>1 DEF Sampled
  <2>3. Genome(id, gen, parent, kind, f) \in Genomes
    BY ONLY <1>2, <1>3, <1>4, <2>2, GenomeIs
  <2> QED
    BY <1>5, <2>1, <2>3
<1>7. Bred(g, e.population)
  <2>1. g.parent = parent.id
    BY <1>5 DEF Genome
  <2> QED
    BY <1>2, <2>1
<1>8. PICK next : next = Append(e.next, g)
  OBVIOUS
<1>9. e2 = [sample |-> e.sample, to |-> e.to, population |-> e.population, all |-> e.all, bred |-> e.bred + 1,
            next |-> next, generation |-> e.generation, stalled |-> e.stalled, trend |-> e.trend, result |-> e.result]
  <2>1. e2 = [e EXCEPT !.next = next, !.bred = e.bred + 1]
    BY <1>1, <1>5, <1>8 DEF Shaped
  <2> QED
    BY <1>1, <2>1 DEF Shaped
<1>10. /\ next \in Seq(Genomes) /\ Len(next) = Len(e.next) + 1 /\ next # <<>>
       /\ \A m \in 1 .. Len(e.next) : next[m] = e.next[m]
       /\ next[Len(e.next) + 1] = g
  BY <1>1, <1>6, <1>8 DEF Sampled
<1>11. Shaped(e2) /\ Sampled(e2)
  <2>1. Shaped(e2)
    BY <1>9 DEF Shaped
  <2>2. Sampled(e2)
    <3>1. e2.sample = e.sample /\ e2.bred = e.bred + 1 /\ e2.generation = e.generation
      BY <1>9
    <3>2. e2.population = e.population /\ e2.all = e.all /\ e2.next = next
      BY ONLY <1>9
    <3> QED
      BY ONLY <1>1, <1>10, <3>1, <3>2 DEF Sampled
  <2> QED
    BY <2>1, <2>2
<1>12. KeepsTheBest(e2)
  <2>1. e.next # <<>> /\ e.next \in Seq(Genomes) /\ Leads(e, e.next[1])
    BY <1>1 DEF KeepsTheBest, Sampled
  <2>2. next[1] = e.next[1]
    <3>1. 1 \in 1 .. Len(e.next)
      BY <2>1
    <3> QED
      BY <1>10, <3>1
  <2> QED
    BY <1>1, <1>9, <1>10, <2>1, <2>2 DEF KeepsTheBest, Leads
<1>13. Answers(e2)
  BY <1>9 DEF Answers
<1>14. Breeds(e2)
  <2>1. \A m \in 1 .. Len(next) : Bred(next[m], e.population)
    <3>1. \A m \in 1 .. Len(e.next) : Bred(e.next[m], e.population)
      BY <1>1 DEF Breeds
    <3>2. \A m \in 1 .. Len(next) : m \in 1 .. Len(e.next) \/ m = Len(e.next) + 1
      BY <1>1, <1>10 DEF Sampled
    <3> QED
      BY <1>7, <1>10, <3>1, <3>2
  <2>2. e2.population = e.population /\ e2.all = e.all /\ e2.next = next
    BY ONLY <1>9
  <2> QED
    BY ONLY <1>1, <2>1, <2>2 DEF Breeds
<1> QED
  BY <1>11, <1>12, <1>13, <1>14 DEF EvolutionSound

Joins(c, a, b) == c = a \o b

LEMMA ListsJoin ==
  ASSUME NEW a, NEW b, a \in Seq(Genomes), b \in Seq(Genomes), NEW c, Joins(c, a, b)
  PROVE  /\ c \in Seq(Genomes) /\ Len(c) = Len(a) + Len(b) /\ Len(a) \in Nat
         /\ \A n \in 1 .. Len(a) : c[n] = a[n]
         /\ \A n \in 1 .. Len(b) : c[Len(a) + n] = b[n]
BY DEF Joins

(* A generation is complete: it is the population, and there is an answer  *)
(* or the next one begins with its survivors.                              *)
LEMMA TurnSound ==
  ASSUME NEW e, EvolutionSound(e), e.result = <<>>, Len(e.next) = PopulationSize,
         NEW over \in BOOLEAN, NEW stalled, NEW trend, NEW answered, NEW next, NEW gen,
         over => "best" \in DOMAIN answered /\ answered.best = FittestFirst(e.next)[1],
         next = (IF over THEN <<>> ELSE Survivors(e.next, e.generation + 1)),
         gen = (IF over THEN e.generation ELSE e.generation + 1),
         NEW e2, e2 = [sample |-> e.sample, to |-> e.to, population |-> e.next, all |-> e.all \o e.next, bred |-> e.bred,
                       next |-> next, generation |-> gen, stalled |-> stalled, trend |-> trend,
                       result |-> IF over THEN <<answered>> ELSE <<>>]
  PROVE  EvolutionSound(e2)
<1>1. Sampled(e) /\ Shaped(e) /\ KeepsTheBest(e) /\ Breeds(e)
  BY DEF EvolutionSound
<1>2. PICK population, all, result : population = e.next /\ all = e.all \o e.next /\ result = e2.result
  OBVIOUS
<1>3. population \in Seq(Genomes) /\ Len(population) = PopulationSize /\ e.all \in Seq(Genomes)
  BY <1>1, <1>2 DEF Sampled
<1>4. /\ all \in Seq(Genomes) /\ Len(all) = Len(e.all) + PopulationSize
      /\ \A n \in 1 .. Len(e.all) : all[n] = e.all[n]
      /\ \A n \in 1 .. PopulationSize : all[Len(e.all) + n] = population[n]
      /\ Len(e.all) \in Nat
  <2>1. PICK older : older = e.all
    OBVIOUS
  <2>2. older \in Seq(Genomes) /\ Joins(all, older, population)
    BY <1>2, <1>3, <2>1 DEF Joins
  <2>3. /\ all \in Seq(Genomes) /\ Len(all) = Len(older) + Len(population) /\ Len(older) \in Nat
        /\ \A n \in 1 .. Len(older) : all[n] = older[n]
        /\ \A n \in 1 .. Len(population) : all[Len(older) + n] = population[n]
    BY ONLY <1>3, <2>2, ListsJoin
  <2> QED
    BY <1>3, <2>1, <2>3
<1>5. /\ ~over => /\ next \in Seq(Genomes) /\ Len(next) = Elites
                  /\ \A n \in 1 .. Elites : Bred(next[n], population)
                  /\ \A k \in 1 .. PopulationSize : population[k].fitness <= next[1].fitness
      /\ over => next = <<>>
      /\ gen \in Nat
  <2>1. PICK later : later = e.generation + 1
    OBVIOUS
  <2>2. later \in Nat /\ gen \in Nat
    BY <1>1, <2>1 DEF Sampled
  <2>3. ~over => next = Survivors(population, later)
    BY <1>2, <2>1
  <2>4. PICK s : s = Survivors(population, later)
    OBVIOUS
  <2>5. /\ s \in Seq(Genomes) /\ Len(s) = Elites
        /\ \A n \in 1 .. Elites : Bred(s[n], population)
        /\ \A k \in 1 .. PopulationSize : population[k].fitness <= s[1].fitness
    BY ONLY <1>3, <2>2, <2>4, SurvivorsAre
  <2> QED
    BY <2>2, <2>3, <2>4, <2>5
<1>6. e2.sample = e.sample /\ e2.population = population /\ e2.all = all /\ e2.bred = e.bred /\ e2.next = next
      /\ e2.generation = gen /\ e2.result = result /\ result = (IF over THEN <<answered>> ELSE <<>>)
  BY <1>2
<1>7. Shaped(e2)
  BY DEF Shaped
<1>8. Sampled(e2)
  <2>1. next \in Seq(Genomes)
    BY <1>5
  <2>2. e.sample \in Samples /\ e.bred \in Nat
    BY <1>1 DEF Sampled
  <2> QED
    BY ONLY <1>3, <1>4, <1>5, <1>6, <2>1, <2>2 DEF Sampled
<1>9. over => answered.best \in Genomes /\ \A k \in 1 .. PopulationSize : population[k].fitness <= answered.best.fitness
  <2>1. PICK f : f = FittestFirst(population)
    OBVIOUS
  <2>2. \A g \in Genomes : g.fitness \in Int
    BY GenomesFit
  <2>3. /\ f \in Seq(Genomes) /\ Len(f) = Len(population)
        /\ \A k \in 1 .. Len(population) : population[k].fitness <= f[1].fitness
    BY ONLY <1>3, <2>1, <2>2, FittestFirstIs
  <2>4. f[1] \in Genomes
    BY <1>3, <2>3, SizesAre
  <2>5. over => answered.best = f[1]
    BY <1>2, <2>1
  <2> QED
    BY <1>3, <2>3, <2>4, <2>5
<1>10. \A n \in 1 .. Len(all) : \E k \in 1 .. PopulationSize : all[n].fitness <= population[k].fitness
  <2> SUFFICES ASSUME NEW n \in 1 .. Len(all)
               PROVE  \E k \in 1 .. PopulationSize : all[n].fitness <= population[k].fitness
    OBVIOUS
  <2>1. CASE n \in 1 .. Len(e.all)
    <3>1. PICK o \in 1 .. PopulationSize : e.all[n].fitness <= e.population[o].fitness
      BY <1>1, <2>1 DEF KeepsTheBest
    <3>2. e.population[o].fitness <= population[1].fitness
      BY <1>1, <1>2 DEF KeepsTheBest, Leads
    <3>3. e.all[n].fitness \in Int /\ e.population[o].fitness \in Int /\ population[1].fitness \in Int
      <4>1. e.all[n] \in Genomes /\ e.population[o] \in Genomes /\ population[1] \in Genomes
        BY <1>1, <1>3, <2>1, SizesAre DEF Sampled
      <4> QED
        BY <4>1, GenomesFit
    <3>4. all[n] = e.all[n]
      BY ONLY <1>4, <2>1
    <3>5. all[n].fitness <= population[1].fitness
      BY ONLY <3>1, <3>2, <3>3, <3>4
    <3> QED
      BY ONLY <3>5, SizesAre
  <2>2. CASE n \notin 1 .. Len(e.all)
    <3>1. PICK k : k = n - Len(e.all)
      OBVIOUS
    <3>2. k \in 1 .. PopulationSize /\ n = Len(e.all) + k
      <4>1. n \in 1 .. Len(all)
        OBVIOUS
      <4> QED
        BY ONLY <1>4, <2>2, <3>1, <4>1, SizesAre
    <3>3. all[n] = population[k] /\ population[k] \in Genomes
      BY <1>3, <1>4, <3>2
    <3>4. all[n].fitness <= population[k].fitness
      BY <3>3, GenomesFit
    <3> QED
      BY <3>2, <3>4
  <2> QED
    BY <2>1, <2>2
<1>11. KeepsTheBest(e2)
  <2>1. result = <<>> => next # <<>> /\ \A k \in 1 .. PopulationSize : population[k].fitness <= next[1].fitness
    BY <1>5, <1>6, SizesAre
  <2>2. result # <<>> => \A k \in 1 .. PopulationSize : population[k].fitness <= result[1].best.fitness
    BY <1>6, <1>9
  <2> QED
    BY ONLY <1>6, <1>10, <2>1, <2>2 DEF KeepsTheBest, Leads
<1>12. Answers(e2)
  <2>1. result # <<>> => 1 \in DOMAIN result /\ "best" \in DOMAIN result[1] /\ result[1].best \in Genomes
    BY <1>6, <1>9
  <2> QED
    BY ONLY <1>6, <2>1 DEF Answers
<1>13. Breeds(e2)
  <2>1. Descends(e.all \o e.next, e.next)
    <3>1. Descends(e.all, e.population) /\ \A n \in 1 .. PopulationSize : Bred(e.next[n], e.population)
      BY <1>1 DEF Breeds
    <3>2. PICK older, first, newer : older = e.all /\ first = e.population /\ newer = e.next
      OBVIOUS
    <3>3. /\ older \in Seq(Genomes) /\ first \in Seq(Genomes) /\ newer \in Seq(Genomes)
          /\ Len(first) = PopulationSize /\ Len(newer) = PopulationSize /\ Descends(older, first)
          /\ \A n \in 1 .. PopulationSize : Bred(newer[n], first)
      BY <1>1, <3>1, <3>2 DEF Sampled
    <3>4. Descends(older \o newer, newer)
      BY ONLY <3>3, DescendsOn
    <3> QED
      BY <3>2, <3>4
  <2>2. Descends(all, population)
    BY <1>2, <2>1
  <2>3. \A n \in 1 .. Len(next) : Bred(next[n], population)
    BY <1>5
  <2> QED
    BY ONLY <1>6, <2>2, <2>3 DEF Breeds
<1> QED
  BY <1>7, <1>8, <1>11, <1>12, <1>13 DEF EvolutionSound

(* The twin is added to the answer.                                        *)
LEMMA ExploreSound ==
  ASSUME NEW e, EvolutionSound(e), e.result # <<>>, NEW twin, NEW e2, e2 = [e EXCEPT !.result[1].twin = twin]
  PROVE  EvolutionSound(e2)
<1>1. Sampled(e) /\ Shaped(e) /\ KeepsTheBest(e) /\ Answers(e) /\ Breeds(e)
  BY DEF EvolutionSound
<1>2. PICK old, first : old = e.result /\ first = old[1]
  OBVIOUS
<1>3. PICK answered, result : answered = [first EXCEPT !.twin = twin] /\ result = [old EXCEPT ![1] = answered]
  OBVIOUS
<1>4. 1 \in DOMAIN old /\ "best" \in DOMAIN first /\ first.best \in Genomes
  BY <1>1, <1>2 DEF Answers
<1>5. answered.best = first.best /\ "best" \in DOMAIN answered
  BY <1>3, <1>4
<1>6. 1 \in DOMAIN result /\ result[1] = answered /\ result # <<>>
  BY <1>3, <1>4
<1>7. e2 = [e EXCEPT !.result = result]
  BY <1>1, <1>2, <1>3 DEF Shaped
<1>8. e2 = [sample |-> e.sample, to |-> e.to, population |-> e.population, all |-> e.all, bred |-> e.bred,
            next |-> e.next, generation |-> e.generation, stalled |-> e.stalled, trend |-> e.trend, result |-> result]
  BY ONLY <1>1, <1>7 DEF Shaped
<1>9. e2.sample = e.sample /\ e2.population = e.population /\ e2.all = e.all /\ e2.bred = e.bred /\ e2.next = e.next
      /\ e2.generation = e.generation /\ e2.result = result
  BY ONLY <1>8
<1>10. Shaped(e2)
  BY ONLY <1>8 DEF Shaped
<1>11. Sampled(e2)
  BY ONLY <1>1, <1>9 DEF Sampled
<1>12. KeepsTheBest(e2)
  <2>1. Leads(e, first.best)
    BY <1>1, <1>2 DEF KeepsTheBest
  <2>2. Leads(e2, result[1].best)
    BY ONLY <1>5, <1>6, <1>9, <2>1 DEF Leads
  <2> QED
    BY ONLY <1>1, <1>6, <1>9, <2>2 DEF KeepsTheBest
<1>13. Answers(e2)
  BY ONLY <1>4, <1>5, <1>6, <1>9 DEF Answers
<1>14. Breeds(e2)
  BY ONLY <1>1, <1>9 DEF Breeds
<1> QED
  BY <1>10, <1>11, <1>12, <1>13, <1>14 DEF EvolutionSound

EvolutionStep ==
  \/ (EvolutionNext /\ UNCHANGED <<oversight, planetary, civilization, governor, collective, insight, learning, use>>)
  \/ evolution' = None
  \/ UNCHANGED evolution

LEMMA EvolutionSteps == [Next]_intelligence => EvolutionStep
BY Zenon DEF Next, intelligence, services, EvolutionStep, EvolutionRestart, OversightRequest, PlanetaryRequest,
   StructureRequest, MemoryRequest, GovernorRequest, CollectiveRequest, InsightRequest, EvolutionRequest,
   LearningRequest, Restart

LEMMA EvolutionKept ==
  ASSUME EvolutionInv, EvolutionStep
  PROVE  EvolutionInv'
<1>1. PICK e, e2 : e = evolution /\ e2 = evolution'
  OBVIOUS
<1>2. SUFFICES EvolutionSound(e2) \/ e2 = None \/ e2 = e
  BY <1>1 DEF EvolutionInv
<1>3. ASSUME NEW s \in Samples, NEW to \in {"evolve", "twin"}, Evolve(s, to) PROVE EvolutionSound(e2)
  <2>1. e2 = Begun(s, to, Founders(Baseline(s), Fitness[s]))
    BY <1>1, <1>3 DEF Evolve
  <2> QED
    BY <2>1, EvolveSound
<1>4. ASSUME NEW n \in 1 .. Elites, NEW kind \in Draws, Breed(n, kind) PROVE EvolutionSound(e2)
  <2>1. PICK parent : parent = FittestFirst(e.population)[n]
    OBVIOUS
  <2>2. EvolutionSound(e) /\ e.result = <<>>
    BY <1>1, <1>4 DEF EvolutionInv, Breed
  <2>3. PICK f : /\ f \in Fitness[e.sample][<<kind, Param(kind, parent)>>]
                 /\ e2 = [e EXCEPT !.next = Append(@, Genome(e.bred, e.generation, parent, kind, f)), !.bred = @ + 1]
    BY <1>1, <1>4, <2>1 DEF Breed, Parent
  <2> QED
    BY <2>1, <2>2, <2>3, BreedSound
<1>5. ASSUME Turn PROVE EvolutionSound(e2)
  <2>1. EvolutionSound(e) /\ e.result = <<>> /\ Len(e.next) = PopulationSize /\ Shaped(e)
    BY <1>1, <1>5 DEF EvolutionInv, Turn, EvolutionSound
  <2> DEFINE tired == IF BestOf(e.next) - BestOf(e.population) < 10 THEN e.stalled + 1 ELSE 0
             converged == BestOf(e.next) - BestOf(e.population) < 10 /\ tired >= Patience
             ended == converged \/ e.generation + 1 >= Generations
             grown == Append(e.trend, AvgFitness(e.next))
  <2>2. PICK over, stalled, trend, all, answered :
          /\ over \in BOOLEAN /\ over = ended /\ stalled = tired /\ trend = grown /\ all = e.all \o e.next
          /\ answered = Result(FittestFirst(e.next), FittestFirst(all), grown, converged)
    OBVIOUS
  <2>3. PICK next, gen : /\ next = (IF over THEN <<>> ELSE Survivors(e.next, e.generation + 1))
                         /\ gen = (IF over THEN e.generation ELSE e.generation + 1)
    OBVIOUS
  <2>4. PICK result : result = (IF over THEN <<answered>> ELSE <<>>)
    OBVIOUS
  <2>5. evolution' = [e EXCEPT !.population = e.next, !.all = all, !.stalled = stalled, !.trend = trend, !.next = next,
                               !.generation = gen, !.result = result]
    BY <1>1, <1>5, <2>2, <2>3, <2>4 DEF Turn, Some
  <2> HIDE DEF tired, converged, ended, grown
  <2>6. "best" \in DOMAIN answered /\ answered.best = FittestFirst(e.next)[1]
    BY <2>2 DEF Result
  <2>7. e2 = [sample |-> e.sample, to |-> e.to, population |-> e.next, all |-> all, bred |-> e.bred, next |-> next,
              generation |-> gen, stalled |-> stalled, trend |-> trend, result |-> result]
    BY ONLY <1>1, <2>1, <2>5 DEF Shaped
  <2>8. e2 = [sample |-> e.sample, to |-> e.to, population |-> e.next, all |-> e.all \o e.next, bred |-> e.bred,
              next |-> next, generation |-> gen, stalled |-> stalled, trend |-> trend,
              result |-> IF over THEN <<answered>> ELSE <<>>]
    BY <2>2, <2>4, <2>7
  <2> QED
    BY ONLY <2>1, <2>3, <2>6, <2>8, TurnSound
<1>6. ASSUME Explore PROVE EvolutionSound(e2)
  <2>1. EvolutionSound(e) /\ e.result # <<>>
    BY <1>1, <1>6 DEF EvolutionInv, Explore
  <2>2. PICK twin : e2 = [e EXCEPT !.result[1].twin = twin]
    BY <1>1, <1>6 DEF Explore
  <2> QED
    BY ONLY <2>1, <2>2, ExploreSound
<1> QED
  BY <1>1, <1>3, <1>4, <1>5, <1>6 DEF EvolutionStep, EvolutionNext

LEMMA EvolutionShows == EvolutionInv => SelectionWorks
<1> SUFFICES ASSUME EvolutionInv, evolution # None PROVE SelectionWorks
  BY DEF SelectionWorks, BestIsBest, OnlyTheFittestBreed
<1>1. PICK e : e = evolution
  OBVIOUS
<1>2. Sampled(e) /\ KeepsTheBest(e) /\ Answers(e) /\ Breeds(e)
  BY <1>1 DEF EvolutionInv, EvolutionSound
<1>3. BestIsBest
  <2> SUFFICES ASSUME e.result # <<>>, NEW n \in DOMAIN e.all PROVE e.all[n].fitness <= e.result[1].best.fitness
    BY <1>1 DEF BestIsBest
  <2>1. PICK k \in 1 .. PopulationSize : e.all[n].fitness <= e.population[k].fitness
    <3>1. PICK all : all = e.all
      OBVIOUS
    <3>2. all \in Seq(Genomes) /\ n \in DOMAIN all
      BY <1>2, <3>1 DEF Sampled
    <3>3. n \in 1 .. Len(all)
      BY <3>2
    <3>4. \A m \in 1 .. Len(e.all) : \E k \in 1 .. PopulationSize : e.all[m].fitness <= e.population[k].fitness
      BY <1>2 DEF KeepsTheBest
    <3> QED
      BY <3>1, <3>3, <3>4
  <2>2. e.population[k].fitness <= e.result[1].best.fitness
    BY <1>2 DEF KeepsTheBest, Leads
  <2>3. e.all[n] \in Genomes /\ e.population[k] \in Genomes /\ e.result[1].best \in Genomes
    BY <1>2 DEF Sampled, Answers
  <2> QED
    BY <2>1, <2>2, <2>3, GenomesFit
<1>4. OnlyTheFittestBreed
  <2>1. PICK all, population : all = e.all /\ population = e.population
    OBVIOUS
  <2>2. all \in Seq(Genomes) /\ Descends(all, population)
    BY <1>2, <2>1 DEF Sampled, Breeds
  <2>3. BredRight(all)
    BY <2>2, DescentIsShown DEF BredRight
  <2>4. BredRight(evolution.all)
    BY <1>1, <2>1, <2>3
  <2> QED
    BY <2>4 DEF OnlyTheFittestBreed, BredRight, Born, BredOf
<1> QED
  BY <1>3, <1>4 DEF SelectionWorks

(* Whatever is drawn, whenever a generation ends, and however often the    *)
(* process is restarted: nobody but the fittest of a generation lives on   *)
(* or breeds the next one, and none of all genomes ever evaluated is       *)
(* fitter than the best genome of the answer.                              *)
THEOREM SelectionAlwaysWorks == Spec => []SelectionWorks
<1>1. Init => EvolutionInv
  BY DEF Init, EvolutionInit, EvolutionInv
<1>2. EvolutionInv /\ [Next]_intelligence => EvolutionInv'
  BY EvolutionKept, EvolutionSteps
<1>3. EvolutionInv => SelectionWorks
  BY EvolutionShows
<1> QED
  BY <1>1, <1>2, <1>3, PTL DEF Spec

-----------------------------------------------------------------------------
(* Memory: a row for each swarm, in the order of its last analysis.        *)

LastOf(made) == {n \in 1 .. Len(made) : \A m \in n + 1 .. Len(made) : made[m].swarm # made[n].swarm}
Analyzed == [swarm : Range(Names), health : {Healths[w] : w \in Windows}]
RowOf(a) == Row(a.swarm, a.health)
Rows == {RowOf(a) : a \in Analyzed}

(* g tells of each row which analysis it was made from.                    *)
Madeof(rows, made, g) ==
  /\ g \in [1 .. Len(rows) -> 1 .. Len(made)]
  /\ Rising(g, Len(rows))
  /\ \A k \in 1 .. Len(rows) : g[k] \in LastOf(made) /\ rows[k] = RowOf(made[g[k]])
  /\ \A n \in LastOf(made) : \E k \in 1 .. Len(rows) : g[k] = n

Remembered(rows, made) == made \in Seq(Analyzed) /\ rows \in Seq(Rows) /\ \E g : Madeof(rows, made, g)

(* The rows but for that of a swarm.                                       *)
LeftOf(others, rows, swarm, e) ==
  /\ e \in [1 .. Len(others) -> 1 .. Len(rows)]
  /\ Rising(e, Len(others))
  /\ \A k \in 1 .. Len(others) : others[k] = rows[e[k]] /\ rows[e[k]].swarm # swarm
  /\ \A n \in 1 .. Len(rows) : rows[n].swarm # swarm => \E k \in 1 .. Len(others) : e[k] = n

LEMMA ReplacedIs ==
  ASSUME NEW X, NEW rows, rows \in Seq(X), NEW row, row \in X,
         \A m, n \in 1 .. Len(rows) : rows[m].swarm = rows[n].swarm => m = n
  PROVE  \E others, e : others \in Seq(X) /\ Replaced(rows, row) = Append(others, row) /\ LeftOf(others, rows, row.swarm, e)
<1> DEFINE known == {n \in DOMAIN rows : rows[n].swarm = row.swarm}
<1>1. PICK l \in Nat : l = Len(rows) /\ DOMAIN rows = 1 .. l /\ \A n \in 1 .. l : rows[n] \in X
  OBVIOUS
<1>2. CASE known = {}
  <2> DEFINE e == [k \in 1 .. l |-> k]
  <2>1. Replaced(rows, row) = Append(rows, row)
    BY <1>2 DEF Replaced
  <2>2. LeftOf(rows, rows, row.swarm, e)
    BY <1>1, <1>2 DEF LeftOf, Rising
  <2> QED
    BY <2>1, <2>2
<1>3. CASE known # {}
  <2>1. PICK i : i = CHOOSE n \in known : TRUE
    OBVIOUS
  <2>2. i \in known
    BY <1>3, <2>1
  <2>3. i \in 1 .. l /\ rows[i].swarm = row.swarm
    BY <1>1, <2>2
  <2>4. PICK others : others = RemoveAt(rows, i)
    OBVIOUS
  <2>5. Replaced(rows, row) = Append(others, row)
    BY <1>3, <2>1, <2>4 DEF Replaced
  <2> HIDE DEF known
  <2>6. /\ others \in Seq(X) /\ Len(others) = l - 1
        /\ \A k \in 1 .. l - 1 : others[k] = rows[IF k < i THEN k ELSE k + 1]
    <3>1. PICK a, b : a = SubSeq(rows, 1, i - 1) /\ b = SubSeq(rows, i + 1, l)
      OBVIOUS
    <3>2. a \in Seq(X) /\ Len(a) = i - 1 /\ \A k \in 1 .. i - 1 : a[k] = rows[k]
      BY <1>1, <2>3, <3>1
    <3>3. b \in Seq(X) /\ Len(b) = l - i /\ \A k \in 1 .. l - i : b[k] = rows[k + i]
      BY <1>1, <2>3, <3>1
    <3>4. others = a \o b
      BY <1>1, <2>4, <3>1 DEF RemoveAt
    <3>5. /\ others \in Seq(X) /\ Len(others) = Len(a) + Len(b)
          /\ \A k \in 1 .. Len(a) + Len(b) : others[k] = IF k <= Len(a) THEN a[k] ELSE b[k - Len(a)]
      <4>1. a \in Seq(X) /\ b \in Seq(X)
        BY <3>2, <3>3
      <4> QED
        BY ONLY <4>1, <3>4
    <3>6. \A k \in 1 .. l - 1 : others[k] = rows[IF k < i THEN k ELSE k + 1]
      <4> SUFFICES ASSUME NEW k \in 1 .. l - 1 PROVE others[k] = rows[IF k < i THEN k ELSE k + 1]
        OBVIOUS
      <4>1. CASE k < i
        <5>1. k \in 1 .. i - 1 /\ k \in 1 .. (i - 1) + (l - i) /\ k <= i - 1
          BY <1>1, <2>3, <4>1
        <5> QED
          BY ONLY <1>1, <2>3, <3>2, <3>3, <3>5, <4>1, <5>1
      <4>2. CASE k >= i
        <5>1. k - (i - 1) \in 1 .. l - i /\ (k - (i - 1)) + i = k + 1 /\ k \in 1 .. (i - 1) + (l - i) /\ ~(k <= i - 1)
          BY <1>1, <2>3, <4>2
        <5> QED
          BY ONLY <1>1, <2>3, <3>2, <3>3, <3>5, <4>2, <5>1
      <4> QED
        BY <1>1, <2>3, <4>1, <4>2
    <3> QED
      BY <1>1, <2>3, <3>2, <3>3, <3>5, <3>6
  <2> DEFINE e == [k \in 1 .. l - 1 |-> IF k < i THEN k ELSE k + 1]
  <2>7. e \in [1 .. l - 1 -> 1 .. l] /\ Rising(e, l - 1)
    BY <1>1, <2>3 DEF Rising
  <2>8. \A k \in 1 .. l - 1 : others[k] = rows[e[k]] /\ e[k] # i
    BY <1>1, <2>3, <2>6
  <2>9. \A n \in 1 .. l : n # i => \E k \in 1 .. l - 1 : e[k] = n
    <3> SUFFICES ASSUME NEW n \in 1 .. l, n # i PROVE \E k \in 1 .. l - 1 : e[k] = n
      OBVIOUS
    <3>1. CASE n < i
      <4>1. n \in 1 .. l - 1 /\ e[n] = n
        BY <1>1, <2>3, <3>1
      <4> QED
        BY <4>1
    <3>2. CASE n > i
      <4>1. n - 1 \in 1 .. l - 1 /\ e[n - 1] = n
        BY <1>1, <2>3, <3>2
      <4> QED
        BY <4>1
    <3> QED
      BY <1>1, <2>3, <3>1, <3>2
  <2> HIDE DEF e
  <2>10. \A n \in 1 .. l : rows[n].swarm = row.swarm => n = i
    BY <1>1, <2>3
  <2>11. \A k \in 1 .. l - 1 : rows[e[k]].swarm # row.swarm
    BY <2>7, <2>8, <2>10
  <2>12. \A n \in 1 .. l : rows[n].swarm # row.swarm => \E k \in 1 .. l - 1 : e[k] = n
    BY <2>3, <2>9
  <2>13. LeftOf(others, rows, row.swarm, e)
    BY ONLY <1>1, <2>6, <2>7, <2>8, <2>11, <2>12 DEF LeftOf
  <2> QED
    BY <2>5, <2>6, <2>13
<1> QED
  BY <1>2, <1>3

(* What is asked of a row.                                                 *)
LEMMA RowIs ==
  ASSUME NEW a
  PROVE  /\ RowOf(a).swarm = a.swarm /\ RowOf(a).health = a.health.overall
         /\ RowOf(a).bottlenecks = KindsIn(a.health.bottlenecks) /\ RowOf(a).incidents = KindsIn(a.health.incidents)
BY DEF RowOf, Row

(* One row for each swarm.                                                 *)
LEMMA OneRowEach ==
  ASSUME NEW made, made \in Seq(Analyzed), NEW rows, rows \in Seq(Rows), NEW g, Madeof(rows, made, g)
  PROVE  /\ \A k \in 1 .. Len(rows) : rows[k].swarm = made[g[k]].swarm
         /\ \A m, n \in 1 .. Len(rows) : rows[m].swarm = rows[n].swarm => m = n
<1>1. PICK l, p : l \in Nat /\ p \in Nat /\ l = Len(rows) /\ p = Len(made)
  <2>1. Len(rows) \in Nat /\ Len(made) \in Nat
    OBVIOUS
  <2> QED
    BY <2>1
<1>2. \A k \in 1 .. l : rows[k].swarm = made[g[k]].swarm
  <2>1. \A k \in 1 .. l : rows[k] = RowOf(made[g[k]])
    BY <1>1 DEF Madeof
  <2> QED
    BY <2>1, RowIs
<1>3. g \in [1 .. l -> 1 .. p] /\ Rising(g, l) /\ \A k \in 1 .. l : g[k] \in LastOf(made)
  BY <1>1 DEF Madeof
<1>4. ASSUME NEW m \in 1 .. l, NEW n \in 1 .. l, rows[m].swarm = rows[n].swarm, m < n PROVE FALSE
  <2>1. g[m] < g[n] /\ g[m] \in 1 .. p /\ g[n] \in 1 .. p /\ g[m] \in LastOf(made)
    BY <1>3, <1>4 DEF Rising
  <2>2. \A i \in g[m] + 1 .. p : made[i].swarm # made[g[m]].swarm
    BY <1>1, <2>1 DEF LastOf
  <2>3. g[n] \in g[m] + 1 .. p
    BY <1>1, <2>1
  <2>4. made[g[n]].swarm # made[g[m]].swarm
    BY ONLY <2>2, <2>3
  <2> QED
    BY <1>2, <1>4, <2>4
<1>5. \A m, n \in 1 .. l : rows[m].swarm = rows[n].swarm => m = n
  <2> SUFFICES ASSUME NEW m \in 1 .. l, NEW n \in 1 .. l, rows[m].swarm = rows[n].swarm PROVE m = n
    OBVIOUS
  <2> QED
    BY <1>4
<1> QED
  BY <1>1, <1>2, <1>5

LEMMA RecordKeeps ==
  ASSUME NEW made, NEW rows, Remembered(rows, made), NEW a, a \in Analyzed, NEW row, row = RowOf(a),
         NEW made2, made2 = Append(made, a), NEW rows2, rows2 = Replaced(rows, row)
  PROVE  Remembered(rows2, made2)
<1>1. made \in Seq(Analyzed) /\ rows \in Seq(Rows) /\ row \in Rows /\ row.swarm = a.swarm
  BY RowIs DEF Remembered, Rows
<1>2. PICK g : Madeof(rows, made, g)
  BY DEF Remembered
<1>3. PICK l, p : l \in Nat /\ p \in Nat /\ l = Len(rows) /\ p = Len(made)
  <2>1. Len(rows) \in Nat /\ Len(made) \in Nat
    BY <1>1
  <2> QED
    BY <2>1
<1>4. /\ \A k \in 1 .. l : rows[k].swarm = made[g[k]].swarm
      /\ \A m, n \in 1 .. l : rows[m].swarm = rows[n].swarm => m = n
  BY <1>1, <1>2, <1>3, OneRowEach
<1>5. PICK others, e : others \in Seq(Rows) /\ rows2 = Append(others, row) /\ LeftOf(others, rows, row.swarm, e)
  BY <1>1, <1>3, <1>4, ReplacedIs
<1>6. PICK h : h \in Nat /\ h = Len(others)
  BY <1>5
<1>7. /\ rows2 \in Seq(Rows) /\ Len(rows2) = h + 1 /\ rows2[h + 1] = row
      /\ \A k \in 1 .. h : rows2[k] = others[k]
  BY <1>1, <1>5, <1>6
<1>8. /\ made2 \in Seq(Analyzed) /\ Len(made2) = p + 1 /\ made2[p + 1] = a
      /\ \A n \in 1 .. p : made2[n] = made[n]
  BY <1>1, <1>3
<1>9. /\ e \in [1 .. h -> 1 .. l] /\ Rising(e, h)
      /\ \A k \in 1 .. h : others[k] = rows[e[k]] /\ rows[e[k]].swarm # a.swarm
      /\ \A n \in 1 .. l : rows[n].swarm # a.swarm => \E k \in 1 .. h : e[k] = n
  BY ONLY <1>1, <1>3, <1>5, <1>6 DEF LeftOf
<1>10. /\ g \in [1 .. l -> 1 .. p] /\ Rising(g, l)
       /\ \A k \in 1 .. l : g[k] \in LastOf(made) /\ rows[k] = RowOf(made[g[k]])
       /\ \A n \in LastOf(made) : \E k \in 1 .. l : g[k] = n
  BY ONLY <1>2, <1>3 DEF Madeof
<1>11. \A n : n \in LastOf(made2) <=> n = p + 1 \/ (n \in LastOf(made) /\ made[n].swarm # a.swarm)
  <2>1. p + 1 \in LastOf(made2)
    BY <1>8 DEF LastOf
  <2>2. ASSUME NEW n \in 1 .. p PROVE n \in LastOf(made2) <=> n \in LastOf(made) /\ made[n].swarm # a.swarm
    <3>1. (n + 1 .. p + 1) = (n + 1 .. p) \cup {p + 1} /\ n \in 1 .. p + 1 /\ \A m \in n + 1 .. p : m \in 1 .. p
      BY <1>3
    <3>2. n \in LastOf(made2) <=> \A m \in (n + 1 .. p) \cup {p + 1} : made2[m].swarm # made2[n].swarm
      BY <1>8, <3>1 DEF LastOf
    <3>3. n \in LastOf(made) <=> \A m \in n + 1 .. p : made[m].swarm # made[n].swarm
      BY <1>3 DEF LastOf
    <3> QED
      BY <1>8, <3>1, <3>2, <3>3
  <2>3. \A n : n \in LastOf(made2) => n \in 1 .. p \/ n = p + 1
    BY <1>3, <1>8 DEF LastOf
  <2>4. \A n : n \in LastOf(made) => n \in 1 .. p
    BY <1>3 DEF LastOf
  <2> QED
    BY ONLY <2>1, <2>2, <2>3, <2>4
<1> DEFINE f == [k \in 1 .. h + 1 |-> IF k = h + 1 THEN p + 1 ELSE g[e[k]]]
<1>12. f[h + 1] = p + 1 /\ \A k \in 1 .. h : f[k] = g[e[k]] /\ f[k] \in 1 .. p
  <2>1. h + 1 \in 1 .. h + 1 /\ \A k \in 1 .. h : k \in 1 .. h + 1 /\ k # h + 1
    BY <1>6
  <2>2. \A k \in 1 .. h : g[e[k]] \in 1 .. p
    BY <1>9, <1>10
  <2> QED
    BY <2>1, <2>2
<1>13. f \in [1 .. h + 1 -> 1 .. p + 1]
  BY <1>3, <1>6, <1>9, <1>10
<1> HIDE DEF f
<1>14. Rising(f, h + 1)
  <2> SUFFICES ASSUME NEW j \in 1 .. h + 1, NEW k \in 1 .. h + 1, j < k PROVE f[j] < f[k]
    BY DEF Rising
  <2>1. j \in 1 .. h
    BY <1>6
  <2>2. CASE k = h + 1
    BY <1>3, <1>12, <2>1, <2>2
  <2>3. CASE k # h + 1
    <3>1. k \in 1 .. h
      BY <1>6, <2>3
    <3>2. e[j] < e[k] /\ e[j] \in 1 .. l /\ e[k] \in 1 .. l
      BY <1>9, <2>1, <3>1 DEF Rising
    <3>3. g[e[j]] < g[e[k]]
      BY <1>10, <3>2 DEF Rising
    <3> QED
      BY <1>12, <2>1, <3>1, <3>3
  <2> QED
    BY <2>2, <2>3
<1>15. ASSUME NEW k \in 1 .. h + 1 PROVE f[k] \in LastOf(made2) /\ rows2[k] = RowOf(made2[f[k]])
  <2>1. CASE k = h + 1
    BY <1>7, <1>8, <1>11, <1>12, <2>1
  <2>2. CASE k # h + 1
    <3>1. k \in 1 .. h
      BY <1>6, <2>2
    <3>2. PICK i : i = e[k]
      OBVIOUS
    <3>3. i \in 1 .. l /\ rows2[k] = rows[i] /\ rows[i].swarm # a.swarm /\ f[k] = g[i] /\ f[k] \in 1 .. p
      BY <1>7, <1>9, <1>12, <3>1, <3>2
    <3>4. g[i] \in LastOf(made) /\ rows[i] = RowOf(made[g[i]]) /\ rows[i].swarm = made[g[i]].swarm
      BY <1>4, <1>10, <3>3
    <3> QED
      BY <1>8, <1>11, <3>3, <3>4
  <2> QED
    BY <2>1, <2>2
<1>16. ASSUME NEW n \in LastOf(made2) PROVE \E k \in 1 .. h + 1 : f[k] = n
  <2>1. CASE n = p + 1
    <3>1. h + 1 \in 1 .. h + 1
      BY <1>6
    <3> QED
      BY <1>12, <2>1, <3>1
  <2>2. CASE n \in LastOf(made) /\ made[n].swarm # a.swarm
    <3>1. PICK i \in 1 .. l : g[i] = n
      BY <1>10, <2>2
    <3>2. rows[i].swarm # a.swarm
      BY <1>4, <2>2, <3>1
    <3>3. PICK k \in 1 .. h : e[k] = i
      BY <1>9, <3>2
    <3>4. k \in 1 .. h + 1
      BY <1>6
    <3> QED
      BY <1>12, <3>1, <3>3, <3>4
  <2> QED
    BY <1>11, <2>1, <2>2
<1>17. Madeof(rows2, made2, f)
  BY ONLY <1>7, <1>8, <1>13, <1>14, <1>15, <1>16 DEF Madeof
<1> QED
  BY ONLY <1>7, <1>8, <1>17 DEF Remembered

(* The history, the newest first, tells of the swarms analyzed last.       *)
After(made, n) == {m \in LastOf(made) : m > n}
NewestOf(made, few) == {n \in LastOf(made) : Cardinality(After(made, n)) < few}
Recalls(history, made, few, h) ==
  /\ h \in [1 .. Len(history) -> NewestOf(made, few)]
  /\ \A k \in 1 .. Len(history) : history[k] = RowOf(made[h[k]])
  /\ \A j, k \in 1 .. Len(history) : j < k => h[j] > h[k]
  /\ \A n \in NewestOf(made, few) : \E k \in 1 .. Len(history) : h[k] = n
Listing(history, most) == Len(history) \in Nat /\ Len(history) <= most /\ DOMAIN history = 1 .. Len(history)

LEMMA NewerRows ==
  ASSUME NEW made, made \in Seq(Analyzed), NEW rows, rows \in Seq(Rows), NEW g, Madeof(rows, made, g),
         NEW k, k \in 1 .. Len(rows)
  PROVE  Cardinality(After(made, g[k])) = Len(rows) - k
<1>1. PICK l, p : l \in Nat /\ p \in Nat /\ l = Len(rows) /\ p = Len(made)
  <2>1. Len(rows) \in Nat /\ Len(made) \in Nat
    OBVIOUS
  <2> QED
    BY <2>1
<1>2. /\ g \in [1 .. l -> 1 .. p] /\ Rising(g, l)
      /\ \A j \in 1 .. l : g[j] \in LastOf(made)
      /\ \A n \in LastOf(made) : \E j \in 1 .. l : g[j] = n
  BY ONLY <1>1, Madeof(rows, made, g) DEF Madeof
<1>3. PICK S, T : S = k + 1 .. l /\ T = After(made, g[k])
  OBVIOUS
<1> DEFINE f == [j \in S |-> g[j]]
<1>4. \A j \in S : j \in 1 .. l /\ j > k
  BY <1>1, <1>3
<1>5. \A j \in S : g[j] \in T
  BY <1>1, <1>2, <1>3, <1>4 DEF Rising, After
<1>6. \A j \in 1 .. l : g[j] > g[k] => j \in S
  <2> SUFFICES ASSUME NEW j \in 1 .. l, g[j] > g[k], ~(j > k) PROVE FALSE
    BY <1>1, <1>3
  <2>1. j < k \/ j = k
    BY <1>1
  <2>2. g[j] < g[k] \/ g[j] = g[k]
    BY <1>1, <1>2, <2>1 DEF Rising
  <2>3. g[j] \in 1 .. p /\ g[k] \in 1 .. p
    BY <1>1, <1>2
  <2> QED
    BY <1>1, <2>2, <2>3
<1>7. \A t \in T : \E j \in S : g[j] = t
  BY <1>2, <1>3, <1>6 DEF After
<1>8. \A i, j \in S : g[i] = g[j] => i = j
  <2> SUFFICES ASSUME NEW i \in S, NEW j \in S, g[i] = g[j], i # j PROVE FALSE
    OBVIOUS
  <2>1. i \in 1 .. l /\ j \in 1 .. l /\ g[i] \in 1 .. p /\ g[j] \in 1 .. p
    BY <1>2, <1>4
  <2>2. i < j \/ j < i
    BY <1>1, <2>1
  <2>3. g[i] < g[j] \/ g[j] < g[i]
    BY <1>2, <2>1, <2>2 DEF Rising
  <2> QED
    BY <1>1, <2>1, <2>3
<1>9. ExistsBijection(S, T)
  <2>1. f \in [S -> T] /\ \A j \in S : f[j] = g[j]
    BY <1>5
  <2> HIDE DEF f
  <2>2. IsInjective(f)
    BY <1>8, <2>1 DEF IsInjective
  <2>3. f \in Injection(S, T) /\ f \in Surjection(S, T)
    BY ONLY <1>7, <2>1, <2>2 DEF Injection, Surjection
  <2> QED
    BY <2>3 DEF ExistsBijection, Bijection
<1>10. IsFiniteSet(S) /\ Cardinality(S) = l - k
  <2>1. k \in Nat /\ k <= l /\ k + 1 \in Int /\ l \in Int
    BY <1>1
  <2>2. IsFiniteSet(S) /\ Cardinality(S) = IF k + 1 > l THEN 0 ELSE l - (k + 1) + 1
    BY <1>3, <2>1, FS_Interval
  <2> QED
    BY <2>1, <2>2
<1>11. Cardinality(T) = Cardinality(S)
  BY <1>9, <1>10, FS_Bijection
<1> QED
  BY <1>1, <1>3, <1>10, <1>11

LEMMA HistoryIs ==
  ASSUME NEW made, NEW rows, Remembered(rows, made), NEW few, few \in Nat,
         NEW history, history = FirstFew(Reverse(rows), few)
  PROVE  Listing(history, few) /\ \E h : Recalls(history, made, few, h)
<1>1. made \in Seq(Analyzed) /\ rows \in Seq(Rows)
  BY DEF Remembered
<1>2. PICK g : Madeof(rows, made, g)
  BY DEF Remembered
<1>3. PICK l, p : l \in Nat /\ p \in Nat /\ l = Len(rows) /\ p = Len(made)
  <2>1. Len(rows) \in Nat /\ Len(made) \in Nat
    BY <1>1
  <2> QED
    BY <2>1
<1>4. /\ g \in [1 .. l -> 1 .. p] /\ Rising(g, l)
      /\ \A k \in 1 .. l : g[k] \in LastOf(made) /\ rows[k] = RowOf(made[g[k]])
      /\ \A n \in LastOf(made) : \E k \in 1 .. l : g[k] = n
  BY ONLY <1>2, <1>3 DEF Madeof
<1>5. PICK back : back = Reverse(rows)
  OBVIOUS
<1>6. back \in Seq(Rows) /\ Len(back) = l /\ \A k \in 1 .. l : back[k] = rows[l + 1 - k]
  <2>1. \A k \in 1 .. l : l - k + 1 \in 1 .. l /\ l - k + 1 = l + 1 - k
    BY <1>3
  <2>2. \A k \in 1 .. l : rows[k] \in Rows
    BY <1>1, <1>3
  <2>3. back = [k \in 1 .. l |-> rows[l - k + 1]]
    BY <1>3, <1>5 DEF Reverse
  <2>4. back \in [1 .. l -> Rows] /\ \A k \in 1 .. l : back[k] = rows[l + 1 - k]
    BY <2>1, <2>2, <2>3
  <2> QED
    BY <1>3, <2>4
<1>7. PICK n : n = IF l < few THEN l ELSE few
  OBVIOUS
<1>8. n \in Nat /\ n <= few /\ n <= l
  BY <1>3, <1>7
<1>9. history = SubSeq(back, 1, n)
  BY <1>5, <1>6, <1>7 DEF FirstFew
<1>10. Len(history) = n /\ DOMAIN history = 1 .. n /\ \A k \in 1 .. n : history[k] = back[k]
  BY <1>3, <1>6, <1>8, <1>9
<1> DEFINE h == [k \in 1 .. n |-> g[l + 1 - k]]
<1>11. \A k \in 1 .. n : l + 1 - k \in 1 .. l /\ k \in 1 .. l
  BY <1>3, <1>8
<1>12. \A k \in 1 .. n : h[k] = g[l + 1 - k] /\ history[k] = rows[l + 1 - k]
  BY <1>6, <1>10, <1>11
<1>13. DOMAIN h = 1 .. n /\ h = [k \in 1 .. n |-> h[k]]
  OBVIOUS
<1> HIDE DEF h
<1>14. \A k \in 1 .. l : Cardinality(After(made, g[k])) = l - k
  BY <1>1, <1>2, <1>3, NewerRows
<1>15. \A k \in 1 .. n : h[k] \in NewestOf(made, few) /\ history[k] = RowOf(made[h[k]])
  <2> SUFFICES ASSUME NEW k \in 1 .. n PROVE h[k] \in NewestOf(made, few) /\ history[k] = RowOf(made[h[k]])
    OBVIOUS
  <2>1. PICK i : i \in 1 .. l /\ i = l + 1 - k
    BY <1>11
  <2>2. h[k] = g[i] /\ history[k] = rows[i] /\ g[i] \in LastOf(made) /\ rows[i] = RowOf(made[g[i]])
    BY <1>4, <1>12, <2>1
  <2>3. l - i < few
    BY <1>3, <1>8, <2>1
  <2>4. Cardinality(After(made, g[i])) < few
    BY <1>14, <2>1, <2>3
  <2> QED
    BY <2>2, <2>4 DEF NewestOf
<1>16. \A j, k \in 1 .. n : j < k => h[j] > h[k]
  <2> SUFFICES ASSUME NEW j \in 1 .. n, NEW k \in 1 .. n, j < k PROVE h[j] > h[k]
    OBVIOUS
  <2>1. l + 1 - k \in 1 .. l /\ l + 1 - j \in 1 .. l /\ l + 1 - k < l + 1 - j
    BY <1>3, <1>8, <1>11
  <2>2. g[l + 1 - k] < g[l + 1 - j] /\ g[l + 1 - k] \in 1 .. p /\ g[l + 1 - j] \in 1 .. p
    BY <1>4, <2>1 DEF Rising
  <2> QED
    BY <1>3, <1>12, <2>2
<1>17. \A t \in NewestOf(made, few) : \E k \in 1 .. n : h[k] = t
  <2> SUFFICES ASSUME NEW t \in NewestOf(made, few) PROVE \E k \in 1 .. n : h[k] = t
    OBVIOUS
  <2>1. t \in LastOf(made) /\ Cardinality(After(made, t)) < few
    BY DEF NewestOf
  <2>2. PICK i \in 1 .. l : g[i] = t
    BY <1>4, <2>1
  <2>3. l - i < few
    BY <1>14, <2>1, <2>2
  <2>4. l + 1 - i \in 1 .. n /\ l + 1 - (l + 1 - i) = i
    BY <1>3, <1>7, <2>3
  <2> QED
    BY <1>12, <2>2, <2>4
<1>18. h \in [1 .. n -> NewestOf(made, few)]
  BY <1>13, <1>15
<1>19. Recalls(history, made, few, h)
  BY ONLY <1>10, <1>15, <1>16, <1>17, <1>18 DEF Recalls
<1>20. Listing(history, few)
  BY <1>8, <1>10 DEF Listing
<1> QED
  BY <1>19, <1>20

(* As many places of the history as analyses.                              *)
Falling(h, n) == \A j, k \in 1 .. n : j < k => h[j] > h[k]
OneToOne(h, n, T) ==
  n \in Nat /\ T \in SUBSET Nat /\ h \in [1 .. n -> T] /\ Falling(h, n) /\ \A t \in T : \E k \in 1 .. n : h[k] = t
Carries(h, n, T, A, B) == A \in SUBSET (1 .. n) /\ B \in SUBSET T /\ \A k \in 1 .. n : k \in A <=> h[k] \in B
LEMMA AsManyPlaces ==
  ASSUME NEW n, NEW T, NEW h, OneToOne(h, n, T), NEW A, NEW B, Carries(h, n, T, A, B)
  PROVE  IsFiniteSet(A) /\ Cardinality(B) = Cardinality(A) /\ Cardinality(A) \in Nat
<1> USE DEF OneToOne, Carries
<1> DEFINE f == [k \in A |-> h[k]]
<1>1. f \in [A -> B] /\ \A k \in A : f[k] = h[k]
  OBVIOUS
<1>2. \A t \in B : \E k \in A : f[k] = t
  <2> SUFFICES ASSUME NEW t \in B PROVE \E k \in A : f[k] = t
    OBVIOUS
  <2>1. PICK k \in 1 .. n : h[k] = t
    OBVIOUS
  <2>2. k \in A
    BY <2>1
  <2> QED
    BY <2>1, <2>2
<1>3. \A i, j \in A : f[i] = f[j] => i = j
  <2> SUFFICES ASSUME NEW i \in A, NEW j \in A, h[i] = h[j], i # j PROVE FALSE
    OBVIOUS
  <2>1. i \in 1 .. n /\ j \in 1 .. n /\ h[i] \in Nat /\ h[j] \in Nat
    OBVIOUS
  <2>2. h[i] > h[j] \/ h[j] > h[i]
    BY <2>1 DEF Falling
  <2> QED
    BY <2>1, <2>2
<1> HIDE DEF f
<1>4. ExistsBijection(A, B)
  <2>1. IsInjective(f)
    BY <1>1, <1>3 DEF IsInjective
  <2>2. f \in Injection(A, B) /\ f \in Surjection(A, B)
    BY ONLY <1>1, <1>2, <2>1 DEF Injection, Surjection
  <2> QED
    BY <2>2 DEF ExistsBijection, Bijection
<1>5. IsFiniteSet(A)
  <2>1. 1 \in Int /\ n \in Int
    OBVIOUS
  <2>2. IsFiniteSet(1 .. n)
    BY <2>1, FS_Interval
  <2> QED
    BY <2>2, FS_Subset
<1> QED
  BY <1>4, <1>5, FS_Bijection, FS_CardinalityType

Shown(a) == KindsIn(a.health.bottlenecks) \cup KindsIn(a.health.incidents)
Showing(made, kind) == {n \in NewestOf(made, 100) : kind \in Shown(made[n])}
PatternsRight(made, found) ==
  /\ \A p \in found : /\ Cardinality(Showing(made, p.kind)) >= 2
                       /\ p.frequency = Share(Cardinality(Showing(made, p.kind)), Cardinality(NewestOf(made, 100)))
  /\ Cardinality(NewestOf(made, 100)) >= 5 => \A n \in NewestOf(made, 100) : \A kind \in Shown(made[n]) :
       Cardinality(Showing(made, kind)) >= 2 => \E p \in found : p.kind = kind

LEMMA PatternsAre ==
  ASSUME NEW made, NEW history, Listing(history, 100), NEW h, Recalls(history, made, 100, h),
         NEW found, found = FindRecurringPatterns(history)
  PROVE  PatternsRight(made, found)
<1> DEFINE kinds(n) == history[n].bottlenecks \cup history[n].incidents
           of(kind) == Cardinality({n \in DOMAIN history : kind \in kinds(n)})
           recurring == {k \in UNION {kinds(n) : n \in DOMAIN history} : of(k) >= 2}
<1>1. PICK l : l \in Nat /\ l = Len(history) /\ DOMAIN history = 1 .. l
  BY DEF Listing
<1>2. PICK T : T = NewestOf(made, 100)
  OBVIOUS
<1>3. T \in SUBSET Nat
  BY <1>2 DEF NewestOf, LastOf
<1>4. /\ h \in [1 .. l -> T] /\ Falling(h, l) /\ \A t \in T : \E k \in 1 .. l : h[k] = t
      /\ \A k \in 1 .. l : history[k] = RowOf(made[h[k]])
  BY ONLY <1>1, <1>2, Recalls(history, made, 100, h) DEF Recalls, Falling
<1>0. OneToOne(h, l, T)
  BY ONLY <1>1, <1>3, <1>4 DEF OneToOne
<1>5. \A k \in 1 .. l : kinds(k) = Shown(made[h[k]])
  BY <1>4, RowIs DEF Shown
<1>6. Cardinality(T) = l
  <2>1. PICK A : A = 1 .. l
    OBVIOUS
  <2>2. Cardinality(T) = Cardinality(A)
    <3>1. Carries(h, l, T, A, T)
      BY <1>4, <2>1 DEF Carries
    <3> QED
      BY ONLY <1>0, <3>1, AsManyPlaces
  <2>3. 1 \in Int /\ l \in Int
    BY <1>1
  <2>4. Cardinality(A) = IF 1 > l THEN 0 ELSE l - 1 + 1
    BY <2>1, <2>3, FS_Interval
  <2> QED
    BY <1>1, <2>2, <2>4
<1>7. ASSUME NEW kind PROVE of(kind) = Cardinality(Showing(made, kind))
  <2>1. PICK A, B : A = {n \in 1 .. l : kind \in kinds(n)} /\ B = Showing(made, kind)
    OBVIOUS
  <2>2. A \in SUBSET (1 .. l) /\ B \in SUBSET T
    BY <1>2, <2>1 DEF Showing
  <2>3. \A k \in 1 .. l : k \in A <=> h[k] \in B
    <3> SUFFICES ASSUME NEW k \in 1 .. l PROVE k \in A <=> h[k] \in B
      OBVIOUS
    <3>1. k \in A <=> kind \in Shown(made[h[k]])
      BY <1>5, <2>1
    <3>2. h[k] \in T
      BY <1>4
    <3> QED
      BY <1>2, <2>1, <3>1, <3>2 DEF Showing
  <2>4. Carries(h, l, T, A, B)
    BY ONLY <2>2, <2>3 DEF Carries
  <2>5. Cardinality(B) = Cardinality(A)
    BY ONLY <1>0, <2>4, AsManyPlaces
  <2> QED
    BY <1>1, <2>1, <2>5
<1>8. found = IF l < 5 THEN {} ELSE {[kind |-> k, frequency |-> Share(of(k), l)] : k \in recurring}
  BY <1>1 DEF FindRecurringPatterns
<1>9. ASSUME NEW x \in found
      PROVE  /\ Cardinality(Showing(made, x.kind)) >= 2
             /\ x.frequency = Share(Cardinality(Showing(made, x.kind)), Cardinality(T))
  <2>1. PICK k \in recurring : x = [kind |-> k, frequency |-> Share(of(k), l)]
    BY <1>8, <1>9
  <2>2. of(k) >= 2 /\ x.kind = k /\ x.frequency = Share(of(k), l)
    BY <2>1
  <2> HIDE DEF of
  <2> QED
    BY <1>6, <1>7, <2>2
<1>10. ASSUME Cardinality(T) >= 5, NEW n \in T, NEW kind \in Shown(made[n]), Cardinality(Showing(made, kind)) >= 2
       PROVE  \E x \in found : x.kind = kind
  <2>1. PICK k \in 1 .. l : h[k] = n
    BY <1>4
  <2>2. kind \in kinds(k)
    BY <1>5, <1>10, <2>1
  <2>3. kind \in recurring
    <3>1. of(kind) >= 2
      BY <1>7, <1>10
    <3>2. kind \in UNION {kinds(j) : j \in DOMAIN history}
      BY <1>1, <2>1, <2>2
    <3> HIDE DEF of, kinds
    <3> QED
      BY <3>1, <3>2
  <2>4. ~(l < 5)
    BY <1>1, <1>6, <1>10
  <2> HIDE DEF recurring, of
  <2>5. PICK x : x = [kind |-> kind, frequency |-> Share(of(kind), l)]
    OBVIOUS
  <2>6. x \in found /\ x.kind = kind
    BY <1>8, <2>3, <2>4, <2>5
  <2> QED
    BY <2>6
<1> HIDE DEF kinds, of, recurring
<1> QED
  BY <1>2, <1>9, <1>10 DEF PatternsRight



(* The newer half of a list that never falls is no less by its mean, that  *)
(* of one that never rises no more; a change of the means has their sign.  *)
LEMMA Halves ==
  ASSUME NEW p, p \in Int, NEW r, r \in Int, NEW h, h \in Nat, NEW q, q \in Nat, NEW v, v \in Int
  PROVE  /\ p <= h * v /\ r >= q * v => r * h - p * q >= 0
         /\ p >= h * v /\ r <= q * v => r * h - p * q <= 0
<1>1. \A a, b \in Int, c \in Nat : a <= b => a * c <= b * c /\ a * c \in Int /\ b * c \in Int
  OBVIOUS
<1>2. (h * v) * q = (q * v) * h /\ h * v \in Int /\ q * v \in Int /\ (h * v) * q \in Int /\ r * h \in Int /\ p * q \in Int
  OBVIOUS
<1>3. p <= h * v /\ r >= q * v => r * h - p * q >= 0
  <2> SUFFICES ASSUME p <= h * v, q * v <= r PROVE r * h - p * q >= 0
    BY <1>2
  <2>1. p * q <= (h * v) * q /\ (q * v) * h <= r * h
    BY <1>1, <1>2
  <2> QED
    BY ONLY <1>2, <2>1
<1>4. p >= h * v /\ r <= q * v => r * h - p * q <= 0
  <2> SUFFICES ASSUME h * v <= p, r <= q * v PROVE r * h - p * q <= 0
    BY <1>2
  <2>1. (h * v) * q <= p * q /\ r * h <= (q * v) * h
    BY <1>1, <1>2
  <2> QED
    BY ONLY <1>2, <2>1
<1> QED
  BY <1>3, <1>4

LEMMA ChangeSign ==
  ASSUME NEW x, x \in Int, NEW p, p \in Nat, NEW q, q \in Nat \ {0},
         NEW change, change = IF p = 0 THEN 0 ELSE (100 * x) \div (p * q)
  PROVE  change \in Int /\ (x >= 0 => change >= 0) /\ (x <= 0 => change <= 0)
<1>1. CASE p = 0
  BY <1>1
<1>2. CASE p # 0
  <2>1. PICK d : d = p * q
    OBVIOUS
  <2>2. d \in Nat \ {0}
    BY <1>2, <2>1
  <2>3. 100 * x \in Int /\ change = (100 * x) \div d
    BY <1>2, <2>1
  <2>4. (100 * x) \div d \in Int /\ \A b \in Int : 100 * x <= b => (100 * x) \div d <= b \div d
    BY <2>2, <2>3, Whole
  <2>5. 0 \div d = 0 /\ \A b \in Int : 0 <= b => 0 \div d <= b \div d
    <3>1. 0 \in Int
      OBVIOUS
    <3>2. \A b \in Int : 0 <= b => 0 \div d <= b \div d
      BY ONLY <2>2, <3>1, Whole
    <3>3. 0 \div d = 0
      BY <2>2
    <3> QED
      BY <3>2, <3>3
  <2> QED
    BY ONLY <2>3, <2>4, <2>5, x \in Int
<1> QED
  BY <1>1, <1>2

LEMMA TrendIs ==
  ASSUME NEW n, n \in Nat, n >= 2, NEW rows, Len(rows) = n, \A k \in 1 .. n : rows[k].health \in Nat,
         NEW t, t = TrendNewestFirst("health", rows)
  PROVE  /\ (\A j, k \in 1 .. n : j < k => rows[j].health <= rows[k].health) => t.direction # "degrading"
         /\ (\A j, k \in 1 .. n : j < k => rows[j].health >= rows[k].health) => t.direction # "improving"
<1>1. PICK h : h = n \div 2
  OBVIOUS
<1>2. h \in Nat \ {0} /\ h <= n /\ n - h \in Nat \ {0}
  BY <1>1
<1>3. PICK older, newer : /\ older = [k \in 1 .. h |-> rows[k].health]
                          /\ newer = [k \in 1 .. n - h |-> rows[k + h].health]
  OBVIOUS
<1>4. PICK prior, recent : prior = SumOf(older) /\ recent = SumOf(newer)
  OBVIOUS
<1>5. PICK change : change = IF prior = 0 THEN 0
                             ELSE (100 * (recent * h - prior * (n - h))) \div (prior * (n - h))
  OBVIOUS
<1>6. t.direction = IF change > 5 THEN "improving" ELSE IF change < -5 THEN "degrading" ELSE "stable"
  BY <1>1, <1>3, <1>4, <1>5 DEF TrendNewestFirst
<1>7. /\ DOMAIN older = 1 .. h /\ \A k \in 1 .. h : older[k] = rows[k].health /\ older[k] \in Nat /\ k \in 1 .. n
      /\ DOMAIN newer = 1 .. n - h
      /\ \A k \in 1 .. n - h : newer[k] = rows[k + h].health /\ newer[k] \in Nat /\ k + h \in 1 .. n
  <2>1. \A k \in 1 .. h : k \in 1 .. n
    BY <1>2
  <2>2. \A k \in 1 .. n - h : k + h \in 1 .. n
    BY <1>2
  <2> QED
    BY <1>3, <2>1, <2>2
<1>8. PICK v : v = rows[h].health
  OBVIOUS
<1>9. v \in Int /\ h \in 1 .. n
  BY <1>2, <1>8
<1>10. /\ prior \in Int
       /\ (\A k \in 1 .. h : older[k] <= v) => prior <= h * v
       /\ (\A k \in 1 .. h : older[k] >= v) => prior >= h * v
  <2>1. h \in Nat /\ DOMAIN older = 1 .. h /\ \A k \in 1 .. h : older[k] \in Int
    BY <1>2, <1>7
  <2> QED
    BY ONLY <1>4, <1>9, <2>1, SumBounds
<1>11. prior \in Nat
  <2>1. h \in Nat /\ DOMAIN older = 1 .. h /\ (\A k \in 1 .. h : older[k] \in Int) /\ \A k \in 1 .. h : older[k] >= 0
    BY <1>2, <1>7
  <2>2. 0 \in Int
    OBVIOUS
  <2>3. prior >= h * 0
    BY ONLY <1>4, <2>1, <2>2, SumBounds
  <2> QED
    BY <1>2, <1>10, <2>3
<1>12. /\ recent \in Int
       /\ (\A k \in 1 .. n - h : newer[k] <= v) => recent <= (n - h) * v
       /\ (\A k \in 1 .. n - h : newer[k] >= v) => recent >= (n - h) * v
  <2>1. PICK q : q = n - h
    OBVIOUS
  <2>2. q \in Nat /\ DOMAIN newer = 1 .. q /\ \A k \in 1 .. q : newer[k] \in Int
    BY <1>2, <1>7, <2>1
  <2>3. /\ recent \in Int
        /\ (\A k \in 1 .. q : newer[k] <= v) => recent <= q * v
        /\ (\A k \in 1 .. q : newer[k] >= v) => recent >= q * v
    BY ONLY <1>4, <1>9, <2>2, SumBounds
  <2> QED
    BY <2>1, <2>3
<1>13. PICK x : x = recent * h - prior * (n - h)
  OBVIOUS
<1>14. x \in Int
  BY <1>2, <1>10, <1>12, <1>13
<1>15. change \in Int /\ (x >= 0 => change >= 0) /\ (x <= 0 => change <= 0)
  <2>1. PICK q : q = n - h
    OBVIOUS
  <2>2. q \in Nat \ {0} /\ change = IF prior = 0 THEN 0 ELSE (100 * x) \div (prior * q)
    BY <1>2, <1>5, <1>13, <2>1
  <2> QED
    BY ONLY <1>11, <1>14, <2>2, ChangeSign
<1>16. /\ prior <= h * v /\ recent >= (n - h) * v => x >= 0
       /\ prior >= h * v /\ recent <= (n - h) * v => x <= 0
  <2>1. PICK q : q = n - h
    OBVIOUS
  <2>2. q \in Nat /\ h \in Nat
    BY <1>2, <2>1
  <2>3. /\ prior <= h * v /\ recent >= q * v => recent * h - prior * q >= 0
        /\ prior >= h * v /\ recent <= q * v => recent * h - prior * q <= 0
    <3>1. prior \in Int /\ recent \in Int /\ v \in Int
      BY <1>9, <1>10, <1>12
    <3> QED
      BY ONLY <2>2, <3>1, Halves
  <2> QED
    BY <1>13, <2>1, <2>3
<1>17. ASSUME \A j, k \in 1 .. n : j < k => rows[j].health <= rows[k].health PROVE t.direction # "degrading"
  <2>1. \A k \in 1 .. h : older[k] <= v
    <3> SUFFICES ASSUME NEW k \in 1 .. h PROVE older[k] <= v
      OBVIOUS
    <3>1. k < h \/ k = h
      BY <1>2
    <3> QED
      BY <1>7, <1>8, <1>9, <1>17, <3>1
  <2>2. \A k \in 1 .. n - h : newer[k] >= v
    <3> SUFFICES ASSUME NEW k \in 1 .. n - h PROVE newer[k] >= v
      OBVIOUS
    <3>1. h < k + h /\ k + h \in 1 .. n
      BY <1>2, <1>7
    <3>2. rows[h].health <= rows[k + h].health
      BY <1>9, <1>17, <3>1
    <3> QED
      BY <1>7, <1>8, <1>9, <3>2
  <2>3. change >= 0
    BY <1>10, <1>12, <1>15, <1>16, <2>1, <2>2
  <2> QED
    BY <1>6, <1>15, <2>3
<1>18. ASSUME \A j, k \in 1 .. n : j < k => rows[j].health >= rows[k].health PROVE t.direction # "improving"
  <2>1. \A k \in 1 .. h : older[k] >= v
    <3> SUFFICES ASSUME NEW k \in 1 .. h PROVE older[k] >= v
      OBVIOUS
    <3>1. k < h \/ k = h
      BY <1>2
    <3> QED
      BY <1>7, <1>8, <1>9, <1>18, <3>1
  <2>2. \A k \in 1 .. n - h : newer[k] <= v
    <3> SUFFICES ASSUME NEW k \in 1 .. n - h PROVE newer[k] <= v
      OBVIOUS
    <3>1. h < k + h /\ k + h \in 1 .. n
      BY <1>2, <1>7
    <3>2. rows[h].health >= rows[k + h].health
      BY <1>9, <1>18, <3>1
    <3> QED
      BY <1>7, <1>8, <1>9, <3>2
  <2>3. change <= 0
    BY <1>10, <1>12, <1>15, <1>16, <2>1, <2>2
  <2> QED
    BY <1>6, <1>15, <2>3
<1> QED
  BY <1>17, <1>18

Overall(made, n) == made[n].health.overall
TrendsRight(made, found) ==
  \A t \in ToSet(found) : t.metric = "health" =>
    /\ (\A m, n \in NewestOf(made, 20) : m < n => Overall(made, m) <= Overall(made, n)) => t.direction # "degrading"
    /\ (\A m, n \in NewestOf(made, 20) : m < n => Overall(made, m) >= Overall(made, n)) => t.direction # "improving"

LEMMA HealthIs == \A a \in Analyzed : a.health.overall \in Nat
<1> SUFFICES ASSUME NEW w \in Windows PROVE Healths[w].overall \in Nat
  BY DEF Analyzed
<1>1. \A n : Clamp(n) \in 0 .. 1000
  BY DEF Clamp
<1>2. \E n : Healths[w].overall = Clamp(n)
  BY DEF Healths, HealthReport, ReportOf
<1> QED
  BY <1>1, <1>2

LEMMA TrendsAre ==
  ASSUME NEW made, made \in Seq(Analyzed), NEW history, Listing(history, 20), NEW h, Recalls(history, made, 20, h),
         NEW found, found = ComputeTrends(history)
  PROVE  TrendsRight(made, found)
<1>1. PICK l : l \in Nat /\ l = Len(history) /\ DOMAIN history = 1 .. l
  BY DEF Listing
<1>2. PICK T : T = NewestOf(made, 20)
  OBVIOUS
<1>3. /\ h \in [1 .. l -> T] /\ \A j, k \in 1 .. l : j < k => h[j] > h[k]
      /\ \A k \in 1 .. l : history[k] = RowOf(made[h[k]])
  BY ONLY <1>1, <1>2, Recalls(history, made, 20, h) DEF Recalls
<1>4. T \in SUBSET (1 .. Len(made))
  BY <1>2 DEF NewestOf, LastOf
<1>5. \A t \in T : Overall(made, t) \in Nat /\ t \in Nat
  <2>1. \A t \in T : made[t] \in Analyzed /\ t \in Nat
    BY <1>4
  <2> QED
    BY <2>1, HealthIs DEF Overall
<1>6. PICK back : back = Reverse(history)
  OBVIOUS
<1>7. \A k \in 1 .. l : l - k + 1 \in 1 .. l
  BY <1>1
<1>8. Len(back) = l /\ \A k \in 1 .. l : back[k].health = Overall(made, h[l - k + 1])
  <2>1. back = [k \in 1 .. l |-> history[l - k + 1]]
    BY <1>1, <1>6 DEF Reverse
  <2>2. \A k \in 1 .. l : history[k].health = Overall(made, h[k])
    BY <1>3, RowIs DEF Overall
  <2> QED
    BY <1>1, <1>7, <2>1, <2>2
<1>9. \A k \in 1 .. l : back[k].health \in Nat
  BY <1>3, <1>5, <1>7, <1>8
<1>10. \A j, k \in 1 .. l : j < k => /\ h[l - j + 1] \in T /\ h[l - k + 1] \in T /\ h[l - j + 1] < h[l - k + 1]
                                     /\ back[j].health = Overall(made, h[l - j + 1])
                                     /\ back[k].health = Overall(made, h[l - k + 1])
  <2> SUFFICES ASSUME NEW j \in 1 .. l, NEW k \in 1 .. l, j < k
               PROVE  h[l - j + 1] \in T /\ h[l - k + 1] \in T /\ h[l - j + 1] < h[l - k + 1]
    BY <1>8
  <2>1. l - j + 1 \in 1 .. l /\ l - k + 1 \in 1 .. l /\ l - k + 1 < l - j + 1
    BY <1>1, <1>7
  <2>2. h[l - j + 1] \in T /\ h[l - k + 1] \in T /\ h[l - k + 1] > h[l - j + 1]
    BY <1>3, <2>1
  <2> QED
    BY <1>5, <2>2
<1>11. SUFFICES ASSUME NEW t \in ToSet(found), t.metric = "health"
                PROVE  /\ (\A m, n \in T : m < n => Overall(made, m) <= Overall(made, n)) => t.direction # "degrading"
                       /\ (\A m, n \in T : m < n => Overall(made, m) >= Overall(made, n)) => t.direction # "improving"
  BY <1>2 DEF TrendsRight
<1>12. l >= 4 /\ t = TrendNewestFirst("health", back)
  <2>1. PICK i \in DOMAIN found : t = found[i]
    BY DEF ToSet
  <2>2. ~(l < 4)
    BY <1>1, <2>1 DEF ComputeTrends
  <2>3. i \in DOMAIN Metrics /\ found[i] = TrendOf(Metrics[i], history)
    BY <1>1, <2>1, <2>2 DEF ComputeTrends, Each
  <2>4. \A m : TrendOf(m, history) = TrendNewestFirst(m, back) /\ TrendNewestFirst(m, back).metric = m
    BY <1>6 DEF TrendOf, TrendNewestFirst
  <2>5. PICK m : m = Metrics[i]
    OBVIOUS
  <2>6. t = TrendNewestFirst(m, back) /\ t.metric = m
    BY <2>1, <2>3, <2>4, <2>5
  <2> QED
    BY <1>1, <1>11, <2>2, <2>6
<1>13. /\ (\A j, k \in 1 .. l : j < k => back[j].health <= back[k].health) => t.direction # "degrading"
       /\ (\A j, k \in 1 .. l : j < k => back[j].health >= back[k].health) => t.direction # "improving"
  <2>1. l >= 2
    BY <1>1, <1>12
  <2> QED
    BY ONLY <1>1, <1>8, <1>9, <1>12, <2>1, TrendIs
<1>14. (\A m, n \in T : m < n => Overall(made, m) <= Overall(made, n)) =>
         \A j, k \in 1 .. l : j < k => back[j].health <= back[k].health
  BY ONLY <1>10
<1>15. (\A m, n \in T : m < n => Overall(made, m) >= Overall(made, n)) =>
         \A j, k \in 1 .. l : j < k => back[j].health >= back[k].health
  BY ONLY <1>10
<1> QED
  BY ONLY <1>13, <1>14, <1>15

-----------------------------------------------------------------------------
(* Memory: what is told follows the rows.                                  *)

LearningInv == Remembered(swarm_history, analyses) /\ MemoryFollowsSwarms

LEMMA NewestIs == ASSUME analyses \in Seq(Analyzed), NEW few PROVE Newest(few) = NewestOf(analyses, few)
<1>1. DOMAIN analyses = 1 .. Len(analyses)
  OBVIOUS
<1>2. LastOnes = LastOf(analyses)
  BY <1>1 DEF LastOnes, LastOf
<1> QED
  BY <1>2 DEF Newest, NewestOf, After

(* Nothing told, or something that is neither trends nor patterns.         *)
LEMMA NothingTold == reply = None => MemoryFollowsSwarms
BY DEF MemoryFollowsSwarms, PatternsCountSwarms, TrendsFollowTime, Replied

LearningStep ==
  \/ LearningNext \/ LearningRestart
  \/ UNCHANGED learning

LEMMA LearningSteps == [Next]_intelligence => LearningStep
BY Zenon DEF Next, intelligence, services, learning, LearningStep, LearningRestart, OversightRequest, PlanetaryRequest,
   StructureRequest, MemoryRequest, GovernorRequest, CollectiveRequest, InsightRequest, EvolutionRequest,
   LearningRequest, Restart

LEMMA RecordRemembers ==
  ASSUME LearningInv, NEW n \in DOMAIN Names, NEW w \in Windows, Record(Names[n], Healths[w])
  PROVE  LearningInv'
<1>1. PICK a : a = [swarm |-> Names[n], health |-> Healths[w]]
  OBVIOUS
<1>2. a \in Analyzed /\ RowOf(a) = Row(Names[n], Healths[w])
  BY <1>1 DEF Analyzed, RowOf, Range
<1>3. analyses' = Append(analyses, a) /\ swarm_history' = Replaced(swarm_history, RowOf(a)) /\ reply' = None
  BY <1>1, <1>2 DEF Record
<1>4. Remembered(swarm_history, analyses)
  BY DEF LearningInv
<1>5. PICK rows, made, rows2, made2 : /\ rows = swarm_history /\ made = analyses
                                      /\ rows2 = swarm_history' /\ made2 = analyses'
  OBVIOUS
<1>6. Remembered(rows2, made2)
  BY <1>2, <1>3, <1>4, <1>5, RecordKeeps
<1>7. MemoryFollowsSwarms'
  BY <1>3 DEF MemoryFollowsSwarms, PatternsCountSwarms, TrendsFollowTime, Replied
<1> QED
  BY <1>5, <1>6, <1>7 DEF LearningInv

LEMMA AnswerRemembers ==
  ASSUME LearningInv, NEW to, NEW found, Answer(to, found),
         to = "patterns" => PatternsRight(analyses, found), to = "trends" => TrendsRight(analyses, found)
  PROVE  LearningInv'
<1>1. PICK rows, made : rows = swarm_history /\ made = analyses
  OBVIOUS
<1>2. swarm_history' = rows /\ analyses' = made /\ Remembered(rows, made)
  BY <1>1 DEF Answer, LearningInv
<1>3. PICK told : told = reply'
  OBVIOUS
<1>4. told = [to |-> to, answer |-> found]
  BY <1>3 DEF Answer
<1>5. told.to = to /\ told.answer = found
  BY <1>4
<1>6. LastOnes' = LastOf(made)
  <2>1. DOMAIN made = 1 .. Len(made)
    BY <1>2 DEF Remembered
  <2> QED
    BY <1>2, <2>1 DEF LastOnes, LastOf
<1>7. Newest(100)' = NewestOf(made, 100) /\ Newest(20)' = NewestOf(made, 20)
  BY <1>6 DEF Newest, NewestOf, After
<1>8. PatternsCountSwarms'
  <2>1. SUFFICES ASSUME to = "patterns" PROVE PatternsCountSwarms'
    BY <1>3, <1>5 DEF PatternsCountSwarms, Replied
  <2>2. PatternsRight(made, told.answer)
    BY <1>1, <1>5, <2>1
  <2> QED
    BY <1>2, <1>3, <1>7, <2>2 DEF PatternsCountSwarms, PatternsRight, Showing, Shown
<1>9. TrendsFollowTime'
  <2>1. SUFFICES ASSUME to = "trends" PROVE TrendsFollowTime'
    BY <1>3, <1>5 DEF TrendsFollowTime, Replied
  <2>2. TrendsRight(made, told.answer)
    BY <1>1, <1>5, <2>1
  <2> QED
    BY <1>2, <1>3, <1>7, <2>2 DEF TrendsFollowTime, TrendsRight, Overall
<1>10. Remembered(swarm_history, analyses)'
  BY <1>2
<1> QED
  BY <1>8, <1>9, <1>10 DEF LearningInv, MemoryFollowsSwarms

LEMMA LearningKept ==
  ASSUME LearningInv, LearningStep
  PROVE  LearningInv'
<1>1. PICK rows, made : rows = swarm_history /\ made = analyses
  OBVIOUS
<1>2. Remembered(rows, made) /\ made \in Seq(Analyzed)
  BY <1>1 DEF LearningInv, Remembered
<1>3. ASSUME NEW n \in DOMAIN Names, NEW w \in Windows, Record(Names[n], Healths[w]) PROVE LearningInv'
  BY <1>3, RecordRemembers
<1>4. ASSUME MemoryTrends PROVE LearningInv'
  <2>1. PICK history, found : history = FirstFew(Reverse(rows), 20) /\ found = ComputeTrends(history)
    OBVIOUS
  <2>2. Answer("trends", found)
    BY <1>1, <1>4, <2>1 DEF MemoryTrends, GetHistory
  <2>3. 20 \in Nat
    OBVIOUS
  <2>4. Listing(history, 20) /\ \E h : Recalls(history, made, 20, h)
    BY ONLY <1>2, <2>1, <2>3, HistoryIs
  <2>5. TrendsRight(made, found)
    BY ONLY <1>2, <2>1, <2>4, TrendsAre
  <2> QED
    BY <1>1, <2>2, <2>5, AnswerRemembers
<1>5. ASSUME MemoryPatterns PROVE LearningInv'
  <2>1. PICK history, found : history = FirstFew(Reverse(rows), 100) /\ found = FindRecurringPatterns(history)
    OBVIOUS
  <2>2. Answer("patterns", found)
    BY <1>1, <1>5, <2>1 DEF MemoryPatterns, GetHistory
  <2>3. 100 \in Nat
    OBVIOUS
  <2>4. Listing(history, 100) /\ \E h : Recalls(history, made, 100, h)
    BY ONLY <1>2, <2>1, <2>3, HistoryIs
  <2>5. PatternsRight(made, found)
    BY ONLY <2>1, <2>4, PatternsAre
  <2> QED
    BY <1>1, <2>2, <2>5, AnswerRemembers
<1>6. ASSUME NEW to, NEW found, Answer(to, found), to \notin {"trends", "patterns"} PROVE LearningInv'
  BY <1>6, AnswerRemembers
<1>7. ASSUME OptimizeLearnings PROVE LearningInv'
  BY <1>6, <1>7 DEF OptimizeLearnings
<1>8. ASSUME NEW family, SimulateTemperament(family) PROVE LearningInv'
  BY <1>6, <1>8 DEF SimulateTemperament
<1>9. ASSUME NEW family, NEW health, StrategyRecommend(family, health) PROVE LearningInv'
  BY <1>6, <1>9 DEF StrategyRecommend
<1>10. ASSUME NEW es, NEW health, NEW emergent, NEW c, AboutEvents(es, health, emergent, c) PROVE LearningInv'
  <2>1. ASSUME EmergenceAnalyze(emergent) PROVE LearningInv'
    BY <1>6, <2>1 DEF EmergenceAnalyze
  <2>2. ASSUME EmergenceCoherence(c) PROVE LearningInv'
    BY <1>6, <2>2 DEF EmergenceCoherence
  <2>3. ASSUME EmergenceConsciousness(health, emergent, c) PROVE LearningInv'
    BY <1>6, <2>3 DEF EmergenceConsciousness
  <2>4. ASSUME EvolutionPlan(es, health, emergent, c) PROVE LearningInv'
    BY <1>6, <2>4 DEF EvolutionPlan
  <2> QED
    BY <1>10, <2>1, <2>2, <2>3, <2>4 DEF AboutEvents
<1>11. ASSUME LearningRestart PROVE LearningInv'
  <2>1. MemoryFollowsSwarms'
    BY <1>11 DEF LearningRestart, MemoryFollowsSwarms, PatternsCountSwarms, TrendsFollowTime, Replied
  <2>2. Remembered(swarm_history, analyses)'
    BY <1>1, <1>2, <1>11 DEF LearningRestart
  <2> QED
    BY <2>1, <2>2 DEF LearningInv
<1>12. ASSUME UNCHANGED learning PROVE LearningInv'
  <2>1. swarm_history' = swarm_history /\ analyses' = analyses /\ reply' = reply
    BY <1>12 DEF learning
  <2>2. MemoryFollowsSwarms' = MemoryFollowsSwarms
    BY <2>1 DEF MemoryFollowsSwarms, PatternsCountSwarms, TrendsFollowTime, Replied, Newest, LastOnes
  <2>3. Remembered(swarm_history, analyses)'
    BY <1>1, <1>2, <2>1
  <2> QED
    BY <2>2, <2>3 DEF LearningInv
<1>13. ASSUME LearningNext PROVE LearningInv'
  BY <1>3, <1>4, <1>5, <1>7, <1>8, <1>9, <1>10, <1>13 DEF LearningNext
<1> QED
  BY <1>11, <1>12, <1>13 DEF LearningStep

LEMMA LearningStarts == LearningInit => LearningInv
<1> SUFFICES ASSUME LearningInit PROVE LearningInv
  OBVIOUS
<1>1. PICK rows, made : rows = swarm_history /\ made = analyses
  OBVIOUS
<1>2. rows = <<>> /\ made = <<>> /\ reply = None
  BY <1>1 DEF LearningInit
<1>3. rows \in Seq(Rows) /\ made \in Seq(Analyzed) /\ 1 .. Len(rows) = {} /\ LastOf(made) = {}
  BY <1>2 DEF LastOf
<1>4. Madeof(rows, made, [k \in 1 .. Len(rows) |-> k])
  BY ONLY <1>3 DEF Madeof, Rising
<1> QED
  BY <1>1, <1>2, <1>3, <1>4, NothingTold DEF LearningInv, Remembered

(* Whatever runs are analyzed, in whatever order and however often, and    *)
(* whenever the process is restarted: a recurring pattern counts each of   *)
(* the hundred swarms analyzed last once and by its last analysis, none is *)
(* left out, and the trend of health does not run against the order of     *)
(* time among the last twenty.                                             *)
THEOREM MemoryAlwaysFollows == Spec => []MemoryFollowsSwarms
<1>1. Init => LearningInv
  BY LearningStarts DEF Init
<1>2. LearningInv /\ [Next]_intelligence => LearningInv'
  BY LearningKept, LearningSteps
<1>3. LearningInv => MemoryFollowsSwarms
  BY DEF LearningInv
<1> QED
  BY <1>1, <1>2, <1>3, PTL DEF Spec
=============================================================================
