----------------------------- MODULE Oversight -----------------------------
(* Human oversight in the intelligence service: approval requests, the      *)
(* operators who review them, the safety constraints an action is checked   *)
(* against, the policies in force and the lineage that explains decisions.  *)
(* Each part keeps its own SQLite tables, all of which outlive the process; *)
(* a handler runs to its end before the next starts, but the process can    *)
(* die between two of its statements. Scores are percentages; an action     *)
(* kind is known by the key words its name includes.                        *)
EXTENDS Swarms, Integers, Sequences, FiniteSets, SequencesExt

CONSTANTS
  Person,               \* operator ids, registered or not
  Seeded,               \* the default operators
  Deed, Words,          \* action kinds, and the key words in the name of each
  Health,               \* health scores the events of a request may give
  NewConstraints,       \* constraints an operator may add
  MaxRows, MaxDeaths    \* bounds: rows written to all tables together, and crashes

VARIABLES
  operators,      \* registered operator |-> [decisions, approvals]
  tickets,        \* governance_approvals: [swarm, risk, status, reviewer, expired]
  constraints,    \* safety_constraints, in the order of insertion
  violations,     \* safety_violations: [swarm, deed, severity, of (a constraint)]
  policies,       \* policies: [swarm, supersedes, active, override]
  interventions,  \* the number of human_interventions
  amendments,     \* the number of constitutional_amendments
  lineage,        \* governance_lineage: [swarm, kind]
  ballots,        \* history: the reviews so far, [ticket, by, decision, known]
  deaths          \* history: how often the process died between two statements of a handler

oversight == <<operators, tickets, constraints, violations, policies,
               interventions, amendments, lineage, ballots, deaths>>

Constraint(kind, appliesTo, threshold) ==
  [kind |-> kind, appliesTo |-> appliesTo, threshold |-> threshold]

DefaultConstraints == <<
  Constraint("hard_limit", {"emergency_shutdown", "emergency_halt"}, None),
  Constraint("hard_limit", {"dissolve_federation", "treaty_termination"}, None),
  Constraint("escalation_trigger", {"*"}, 20),
  Constraint("soft_guardrail", {"ideology_shift", "philosophy_evolution"}, None),
  Constraint("irreversibility_gate", {"constitutional_amendment", "policy_override"}, None),
  Constraint("ethical_boundary", {"agent_termination", "merge_agents"}, None),
  Constraint("hard_limit", {"auto_approval"}, 80),
  Constraint("escalation_trigger", {"anomaly_propagation", "ecosystem_cascade"}, 60) >>

NewOperator == [decisions |-> 0, approvals |-> 0]
SeedOperators(t) == IF DOMAIN t # {} THEN t ELSE [p \in Seeded |-> NewOperator]
SeedConstraints(t) == IF t # <<>> THEN t ELSE DefaultConstraints

\* A service that dies while it seeds a table, row by row, finds rows when it
\* is started again and adds no more.
SeedingCutShort ==
  /\ MaxDeaths > 0 /\ deaths = 1
  /\ \/ /\ \E some \in SUBSET Seeded \ {{}, Seeded} : operators = [p \in some |-> NewOperator]
        /\ constraints = SeedConstraints(<<>>)
     \/ /\ operators = SeedOperators(<<>>)
        /\ \E n \in 1 .. Len(DefaultConstraints) - 1 : constraints = SubSeq(DefaultConstraints, 1, n)

OversightInit ==
  /\ \/ deaths = 0 /\ operators = SeedOperators(<<>>) /\ constraints = SeedConstraints(<<>>)
     \/ SeedingCutShort
  /\ tickets = <<>> /\ violations = <<>> /\ policies = <<>>
  /\ interventions = 0 /\ amendments = 0 /\ lineage = <<>> /\ ballots = <<>>

\* The service is started again on the tables it left.
OversightRestart ==
  /\ operators' = SeedOperators(operators)
  /\ constraints' = SeedConstraints(constraints)
  /\ UNCHANGED <<tickets, violations, policies, interventions, amendments, lineage, ballots>>

Dies == deaths < MaxDeaths /\ deaths' = deaths + 1   \* and is started again
Lives == deaths' = deaths

Room ==
  Len(tickets) + Len(ballots) + Cardinality({i \in DOMAIN constraints : constraints[i] \in NewConstraints})
    + Len(violations) + Len(policies) + interventions + amendments + Len(lineage) < MaxRows

-----------------------------------------------------------------------------
(* Approvals                                                                *)

Critical == {"emergency_shutdown", "emergency_halt", "override_philosophy", "dissolve_institution"}
High == {"isolate_swarm", "federate_swarms", "constitutional_amendment", "ideology_shift"}
Medium == {"rebalance_load", "throttle_swarm", "institution_formation", "migrate_agents"}

ClassifyRisk(deed, health) ==
  IF Words[deed] \cap Critical # {} THEN "critical"
  ELSE IF Words[deed] \cap High # {} THEN "high"
  ELSE IF Words[deed] \cap Medium # {} THEN "medium"
  ELSE IF health < 35 THEN "high" ELSE "low"

RequiresHuman(risk) == risk \in {"critical", "high"}

NewTicket(s, risk) ==
  [swarm |-> s, risk |-> risk, expired |-> FALSE,
   status |-> IF RequiresHuman(risk) THEN "pending" ELSE "auto_approved",
   reviewer |-> IF RequiresHuman(risk) THEN None ELSE "system"]

Entry(s, kind) == [swarm |-> s, kind |-> kind]

\* POST /governance/request: a request that needs a human is also explained.
RequestApproval(s, deed, health) ==
  LET risk == ClassifyRisk(deed, health) IN
  /\ Room
  /\ tickets' = Append(tickets, NewTicket(s, risk))
  /\ \/ /\ Lives
        /\ lineage' = IF RequiresHuman(risk) THEN Append(lineage, Entry(s, "intervention")) ELSE lineage
     \/ RequiresHuman(risk) /\ Dies /\ UNCHANGED lineage
  /\ UNCHANGED <<operators, constraints, violations, policies, interventions, amendments, ballots>>

\* A request's time to live runs out; nothing but the list of pending requests looks at it.
Expire(i) ==
  /\ ~tickets[i].expired
  /\ tickets' = [tickets EXCEPT ![i].expired = TRUE]
  /\ UNCHANGED <<operators, constraints, violations, policies, interventions, amendments, lineage, ballots, deaths>>

Pending == {i \in DOMAIN tickets : tickets[i].status = "pending" /\ ~tickets[i].expired}

Counted(op, decision) ==
  [decisions |-> op.decisions + 1,
   approvals |-> op.approvals + (IF decision = "approved" THEN 1 ELSE 0)]

ReviewApprovalOfVetoed(i, p, decision) ==   \* a veto is final
  /\ Room
  /\ tickets' = IF tickets[i].status = "vetoed" THEN tickets
                ELSE [tickets EXCEPT ![i].status = decision, ![i].reviewer = p]
  /\ Lives
  /\ ballots' = Append(ballots, [ticket |-> i, by |-> p, decision |-> decision, known |-> FALSE])
  /\ UNCHANGED <<operators, constraints, violations, policies, interventions, amendments, lineage>>

\* POST /governance/review, by whoever gives any operator id.
ReviewApproval(i, p, decision) ==
  /\ Room
  /\ tickets' = [tickets EXCEPT ![i].status = decision, ![i].reviewer = p]
  /\ \/ Lives /\ operators' = IF p \in DOMAIN operators
                              THEN [operators EXCEPT ![p] = Counted(@, decision)] ELSE operators
     \/ Dies /\ UNCHANGED operators
  /\ ballots' = Append(ballots, [ticket |-> i, by |-> p, decision |-> decision,
                                 known |-> p \in DOMAIN operators /\ deaths' = deaths])
  /\ UNCHANGED <<constraints, violations, policies, interventions, amendments, lineage>>

\* What a review answers: the reviewers the request's one row names, and the verdict.
ComputeConsensus(i, required) ==
  LET of(status) == IF tickets[i].status = status THEN {tickets[i].reviewer} ELSE {} IN
  IF of("vetoed") # {} THEN "vetoed"
  ELSE IF Cardinality(of("approved")) >= required THEN "approved" ELSE "pending"

\* POST /governance/operators: known operators keep their counts.
UpsertOperator(p) ==
  /\ operators' = [q \in DOMAIN operators \cup {p} |->
                     IF q \in DOMAIN operators THEN operators[q] ELSE NewOperator]
  /\ UNCHANGED <<tickets, constraints, violations, policies, interventions, amendments, lineage, ballots, deaths>>

-----------------------------------------------------------------------------
(* Safety constraints                                                       *)

Blocking == {"hard_limit", "irreversibility_gate", "ethical_boundary"}

Applies(c, deed) == "*" \in c.appliesTo \/ c.appliesTo \cap Words[deed] # {}

\* What constraint c records against a deed it applies to; "none" if it holds.
Severity(c, health) ==
  IF c.kind \in Blocking THEN "blocked"
  ELSE IF c.kind = "soft_guardrail" THEN "warning"
  ELSE IF c.threshold # None /\ health < c.threshold THEN "warning" ELSE "none"

Violated(deed, health) ==
  {i \in DOMAIN constraints :
     Applies(constraints[i], deed) /\ Severity(constraints[i], health) # "none"}

Allowed(deed, health) ==
  ~\E i \in Violated(deed, health) : constraints[i].kind \in Blocking

\* POST /safety/evaluate records each violation with a statement of its own, in
\* the order of the constraints.
Evaluate(s, deed, health) ==
  LET broken == Violated(deed, health)
      all == Cardinality(broken)
      row(i) == [swarm |-> s, deed |-> deed, of |-> i,
                 severity |-> Severity(constraints[i], health)]
  IN
  /\ Room
  /\ \E order \in [1 .. all -> broken], m \in 0 .. all :
       /\ \A k, n \in DOMAIN order : k < n => order[k] < order[n]
       /\ \/ m = all /\ Lives
          \/ 0 < m /\ m < all /\ Dies
       /\ violations' = violations \o [n \in 1 .. m |-> row(order[n])]
  /\ UNCHANGED <<operators, tickets, constraints, policies, interventions, amendments, lineage, ballots>>

\* POST /safety/constraints.
AddConstraint(c) ==
  /\ Room
  /\ constraints' = Append(constraints, c)
  /\ UNCHANGED <<operators, tickets, violations, policies, interventions, amendments, lineage, ballots, deaths>>

-----------------------------------------------------------------------------
(* Policies, amendments and their lineage                                   *)

Enacted(s, supersedes, override) ==
  Append([i \in DOMAIN policies |->
            IF i = supersedes THEN [policies[i] EXCEPT !.active = FALSE] ELSE policies[i]],
         [swarm |-> s, supersedes |-> supersedes, active |-> TRUE, override |-> override])

\* POST /constitutional/policy ends the policy it supersedes, which may be any
\* swarm's, and then inserts its own.
EnactPolicy(s, supersedes) ==
  /\ Room
  /\ \/ Lives /\ policies' = Enacted(s, supersedes, FALSE)
     \/ supersedes # None /\ Dies /\ policies' = [policies EXCEPT ![supersedes].active = FALSE]
  /\ UNCHANGED <<operators, tickets, constraints, violations, interventions, amendments, lineage, ballots>>

IntervenePolicyFirst(s) ==
  /\ Room
  /\ policies' = Enacted(s, None, TRUE)
  /\ \/ Lives /\ interventions' = interventions + 1
     \/ Dies /\ UNCHANGED interventions
  /\ UNCHANGED <<operators, tickets, constraints, violations, amendments, lineage, ballots>>

\* POST /governance/intervene records the intervention, then the policy it makes.
Intervene(s) ==
  /\ Room
  /\ interventions' = interventions + 1
  /\ \/ Lives /\ policies' = Enacted(s, None, TRUE)
     \/ Dies /\ UNCHANGED policies
  /\ UNCHANGED <<operators, tickets, constraints, violations, amendments, lineage, ballots>>

\* POST /constitutional/amend enacts at once, whoever approved; the lineage says why.
Amend(s) ==
  /\ Room
  /\ amendments' = amendments + 1
  /\ \/ Lives /\ lineage' = Append(lineage, Entry(s, "institution_formation"))
     \/ Dies /\ UNCHANGED lineage
  /\ UNCHANGED <<operators, tickets, constraints, violations, policies, interventions, ballots>>

\* POST /explain/intervention.
Explain(s) ==
  /\ Room
  /\ lineage' = Append(lineage, Entry(s, "intervention"))
  /\ UNCHANGED <<operators, tickets, constraints, violations, policies, interventions, amendments, ballots, deaths>>

OversightNext ==
  \/ \E s \in Swarm, d \in Deed, h \in Health : RequestApproval(s, d, h) \/ Evaluate(s, d, h)
  \/ \E i \in DOMAIN tickets : Expire(i)
  \/ \E i \in DOMAIN tickets, p \in Person, v \in {"approved", "vetoed"} : ReviewApproval(i, p, v)
  \/ \E p \in Person : UpsertOperator(p)
  \/ \E c \in NewConstraints : AddConstraint(c)
  \/ \E s \in Swarm, i \in DOMAIN policies \cup {None} : EnactPolicy(s, i)
  \/ \E s \in Swarm : Intervene(s) \/ Amend(s) \/ Explain(s)

-----------------------------------------------------------------------------
(* Properties                                                               *)

\* What the constraints once refused they refuse ever after, whatever the
\* health of the swarm, the constraints added since and the restarts: a
\* refusal recorded in safety_violations still stands.
RefusedStaysRefused ==
  \A n \in DOMAIN violations : violations[n].severity = "blocked" =>
    \A h \in Health : ~Allowed(violations[n].deed, h)

\* An operator's totals count its reviews since it was registered, approvals
\* apart, whatever was upserted meanwhile and whoever else reviewed under an
\* unknown name; a review cut off by a crash is not counted.
DecisionsCounted ==
  \A p \in DOMAIN operators :
    LET mine == {n \in DOMAIN ballots : ballots[n].by = p /\ ballots[n].known} IN
    /\ operators[p].decisions = Cardinality(mine)
    /\ operators[p].approvals = Cardinality({n \in mine : ballots[n].decision = "approved"})

\* A policy that a later one superseded is not in force, whichever swarm
\* enacted that one and whatever was superseded before.
PoliciesInForce ==
  \A i \in DOMAIN policies :
    policies[i].active => ~\E j \in DOMAIN policies : j > i /\ policies[j].supersedes = i

\* Policies out of force that no policy came after: the process died between
\* ending them and enacting their successor, and nothing puts them back.
Orphaned ==
  {i \in DOMAIN policies :
     /\ ~policies[i].active
     /\ ~\E j \in DOMAIN policies : j > i /\ policies[j].supersedes = i}

\* Records that one handler writes in two places agree but for the crashes
\* between the two: an intervention and the policy it makes, a request that
\* needs a human or an amendment and the explanation of it, the end of a
\* policy and its successor. An override or the explanation of an amendment
\* is never there alone, and one crash leaves one record without its other
\* half, wherever it strikes.
RecordsKeepUp ==
  LET overrides == Cardinality({i \in DOMAIN policies : policies[i].override})
      asked == Cardinality({i \in DOMAIN tickets : RequiresHuman(tickets[i].risk)})
      explained == Cardinality({i \in DOMAIN lineage : lineage[i].kind = "intervention"})
      formed == Cardinality({i \in DOMAIN lineage : lineage[i].kind = "institution_formation"})
      ended == Cardinality(Orphaned)
  IN /\ overrides <= interventions /\ formed <= amendments
     /\ interventions + asked + amendments + ended <= overrides + explained + formed + deaths

\* The tables of oversight agree with each other and with what was done, but
\* for crashes between two statements: operators with their reviews, policies
\* with those that superseded them, interventions, requests and amendments
\* with their explanations.
RecordsAgree == RecordsKeepUp /\ PoliciesInForce /\ DecisionsCounted

\* A request's row is the last review of it, or, unreviewed, what its risk
\* made it: a veto holds only until somebody approves, an expired or
\* automatically approved request can still be reviewed. Two approvals are
\* required and the row holds one reviewer, so consensus is a veto or nothing.
LastBallotStands ==
  \A i \in DOMAIN tickets :
    LET cast == {n \in DOMAIN ballots : ballots[n].ticket = i} IN
    /\ IF cast = {} THEN tickets[i].status \in {"pending", "auto_approved"}
       ELSE \E n \in cast : /\ \A m \in cast : m <= n
                            /\ tickets[i].status = ballots[n].decision
                            /\ tickets[i].reviewer = ballots[n].by
    /\ ComputeConsensus(i, 2) \in {"vetoed", "pending"}

\* A constraint's refusal lasts for good, an operator's until the next review.
VerdictsStand == RefusedStaysRefused /\ LastBallotStands
=============================================================================
