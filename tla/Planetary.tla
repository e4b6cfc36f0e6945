----------------------------- MODULE Planetary -----------------------------
(* Treaties, councils and resolutions between civilizations: what the       *)
(* intelligence service keeps in memory about them, and the reports it      *)
(* computes from that memory. Everything is lost with the process. A score  *)
(* is a percentage; an average, a weight or a probability is in thousandths *)
(* and rounded where the code rounds.                                       *)
EXTENDS Swarms, Integers, Sequences, FiniteSets, Functions

CONSTANTS
  Civ, Profiles, \* civilization ids, and the profiles they may register
  MaxNamed,      \* bound: ids a request for councils names
  MaxDeals       \* bound: treaties and resolutions together

\* CivProfileSchema of the service: scores are fractions of 1, the tiers four.
ASSUME ProfilesAssumption ==
  /\ \A p \in Profiles : /\ {p.health, p.wisdom, p.trust} \subseteq 0 .. 100
                         /\ p.tier \in {"transcendent", "advanced", "established", "nascent"}
  /\ MaxNamed \in Nat

VARIABLES
  registry,      \* civilizationRegistry: id |-> profile
  treaties,      \* planetaryTreatyStore: [kind, parties, status]
  councils,      \* planetaryCouncilStore: kind |-> [members, sound, weights]
  resolutions    \* planetaryResolutionStore: [council, for, passed]

planetary == <<registry, treaties, councils, resolutions>>

PlanetaryInit == registry = <<>> /\ treaties = <<>> /\ councils = <<>> /\ resolutions = <<>>
PlanetaryRestart == registry' = <<>> /\ treaties' = <<>> /\ councils' = <<>> /\ resolutions' = <<>>

TreatyKind == {"non_aggression", "mutual_aid", "free_exchange", "joint_governance",
               "strategic_alliance", "resource_compact", "constitutional_union"}

Plus(a, b) == a + b
AtMost(a, b) == IF a < b THEN a ELSE b
AtLeast(a, b) == IF a > b THEN a ELSE b
Rounded(n, d) == (2 * n + d) \div (2 * d)
Total(f, S) == FoldFunctionOnSet(Plus, 0, f, S)
Average(f, S) == (10 * Total(f, S)) \div AtLeast(Cardinality(S), 1)

HealthOf(S) == Average([c \in S |-> registry[c].health], S)
WisdomOf(S) == Average([c \in S |-> registry[c].wisdom], S)
TrustOf(S) == Average([c \in S |-> registry[c].trust], S)
Active(ts, kinds) == {i \in DOMAIN ts : ts[i].status = "active" /\ ts[i].kind \in kinds}
Pairs(S) == {{c, d} : c \in S, d \in S} \ {{c} : c \in S}

\* POST /planetary/civilizations registers a civilization or replaces its profile.
Register(c, p) ==
  /\ registry' = [d \in DOMAIN registry \cup {c} |-> IF d = c THEN p ELSE registry[d]]
  /\ UNCHANGED <<treaties, councils, resolutions>>

-----------------------------------------------------------------------------
(* Compatibility                                                            *)

Ideologies == {<<{"republic", "democracy"}, 88>>, <<{"republic", "meritocracy"}, 72>>,
  <<{"republic", "autonomy"}, 65>>, <<{"republic", "mandate"}, 45>>, <<{"republic", "anarchy"}, 40>>,
  <<{"democracy", "meritocracy"}, 75>>, <<{"democracy", "autonomy"}, 70>>,
  <<{"democracy", "mandate"}, 42>>, <<{"democracy", "anarchy"}, 45>>,
  <<{"meritocracy", "autonomy"}, 68>>, <<{"meritocracy", "mandate"}, 55>>,
  <<{"meritocracy", "anarchy"}, 50>>, <<{"autonomy", "mandate"}, 30>>,
  <<{"autonomy", "anarchy"}, 72>>, <<{"mandate", "anarchy"}, 20>>}

IdeologyCompat(a, b) ==
  LET rated == {e \in Ideologies : e[1] = {a, b}}
      known == UNION {e[1] : e \in Ideologies}
  IN IF rated # {} THEN (CHOOSE e \in rated : TRUE)[2] ELSE IF a = b /\ a \in known THEN 100 ELSE 50

Synergy(a, b) ==
  LET complements == {<<"ingest", "transform">>, <<"transform", "validate">>, <<"validate", "output">>,
                      <<"compute", "storage">>, <<"energy", "compute">>, <<"governance", "compliance">>}
      met == {p \in complements : (p[1] \in a /\ p[2] \in b) \/ (p[2] \in a /\ p[1] \in b)}
  IN AtMost(18 * Cardinality(met) + 20, 100)

Governance(a, b) == IdeologyCompat(a.ideology, b.ideology)

ScoreCompatibility(a, b) ==
  LET policies == 70 * Governance(a, b) + 30 * AtMost(a.wisdom, b.wisdom)
      ready == 40 * a.trust + 40 * b.trust + 20 * Governance(a, b)
  IN Rounded(3000 * Governance(a, b) + 25 * policies + 25 * ready + 2000 * Synergy(a.skills, b.skills), 1000)

RecommendTreatyKind(a, b) ==
  LET overall == ScoreCompatibility(a, b) IN
  IF overall > 800 THEN "constitutional_union"
  ELSE IF overall > 700 THEN "strategic_alliance"
  ELSE IF overall > 600 THEN "joint_governance"
  ELSE IF Governance(a, b) < 40 THEN "non_aggression"
  ELSE IF a.health < 40 \/ b.health < 40 THEN "mutual_aid"
  ELSE IF Synergy(a.skills, b.skills) > 70 THEN "resource_compact" ELSE "free_exchange"

-----------------------------------------------------------------------------
(* Treaties                                                                 *)

Treaty(kind, parties, status) == [kind |-> kind, parties |-> parties, status |-> status]

\* POST /planetary/treaty/propose: any ids, registered or not, or one id twice.
Propose(parties, kind) ==
  /\ Len(treaties) + Len(resolutions) < MaxDeals
  /\ treaties' = Append(treaties, Treaty(kind, parties, "proposed"))
  /\ UNCHANGED <<registry, councils, resolutions>>

\* POST /planetary/treaty/ratify, whatever the treaty's status: all parties in one call.
Ratify(i, ratifying) ==
  /\ treaties' = [treaties EXCEPT ![i].status =
                    IF treaties[i].parties \subseteq ratifying THEN "active" ELSE "proposed"]
  /\ UNCHANGED <<registry, councils, resolutions>>

RoundOutcome(trust, round) ==
  IF trust > 140 /\ round >= 2 THEN "agreement"
  ELSE IF trust < 60 THEN "deadlock"
  ELSE IF round >= 3 THEN "partial" ELSE "pending"

\* The outcome of the first of up to four rounds that is not pending; the trust is of both.
NegotiationOutcome(a, b) ==
  LET trust == a.trust + b.trust
      last == CHOOSE r \in 1 .. 4 : /\ RoundOutcome(trust, r) # "pending"
                                    /\ \A q \in 1 .. r - 1 : RoundOutcome(trust, q) = "pending"
  IN RoundOutcome(trust, last)

\* POST /planetary/treaty/negotiate and /planetary/diplomacy/negotiate: only a
\* ratified treaty is kept. A civilization may negotiate with itself.
Negotiate(a, b, preferred) ==
  LET kind == IF preferred = None THEN RecommendTreatyKind(registry[a], registry[b]) ELSE preferred IN
  /\ Len(treaties) + Len(resolutions) < MaxDeals
  /\ NegotiationOutcome(registry[a], registry[b]) = "agreement"
  /\ treaties' = Append(treaties, Treaty(kind, {a, b}, "active"))
  /\ UNCHANGED <<registry, councils, resolutions>>

-----------------------------------------------------------------------------
(* Councils                                                                 *)

Quorum == [security_council |-> 600, economic_council |-> 500, science_council |-> 500,
           ethics_council |-> 670, arbitration_tribunal |-> 750]

Formable(n) ==
  {k \in DOMAIN Quorum \ DOMAIN councils : n >= IF k = "ethics_council" THEN 3 ELSE 2}

Weight(c) == 40 * registry[c].health + 35 * registry[c].wisdom + 25 * registry[c].trust

CouncilDivided(ids) ==    \* integer division before scaling
  LET total == Total([n \in DOMAIN ids |-> Weight(ids[n])], DOMAIN ids) IN
  [members |-> Range(ids), sound |-> total > 0 /\ Cardinality(Range(ids)) = Len(ids),
   weights |-> [c \in Range(ids) |-> IF total = 0 THEN 0 ELSE 1000 * (Weight(c) \div total)]]

\* A council of the civilizations ids names, one that is named twice counted twice
\* in the total. All scores 0 give weights that are not numbers, and never carry.
Council(ids) ==
  LET total == Total([n \in DOMAIN ids |-> Weight(ids[n])], DOMAIN ids) IN
  [members |-> Range(ids), sound |-> total > 0 /\ Cardinality(Range(ids)) = Len(ids),
   weights |-> [c \in Range(ids) |-> IF total = 0 THEN 0 ELSE Rounded(1000 * Weight(c), total)]]

\* POST /planetary/governance/councils, with the registered ids of the request.
FormCouncils(ids) ==
  /\ ids # <<>>
  /\ councils' = [k \in DOMAIN councils \cup Formable(Len(ids)) |->
                    IF k \in DOMAIN councils THEN councils[k] ELSE Council(ids)]
  /\ UNCHANGED <<registry, treaties, resolutions>>

Approval(c) == 50 * registry[c].trust + 30 * registry[c].health + 20 * registry[c].wisdom
VotesFor(k) == {c \in councils[k].members : Approval(c) > 6000}

\* POST /planetary/governance/resolve: today's scores vote with the weights of the founding.
Resolve(k) ==
  /\ Len(treaties) + Len(resolutions) < MaxDeals
  /\ resolutions' = Append(resolutions,
       [council |-> k, for |-> VotesFor(k),
        passed |-> Total(councils[k].weights, VotesFor(k)) >= Quorum[k]])
  /\ UNCHANGED <<registry, treaties, councils>>

PlanetaryNext ==
  \/ \E c \in Civ, p \in Profiles : Register(c, p)
  \/ \E parties \in SUBSET Civ \ {{}}, kind \in TreatyKind : Propose(parties, kind)
  \/ \E i \in DOMAIN treaties, by \in SUBSET Civ \ {{}} : Ratify(i, by)
  \/ \E a \in DOMAIN registry, b \in DOMAIN registry, kind \in TreatyKind \cup {None} : Negotiate(a, b, kind)
  \/ \E n \in 1 .. MaxNamed : \E ids \in [1 .. n -> DOMAIN registry] : FormCouncils(ids)
  \/ \E k \in DOMAIN councils : Resolve(k)

-----------------------------------------------------------------------------
(* Risk: how grave each risk of the civilizations S is, 0 for none,         *)
(* 2 elevated, 3 high, 4 catastrophic                                       *)

\* The domains whose criticality counts: [cascade, criticality], in percent.
Domains == {<<70, 95>>, <<80, 90>>, <<65, 85>>, <<55, 80>>, <<45, 75>>}
CascadeRisk(d, S) == Rounded(12 * d[1] * (1000 - HealthOf(S)), 1000)

CascadeFailure(S) ==
  LET exposed == {d \in Domains : CascadeRisk(d, S) > 450}
      prob == Total([d \in exposed |-> CascadeRisk(d, S) * d[2]], exposed) \div AtLeast(Cardinality(exposed), 1)
  IN IF exposed = {} THEN 0 ELSE IF prob > 70000 THEN 4 ELSE IF prob > 50000 THEN 3 ELSE 2

Instability(S) ==
  LET unstable == {c \in S : registry[c].health < 35} IN
  IF unstable = {} THEN 0 ELSE IF 2 * Cardinality(unstable) >= Cardinality(S) THEN 4 ELSE 3

IdeologiesOf(S) == {registry[c].ideology : c \in S}
Incompatible(S) == \E p \in {{"mandate", "anarchy"}, {"mandate", "autonomy"}} : p \subseteq IdeologiesOf(S)

\* Its probability, 0 if there is no such risk.
Divergence(S) ==
  IF Cardinality(S) < 2 \/ (~Incompatible(S) /\ Cardinality(IdeologiesOf(S)) <= 3) THEN 0
  ELSE AtMost(850, 200 + 120 * (Cardinality(IdeologiesOf(S)) - 2) + (IF Incompatible(S) THEN 250 ELSE 0))

ResourceCollapse(S, ts) ==
  LET compact == Active(ts, {"resource_compact"}) # {}
      prob == AtMost(800, (6 * (1000 - HealthOf(S))) \div 10 + (IF compact THEN 0 ELSE 200))
  IN IF (compact /\ HealthOf(S) > 500) \/ prob < 250 THEN 0 ELSE IF prob > 550 THEN 3 ELSE 2

KnowledgeHoarding(S, ts) ==
  IF /\ Active(ts, {"free_exchange"}) = {}
     /\ \E c \in S : registry[c].wisdom > 65
     /\ \E c \in S : registry[c].wisdom < 30
  THEN 2 ELSE 0

\* assessPlanetaryRisk: from green, 0, to black, 4.
ThreatLevel(S, ts) ==
  LET divergence == IF Divergence(S) = 0 THEN 0 ELSE IF Divergence(S) > 600 THEN 3 ELSE 2
      grades == <<CascadeFailure(S), Instability(S), divergence, ResourceCollapse(S, ts), KnowledgeHoarding(S, ts)>>
      risks == {r \in DOMAIN grades : grades[r] > 0}
      high == \E r \in risks : grades[r] = 3
  IN IF \E r \in risks : grades[r] = 4 THEN 4
     ELSE IF high /\ Cardinality(risks) >= 3 THEN 3
     ELSE IF high THEN 2 ELSE IF Cardinality(risks) >= 2 THEN 1 ELSE 0

MacroResilience(S) ==
  1000 - AtMost(1000, (1000 - HealthOf(S) + CascadeRisk(<<80, 90>>, S)) \div 2)

-----------------------------------------------------------------------------
(* Awareness of the civilizations S                                         *)

Coverage(S, kinds, ts) ==
  IF Cardinality(S) < 2 THEN 0
  ELSE AtMost(1000, (1000 * Cardinality(Active(ts, kinds))) \div Cardinality(Pairs(S)))

Cohesion(S, ts) ==
  (5 * TrustOf(S) + 3 * Coverage(S, TreatyKind, ts) + 400 * Cardinality(DOMAIN councils)) \div 10

Compatibility(S) ==
  LET score == [p \in Pairs(S) |-> LET a == CHOOSE a \in p : TRUE
                                       b == CHOOSE b \in p : b # a
                                   IN ScoreCompatibility(registry[a], registry[b])]
  IN IF Pairs(S) = {} THEN 500 ELSE Total(score, Pairs(S)) \div Cardinality(Pairs(S))

\* The state reported counts the councils that could be formed as well.
CouncilsSeen(S) == Cardinality(DOMAIN councils) + Cardinality(Formable(Cardinality(S)))

Coherence(S, ts) == (3 * HealthOf(S) + 4 * Compatibility(S) + 3 * Coverage(S, TreatyKind, ts)) \div 10
Harmony(S) == (70 * TrustOf(S) + 3 * (10000 - 3 * Divergence(S))) \div 100
Alignment(S, ts) ==
  LET passed == {n \in DOMAIN resolutions : resolutions[n].passed} IN
  AtMost(1000, Cohesion(S, ts) \div 2 + 60 * CouncilsSeen(S) + AtMost(200, 50 * Cardinality(passed)))
AdaptiveIntelligence(S) ==
  LET tiers == [transcendent |-> 100, advanced |-> 75, established |-> 50, nascent |-> 25] IN
  (6 * WisdomOf(S) + 4 * Average([c \in S |-> tiers[registry[c].tier]], S)) \div 10
Synchronization(S, ts) ==
  IF Cardinality(S) < 2 THEN 500
  ELSE AtMost(1000, 200 + Coverage(S, {"joint_governance", "constitutional_union", "strategic_alliance"}, ts))

\* classifyAwareness: from fragmented, 0, to planetary mind, 5.
Awareness(S, ts) ==
  LET mean == (Coherence(S, ts) + Harmony(S) + Alignment(S, ts) + MacroResilience(S)
                 + AdaptiveIntelligence(S) + Synchronization(S, ts)) \div 6
      active == Cardinality(Active(ts, TreatyKind))
  IN IF Active(ts, {"constitutional_union"}) # {} /\ mean > 750 /\ Cohesion(S, ts) > 800 THEN 5
     ELSE IF mean > 700 /\ CouncilsSeen(S) >= 4 /\ Alignment(S, ts) > 650 THEN 4
     ELSE IF active >= 2 /\ CouncilsSeen(S) >= 2 /\ mean > 550 THEN 3
     ELSE IF active >= 1 /\ mean > 450 THEN 2
     ELSE IF Coherence(S, ts) > 350 \/ active > 0 THEN 1 ELSE 0

-----------------------------------------------------------------------------
(* Resource pools, in tenths of a unit                                      *)

Capacity(p) == 1000 + 5 * (p.wisdom + p.health)
Allocated(p) == 10 * ((Capacity(p) * (4000 + 35 * (100 - p.health))) \div 100000)
Reserved(p) == 10 * (Capacity(p) \div 100)
Deficit(p) == p.health < 60 /\ 10 * (Capacity(p) - Allocated(p) - Reserved(p)) < Capacity(p)

-----------------------------------------------------------------------------
(* Properties                                                               *)

\* A resolution for which every member of its council voted is carried, however
\* the scores have changed since the weights were fixed, unless the council was
\* founded on scores that are all 0 or on a list that names a member twice.
UnanimityCarries ==
  \A n \in DOMAIN resolutions :
    LET c == councils[resolutions[n].council] IN
    c.sound /\ c.members = resolutions[n].for => resolutions[n].passed

\* Bringing a treaty into force never raises the threat level reported for any
\* group of civilizations and never lowers their awareness.
TreatiesHelp ==
  \A S \in SUBSET DOMAIN registry \ {{}} : \A i \in DOMAIN treaties :
    LET inForce == [treaties EXCEPT ![i].status = "active"] IN
    /\ ThreatLevel(S, inForce) <= ThreatLevel(S, treaties)
    /\ Awareness(S, inForce) >= Awareness(S, treaties)

\* No civilization's pool is ever short by the measure orchestrateResources
\* uses, not even that of one in collapse: nothing is ever allocated to it.
PoolsNeverShort == \A c \in DOMAIN registry : ~Deficit(registry[c])

\* What civilizations do together serves them, in every order of proposals,
\* ratifications, councils and registrations.
FederationServes == UnanimityCarries /\ TreatiesHelp /\ PoolsNeverShort
=============================================================================
