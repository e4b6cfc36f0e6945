------------------------------- MODULE Swarms -------------------------------
(* What requests to the intelligence service name: the swarms, and None for *)
(* what they leave out; and what its handlers do with the lists they read.  *)
EXTENDS Integers, Sequences, SequencesExt

CONSTANTS None, Swarm

Some(condition, a) == IF condition THEN <<a>> ELSE <<>>
FirstFew(s, n) == SubSeq(s, 1, IF Len(s) < n THEN Len(s) ELSE n)
Cap(n, most) == IF n < most THEN n ELSE most
OfKind(s, k) == SelectSeq(s, LAMBDA x : x.kind = k)
Each(s, F(_)) == [n \in DOMAIN s |-> F(s[n])]
IsList(s) == Len(s) \in Nat /\ DOMAIN s = 1 .. Len(s)
Places(s) == [n \in DOMAIN s |-> n]

\* The elements at some places of a list, in their order; and some lists in a row.
At(s, places) ==
  [k \in 1 .. Cardinality(places) |-> s[CHOOSE n \in places : Cardinality({m \in places : m <= n}) = k]]
Joined(lists) == FoldLeft(LAMBDA all, s : all \o s, <<>>, lists)

\* The place each takes among these ranks, the highest first; equals keep their order.
PlaceByRank(ranks) ==
  LET before(m, n) == ranks[m] > ranks[n] \/ (ranks[m] = ranks[n] /\ m < n) IN
  [n \in DOMAIN ranks |-> 1 + Cardinality({m \in DOMAIN ranks : before(m, n)})]

\* The elements by their rank.
Ranked(s, rank(_)) ==
  LET place == PlaceByRank(Each(s, rank)) IN [k \in DOMAIN s |-> s[CHOOSE n \in DOMAIN s : place[n] = k]]

=============================================================================
